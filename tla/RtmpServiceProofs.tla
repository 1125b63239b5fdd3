-------------------------- MODULE RtmpServiceProofs -------------------------
(***************************************************************************)
(* Theorems of RtmpSession about the service that a client gets, for any   *)
(* number of connections, streams and clients of every kind: it is served  *)
(* as what it is and with what it asked for, and given up only for a       *)
(* reason.                                                                 *)
(*                                                                         *)
(* The client walks through its script and the server through its program  *)
(* counter, and neither sees the other: the proof relates the two.  The    *)
(* number of messages that the server has received tells where it is       *)
(* (Stage), and the position of the client which answer it waits for       *)
(* (Awaits) and which of its messages that is the answer to (AnswerTo).    *)
(*                                                                         *)
(* Before that the two agree on the handshake: the last section relates    *)
(* the blocks on their way with what the server remembers of its answer.   *)
(***************************************************************************)
EXTENDS RtmpSessionProofs

-----------------------------------------------------------------------------
(* The service                                                             *)

\* Where in its script a client of each kind expects the second and the third
\* answer (the first is at 3), or past the end of the script.
Never == 100
Second(kind) ==
    CASE kind \in {"play", "flash"} -> 5
      [] kind = "haivision" -> 6
      [] kind \in {"fmle", "direct", "nameless"} -> 7
      [] OTHER -> Never
Third(kind) ==
    CASE kind \in {"play", "fmle", "haivision"} -> 9
      [] kind = "flash" -> 8
      [] OTHER -> Never

\* How many messages it has sent when it is at a position, and which position
\* sends the k-th.
Sent(kind, pos) ==
    IF pos <= 3 THEN pos - 1 ELSE IF pos <= Second(kind) THEN pos - 2
    ELSE IF pos <= Third(kind) THEN pos - 3 ELSE pos - 4
SendAt(kind, k) ==
    IF k < 3 THEN k ELSE IF k + 1 < Second(kind) THEN k + 1
    ELSE IF k + 2 < Third(kind) THEN k + 2 ELSE k + 3
Call(kind, u, k) == ScriptOf(kind, u)[SendAt(kind, k)].what

\* The answer that it waits for, at a position or after it, and which of its
\* messages the server answers so.
StartAt(kind) == IF kind \in {"direct", "nameless"} THEN Second(kind) ELSE Third(kind)
Awaits(kind, pos) ==
    IF pos <= 3 THEN "ConnectAppRes"
    ELSE IF pos <= Second(kind) /\ kind \notin {"direct", "nameless"} THEN "CreateStreamRes"
    ELSE "Start"
AnswerTo(kind, pos) ==
    IF pos <= 3 THEN 1
    ELSE IF pos <= Second(kind)
    THEN CASE kind = "fmle" -> 5 [] kind = "haivision" -> 4
           [] kind \in {"play", "flash", "direct", "nameless"} -> 3 [] OTHER -> Never
    ELSE IF pos <= Third(kind)
    THEN CASE kind = "play" -> 4 [] kind = "flash" -> 5
           [] kind \in {"fmle", "haivision"} -> 6 [] OTHER -> Never
    ELSE Never

\* Where the server can be when it has received k messages.
Publishing == {"acquire", "on_publish", "publishing"}
Stage(kind, k) ==
    IF k = 0 THEN {"connect_app"}
    ELSE IF kind = "nowhere" THEN {}
    ELSE IF k = 1 THEN {"service_cycle", "identify"}
    ELSE IF k = 2 THEN {"identify"}
    ELSE CASE kind = "play" ->
                (CASE k = 3 -> {"identify_create_stream"} [] k = 4 -> {"start", "playing"}
                   [] k \in 5..8 -> {"playing"} [] k = 9 -> {"join"} [] OTHER -> {})
           [] kind = "direct" ->
                (CASE k = 3 -> {"start", "playing"} [] k \in 4..5 -> {"playing"} [] OTHER -> {})
           [] kind = "flash" ->
                (CASE k \in 3..4 -> {"identify_create_stream"} [] k = 5 -> {"start"} \cup Publishing
                   [] k = 6 -> {"publishing"} [] k = 7 -> {"join"} [] OTHER -> {})
           [] kind = "fmle" ->
                (CASE k = 3 -> {"start", "FCPublish"} [] k = 4 -> {"createStream"}
                   [] k = 5 -> {"publish"} [] k = 6 -> Publishing
                   [] k = 7 -> {"publishing"} [] k = 8 -> {"join"} [] OTHER -> {})
           [] kind = "haivision" ->
                (CASE k = 3 -> {"identify"} [] k = 4 -> {"identify_create_stream"}
                   [] k = 5 -> {"start", "publish"} [] k = 6 -> Publishing
                   [] k = 7 -> {"publishing"} [] OTHER -> {})
           [] OTHER -> {}

\* The scripts, step by step.
LEMMA PlayScript ==
  ASSUME NEW u
  PROVE  LET s == ScriptOf("play", u)
         IN  /\ Len(s) = 12
             /\ s[1] = Send(Msg("connect", 1, "live")) /\ s[2] = Send(Control)
             /\ s[3] = Expect("ConnectAppRes")
             /\ s[4] = Send(Msg("createStream", 2, None))
             /\ s[5] = Expect("CreateStreamRes")
             /\ s[6] = Send(Msg("play", 0, u)) /\ s[7] = Send(Control)
             /\ s[8] = Send(Control) /\ s[9] = Expect("Start")
             /\ s[10] = Send(Msg("pause", 0, None))
             /\ s[11] = Send(Msg("getLength", 9, None))
             /\ s[12] = Send(Msg("closeStream", 0, None))
  BY DEF ScriptOf, connect_app, create_stream, play, publish, fmle_publish, haivision_publish, Started, EndPlay

LEMMA DirectScript ==
  ASSUME NEW u
  PROVE  LET s == ScriptOf("direct", u)
         IN  /\ Len(s) = 7
             /\ s[1] = Send(Msg("connect", 1, "live")) /\ s[2] = Send(Control)
             /\ s[3] = Expect("ConnectAppRes")
             /\ s[4] = Send(Msg("play", 0, u)) /\ s[5] = Send(Control)
             /\ s[6] = Send(Control) /\ s[7] = Expect("Start")
  BY DEF ScriptOf, connect_app, create_stream, play, publish, fmle_publish, haivision_publish, Started, EndPlay

LEMMA FlashScript ==
  ASSUME NEW u
  PROVE  LET s == ScriptOf("flash", u)
         IN  /\ Len(s) = 10
             /\ s[1] = Send(Msg("connect", 1, "live")) /\ s[2] = Send(Control)
             /\ s[3] = Expect("ConnectAppRes")
             /\ s[4] = Send(Msg("createStream", 2, None))
             /\ s[5] = Expect("CreateStreamRes") /\ s[6] = Send(Control)
             /\ s[7] = Send(Msg("publish", 0, u)) /\ s[8] = Expect("Start")
             /\ s[9] = Send(Media)
             /\ s[10] = Send(Msg("closeStream", 0, None))
  BY DEF ScriptOf, connect_app, create_stream, play, publish, fmle_publish, haivision_publish, Started, EndPlay

LEMMA FmleScript ==
  ASSUME NEW u
  PROVE  LET s == ScriptOf("fmle", u)
         IN  /\ Len(s) = 11
             /\ s[1] = Send(Msg("connect", 1, "live")) /\ s[2] = Send(Control)
             /\ s[3] = Expect("ConnectAppRes")
             /\ s[4] = Send(Msg("releaseStream", 2, u))
             /\ s[5] = Send(Msg("FCPublish", 3, u))
             /\ s[6] = Send(Msg("createStream", 4, None))
             /\ s[7] = Expect("CreateStreamRes")
             /\ s[8] = Send(Msg("publish", 0, u)) /\ s[9] = Expect("Start")
             /\ s[10] = Send(Media) /\ s[11] = Send(Msg("FCUnpublish", 5, u))
  BY DEF ScriptOf, connect_app, create_stream, play, publish, fmle_publish, haivision_publish, Started, EndPlay

LEMMA HaivisionScript ==
  ASSUME NEW u
  PROVE  LET s == ScriptOf("haivision", u)
         IN  /\ Len(s) = 10
             /\ s[1] = Send(Msg("connect", 1, "live")) /\ s[2] = Send(Control)
             /\ s[3] = Expect("ConnectAppRes")
             /\ s[4] = Send(Msg("_checkbw", 2, None))
             /\ s[5] = Send(Msg("createStream", 3, None))
             /\ s[6] = Expect("CreateStreamRes")
             /\ s[7] = Send(Msg("FCPublish", 4, u))
             /\ s[8] = Send(Msg("publish", 0, u)) /\ s[9] = Expect("Start")
             /\ s[10] = Send(Media)
  BY DEF ScriptOf, connect_app, create_stream, play, publish, fmle_publish, haivision_publish, Started, EndPlay

LEMMA IdleScript ==
  ASSUME NEW u
  PROVE  LET s == ScriptOf("idle", u)
         IN  /\ Len(s) = 3
             /\ s[1] = Send(Msg("connect", 1, "live")) /\ s[2] = Send(Control)
             /\ s[3] = Expect("ConnectAppRes")
  BY DEF ScriptOf, connect_app, create_stream, play, publish, fmle_publish, haivision_publish, Started, EndPlay

LEMMA NamelessScript ==
  ASSUME NEW u
  PROVE  LET s == ScriptOf("nameless", u)
         IN  /\ Len(s) = 7
             /\ s[1] = Send(Msg("connect", 1, "live")) /\ s[2] = Send(Control)
             /\ s[3] = Expect("ConnectAppRes")
             /\ s[4] = Send(Msg("play", 0, None)) /\ s[5] = Send(Control)
             /\ s[6] = Send(Control) /\ s[7] = Expect("Start")
  BY DEF ScriptOf, connect_app, create_stream, play, publish, fmle_publish, haivision_publish, Started, EndPlay

LEMMA NowhereScript ==
  ASSUME NEW u
  PROVE  LET s == ScriptOf("nowhere", u)
         IN  /\ Len(s) = 3
             /\ s[1] = Send(Msg("connect", 1, None)) /\ s[2] = Send(Control)
             /\ s[3] = Expect("ConnectAppRes")
  BY DEF ScriptOf, connect_app, create_stream, play, publish, fmle_publish, haivision_publish, Started, EndPlay

\* Where the answers are expected.
LEMMA Turns ==
  ASSUME NEW kind \in ClientKind
  PROVE  /\ Second(kind) \in 4..Never /\ Third(kind) \in 4..Never
         /\ Second(kind) < Third(kind) \/ (Second(kind) = Never /\ Third(kind) = Never)
  <1>1. \/ Second(kind) = 5 /\ Third(kind) = 9
        \/ Second(kind) = 5 /\ Third(kind) = 8
        \/ Second(kind) = 6 /\ Third(kind) = 9
        \/ Second(kind) = 7 /\ Third(kind) = 9
        \/ Second(kind) = 7 /\ Third(kind) = Never
        \/ Second(kind) = Never /\ Third(kind) = Never
    <2>1. Second("play") = 5 /\ Third("play") = 9
      BY DEF Second, Third
    <2>2. Second("flash") = 5 /\ Third("flash") = 8
      BY DEF Second, Third
    <2>3. Second("haivision") = 6 /\ Third("haivision") = 9
      BY DEF Second, Third
    <2>4. Second("fmle") = 7 /\ Third("fmle") = 9
      BY DEF Second, Third
    <2>5. Second("direct") = 7 /\ Third("direct") = Never
      BY DEF Second, Third
    <2>6. Second("nameless") = 7 /\ Third("nameless") = Never
      BY DEF Second, Third
    <2>7. Second("idle") = Never /\ Third("idle") = Never
      BY DEF Second, Third
    <2>8. Second("nowhere") = Never /\ Third("nowhere") = Never
      BY DEF Second, Third
    <2> QED
      BY <2>1, <2>2, <2>3, <2>4, <2>5, <2>6, <2>7, <2>8 DEF ClientKind
  <1> QED
    BY <1>1 DEF Never

Answering(kind) == {3, Second(kind), Third(kind)}

\* Between them a message is sent at every position, and nothing else changes.
LEMMA SendStep ==
  ASSUME NEW kind \in ClientKind, NEW pos \in 1..Never - 1, pos \notin Answering(kind)
  PROVE  /\ Sent(kind, pos) \in Nat
         /\ Sent(kind, pos + 1) = Sent(kind, pos) + 1
         /\ SendAt(kind, Sent(kind, pos) + 1) = pos
         /\ AnswerTo(kind, pos + 1) = AnswerTo(kind, pos)
         /\ Awaits(kind, pos + 1) = Awaits(kind, pos)
         /\ pos # StartAt(kind)
  <1> USE Turns DEF Answering, Never
  <1>1. Sent(kind, pos) \in Nat /\ Sent(kind, pos + 1) = Sent(kind, pos) + 1
    BY DEF Sent
  <1>2. SendAt(kind, Sent(kind, pos) + 1) = pos
    BY DEF Sent, SendAt
  <1>3. (pos + 1 <= 3 <=> pos <= 3) /\ (pos + 1 <= Second(kind) <=> pos <= Second(kind))
        /\ (pos + 1 <= Third(kind) <=> pos <= Third(kind))
    OBVIOUS
  <1>4. AnswerTo(kind, pos + 1) = AnswerTo(kind, pos) /\ Awaits(kind, pos + 1) = Awaits(kind, pos)
    BY <1>3 DEF AnswerTo, Awaits
  <1>5. pos # StartAt(kind)
    BY DEF StartAt
  <1> QED
    BY <1>1, <1>2, <1>4, <1>5

\* When it is answered, it has sent what is answered and not what is answered
\* next.
LEMMA ExpectStep ==
  ASSUME NEW kind \in ClientKind, NEW pos \in Answering(kind), pos # Never
  PROVE  /\ Sent(kind, pos) \in Nat
         /\ Sent(kind, pos + 1) = Sent(kind, pos)
         /\ AnswerTo(kind, pos) <= Sent(kind, pos)
         /\ Sent(kind, pos) < AnswerTo(kind, pos + 1)
         /\ Awaits(kind, pos) = "Start" <=> pos = StartAt(kind)
  <1>1. CASE kind = "play"
    <2>1. Second(kind) = 5 /\ Third(kind) = 9
      BY <1>1 DEF Second, Third, Never
    <2>2. pos = 3 \/ pos = 5 \/ pos = 9
      BY <2>1 DEF Answering, Never
    <2> QED
      BY <1>1, <2>1, <2>2 DEF Sent, AnswerTo, Awaits, StartAt, Never
  <1>2. CASE kind = "direct"
    <2>1. Second(kind) = 7 /\ Third(kind) = 100
      BY <1>2 DEF Second, Third, Never
    <2>2. pos = 3 \/ pos = 7
      BY <2>1 DEF Answering, Never
    <2> QED
      BY <1>2, <2>1, <2>2 DEF Sent, AnswerTo, Awaits, StartAt, Never
  <1>3. CASE kind = "flash"
    <2>1. Second(kind) = 5 /\ Third(kind) = 8
      BY <1>3 DEF Second, Third, Never
    <2>2. pos = 3 \/ pos = 5 \/ pos = 8
      BY <2>1 DEF Answering, Never
    <2> QED
      BY <1>3, <2>1, <2>2 DEF Sent, AnswerTo, Awaits, StartAt, Never
  <1>4. CASE kind = "fmle"
    <2>1. Second(kind) = 7 /\ Third(kind) = 9
      BY <1>4 DEF Second, Third, Never
    <2>2. pos = 3 \/ pos = 7 \/ pos = 9
      BY <2>1 DEF Answering, Never
    <2> QED
      BY <1>4, <2>1, <2>2 DEF Sent, AnswerTo, Awaits, StartAt, Never
  <1>5. CASE kind = "haivision"
    <2>1. Second(kind) = 6 /\ Third(kind) = 9
      BY <1>5 DEF Second, Third, Never
    <2>2. pos = 3 \/ pos = 6 \/ pos = 9
      BY <2>1 DEF Answering, Never
    <2> QED
      BY <1>5, <2>1, <2>2 DEF Sent, AnswerTo, Awaits, StartAt, Never
  <1>6. CASE kind = "idle"
    <2>1. Second(kind) = 100 /\ Third(kind) = 100
      BY <1>6 DEF Second, Third, Never
    <2>2. pos = 3
      BY <2>1 DEF Answering, Never
    <2> QED
      BY <1>6, <2>1, <2>2 DEF Sent, AnswerTo, Awaits, StartAt, Never
  <1>7. CASE kind = "nameless"
    <2>1. Second(kind) = 7 /\ Third(kind) = 100
      BY <1>7 DEF Second, Third, Never
    <2>2. pos = 3 \/ pos = 7
      BY <2>1 DEF Answering, Never
    <2> QED
      BY <1>7, <2>1, <2>2 DEF Sent, AnswerTo, Awaits, StartAt, Never
  <1>8. CASE kind = "nowhere"
    <2>1. Second(kind) = 100 /\ Third(kind) = 100
      BY <1>8 DEF Second, Third, Never
    <2>2. pos = 3
      BY <2>1 DEF Answering, Never
    <2> QED
      BY <1>8, <2>1, <2>2 DEF Sent, AnswerTo, Awaits, StartAt, Never
  <1> QED
    BY <1>1, <1>2, <1>3, <1>4, <1>5, <1>6, <1>7, <1>8 DEF ClientKind

\* What the scripts do at the positions.
OpAt(kind, u, pos) ==
    LET op == ScriptOf(kind, u)[pos]
    IN  IF pos \in Answering(kind)
        THEN op.op = "expect" /\ op.what.name = Awaits(kind, pos)
        ELSE op.op = "send"

LEMMA StepOps ==
  /\ \A m : Send(m).op = "send" /\ Send(m).what = m
  /\ \A w : Expect(w).op = "expect" /\ Expect(w).what.name = w
  BY DEF Send, Expect, Msg

LEMMA OpsAt ==
  ASSUME NEW kind \in ClientKind, NEW u, NEW pos \in 1..Len(ScriptOf(kind, u))
  PROVE  pos < Never - 1 /\ OpAt(kind, u, pos)
  <1>1. CASE kind = "play"
    <2>1. Second(kind) = 5 /\ Third(kind) = 9
      BY <1>1 DEF Second, Third, Never
    <2>2. pos \in 1..12
      BY <1>1, PlayScript
    <2>3. CASE pos \in Answering(kind)
      <3>1. pos = 3 \/ pos = 5 \/ pos = 9
        BY <2>1, <2>2, <2>3 DEF Answering
      <3>2. /\ (pos = 3 => Awaits(kind, pos) = "ConnectAppRes")
            /\ (pos = 5 => Awaits(kind, pos) = "CreateStreamRes")
            /\ (pos = 9 => Awaits(kind, pos) = "Start")
        BY <1>1, <2>1, <3>1 DEF Awaits
      <3>3. /\ ScriptOf("play", u)[pos].op = "expect"
            /\ (pos = 3 => ScriptOf("play", u)[pos].what.name = "ConnectAppRes")
            /\ (pos = 5 => ScriptOf("play", u)[pos].what.name = "CreateStreamRes")
            /\ (pos = 9 => ScriptOf("play", u)[pos].what.name = "Start")
        BY <3>1, PlayScript, StepOps
      <3> QED
        BY <1>1, <2>3, <3>1, <3>2, <3>3 DEF OpAt, Never
    <2>4. CASE pos \notin Answering(kind)
      <3>1. pos = 1 \/ pos = 2 \/ pos = 4 \/ pos = 6 \/ pos = 7 \/ pos = 8 \/ pos = 10 \/ pos = 11 \/ pos = 12
        BY <2>1, <2>2, <2>4 DEF Answering
      <3>2. ScriptOf("play", u)[pos].op = "send"
        BY <3>1, PlayScript, StepOps
      <3> QED
        BY <1>1, <2>2, <2>4, <3>2 DEF OpAt, Never
    <2> QED
      BY <2>3, <2>4
  <1>2. CASE kind = "direct"
    <2>1. Second(kind) = 7 /\ Third(kind) = 100
      BY <1>2 DEF Second, Third, Never
    <2>2. pos \in 1..7
      BY <1>2, DirectScript
    <2>3. CASE pos \in Answering(kind)
      <3>1. pos = 3 \/ pos = 7
        BY <2>1, <2>2, <2>3 DEF Answering
      <3>2. /\ (pos = 3 => Awaits(kind, pos) = "ConnectAppRes")
            /\ (pos = 7 => Awaits(kind, pos) = "Start")
        BY <1>2, <2>1, <3>1 DEF Awaits
      <3>3. /\ ScriptOf("direct", u)[pos].op = "expect"
            /\ (pos = 3 => ScriptOf("direct", u)[pos].what.name = "ConnectAppRes")
            /\ (pos = 7 => ScriptOf("direct", u)[pos].what.name = "Start")
        BY <3>1, DirectScript, StepOps
      <3> QED
        BY <1>2, <2>3, <3>1, <3>2, <3>3 DEF OpAt, Never
    <2>4. CASE pos \notin Answering(kind)
      <3>1. pos = 1 \/ pos = 2 \/ pos = 4 \/ pos = 5 \/ pos = 6
        BY <2>1, <2>2, <2>4 DEF Answering
      <3>2. ScriptOf("direct", u)[pos].op = "send"
        BY <3>1, DirectScript, StepOps
      <3> QED
        BY <1>2, <2>2, <2>4, <3>2 DEF OpAt, Never
    <2> QED
      BY <2>3, <2>4
  <1>3. CASE kind = "flash"
    <2>1. Second(kind) = 5 /\ Third(kind) = 8
      BY <1>3 DEF Second, Third, Never
    <2>2. pos \in 1..10
      BY <1>3, FlashScript
    <2>3. CASE pos \in Answering(kind)
      <3>1. pos = 3 \/ pos = 5 \/ pos = 8
        BY <2>1, <2>2, <2>3 DEF Answering
      <3>2. /\ (pos = 3 => Awaits(kind, pos) = "ConnectAppRes")
            /\ (pos = 5 => Awaits(kind, pos) = "CreateStreamRes")
            /\ (pos = 8 => Awaits(kind, pos) = "Start")
        BY <1>3, <2>1, <3>1 DEF Awaits
      <3>3. /\ ScriptOf("flash", u)[pos].op = "expect"
            /\ (pos = 3 => ScriptOf("flash", u)[pos].what.name = "ConnectAppRes")
            /\ (pos = 5 => ScriptOf("flash", u)[pos].what.name = "CreateStreamRes")
            /\ (pos = 8 => ScriptOf("flash", u)[pos].what.name = "Start")
        BY <3>1, FlashScript, StepOps
      <3> QED
        BY <1>3, <2>3, <3>1, <3>2, <3>3 DEF OpAt, Never
    <2>4. CASE pos \notin Answering(kind)
      <3>1. pos = 1 \/ pos = 2 \/ pos = 4 \/ pos = 6 \/ pos = 7 \/ pos = 9 \/ pos = 10
        BY <2>1, <2>2, <2>4 DEF Answering
      <3>2. ScriptOf("flash", u)[pos].op = "send"
        BY <3>1, FlashScript, StepOps
      <3> QED
        BY <1>3, <2>2, <2>4, <3>2 DEF OpAt, Never
    <2> QED
      BY <2>3, <2>4
  <1>4. CASE kind = "fmle"
    <2>1. Second(kind) = 7 /\ Third(kind) = 9
      BY <1>4 DEF Second, Third, Never
    <2>2. pos \in 1..11
      BY <1>4, FmleScript
    <2>3. CASE pos \in Answering(kind)
      <3>1. pos = 3 \/ pos = 7 \/ pos = 9
        BY <2>1, <2>2, <2>3 DEF Answering
      <3>2. /\ (pos = 3 => Awaits(kind, pos) = "ConnectAppRes")
            /\ (pos = 7 => Awaits(kind, pos) = "CreateStreamRes")
            /\ (pos = 9 => Awaits(kind, pos) = "Start")
        BY <1>4, <2>1, <3>1 DEF Awaits
      <3>3. /\ ScriptOf("fmle", u)[pos].op = "expect"
            /\ (pos = 3 => ScriptOf("fmle", u)[pos].what.name = "ConnectAppRes")
            /\ (pos = 7 => ScriptOf("fmle", u)[pos].what.name = "CreateStreamRes")
            /\ (pos = 9 => ScriptOf("fmle", u)[pos].what.name = "Start")
        BY <3>1, FmleScript, StepOps
      <3> QED
        BY <1>4, <2>3, <3>1, <3>2, <3>3 DEF OpAt, Never
    <2>4. CASE pos \notin Answering(kind)
      <3>1. pos = 1 \/ pos = 2 \/ pos = 4 \/ pos = 5 \/ pos = 6 \/ pos = 8 \/ pos = 10 \/ pos = 11
        BY <2>1, <2>2, <2>4 DEF Answering
      <3>2. ScriptOf("fmle", u)[pos].op = "send"
        BY <3>1, FmleScript, StepOps
      <3> QED
        BY <1>4, <2>2, <2>4, <3>2 DEF OpAt, Never
    <2> QED
      BY <2>3, <2>4
  <1>5. CASE kind = "haivision"
    <2>1. Second(kind) = 6 /\ Third(kind) = 9
      BY <1>5 DEF Second, Third, Never
    <2>2. pos \in 1..10
      BY <1>5, HaivisionScript
    <2>3. CASE pos \in Answering(kind)
      <3>1. pos = 3 \/ pos = 6 \/ pos = 9
        BY <2>1, <2>2, <2>3 DEF Answering
      <3>2. /\ (pos = 3 => Awaits(kind, pos) = "ConnectAppRes")
            /\ (pos = 6 => Awaits(kind, pos) = "CreateStreamRes")
            /\ (pos = 9 => Awaits(kind, pos) = "Start")
        BY <1>5, <2>1, <3>1 DEF Awaits
      <3>3. /\ ScriptOf("haivision", u)[pos].op = "expect"
            /\ (pos = 3 => ScriptOf("haivision", u)[pos].what.name = "ConnectAppRes")
            /\ (pos = 6 => ScriptOf("haivision", u)[pos].what.name = "CreateStreamRes")
            /\ (pos = 9 => ScriptOf("haivision", u)[pos].what.name = "Start")
        BY <3>1, HaivisionScript, StepOps
      <3> QED
        BY <1>5, <2>3, <3>1, <3>2, <3>3 DEF OpAt, Never
    <2>4. CASE pos \notin Answering(kind)
      <3>1. pos = 1 \/ pos = 2 \/ pos = 4 \/ pos = 5 \/ pos = 7 \/ pos = 8 \/ pos = 10
        BY <2>1, <2>2, <2>4 DEF Answering
      <3>2. ScriptOf("haivision", u)[pos].op = "send"
        BY <3>1, HaivisionScript, StepOps
      <3> QED
        BY <1>5, <2>2, <2>4, <3>2 DEF OpAt, Never
    <2> QED
      BY <2>3, <2>4
  <1>6. CASE kind = "idle"
    <2>1. Second(kind) = 100 /\ Third(kind) = 100
      BY <1>6 DEF Second, Third, Never
    <2>2. pos \in 1..3
      BY <1>6, IdleScript
    <2>3. CASE pos \in Answering(kind)
      <3>1. pos = 3
        BY <2>1, <2>2, <2>3 DEF Answering
      <3>2. /\ (pos = 3 => Awaits(kind, pos) = "ConnectAppRes")
        BY <1>6, <2>1, <3>1 DEF Awaits
      <3>3. /\ ScriptOf("idle", u)[pos].op = "expect"
            /\ (pos = 3 => ScriptOf("idle", u)[pos].what.name = "ConnectAppRes")
        BY <3>1, IdleScript, StepOps
      <3> QED
        BY <1>6, <2>3, <3>1, <3>2, <3>3 DEF OpAt, Never
    <2>4. CASE pos \notin Answering(kind)
      <3>1. pos = 1 \/ pos = 2
        BY <2>1, <2>2, <2>4 DEF Answering
      <3>2. ScriptOf("idle", u)[pos].op = "send"
        BY <3>1, IdleScript, StepOps
      <3> QED
        BY <1>6, <2>2, <2>4, <3>2 DEF OpAt, Never
    <2> QED
      BY <2>3, <2>4
  <1>7. CASE kind = "nameless"
    <2>1. Second(kind) = 7 /\ Third(kind) = 100
      BY <1>7 DEF Second, Third, Never
    <2>2. pos \in 1..7
      BY <1>7, NamelessScript
    <2>3. CASE pos \in Answering(kind)
      <3>1. pos = 3 \/ pos = 7
        BY <2>1, <2>2, <2>3 DEF Answering
      <3>2. /\ (pos = 3 => Awaits(kind, pos) = "ConnectAppRes")
            /\ (pos = 7 => Awaits(kind, pos) = "Start")
        BY <1>7, <2>1, <3>1 DEF Awaits
      <3>3. /\ ScriptOf("nameless", u)[pos].op = "expect"
            /\ (pos = 3 => ScriptOf("nameless", u)[pos].what.name = "ConnectAppRes")
            /\ (pos = 7 => ScriptOf("nameless", u)[pos].what.name = "Start")
        BY <3>1, NamelessScript, StepOps
      <3> QED
        BY <1>7, <2>3, <3>1, <3>2, <3>3 DEF OpAt, Never
    <2>4. CASE pos \notin Answering(kind)
      <3>1. pos = 1 \/ pos = 2 \/ pos = 4 \/ pos = 5 \/ pos = 6
        BY <2>1, <2>2, <2>4 DEF Answering
      <3>2. ScriptOf("nameless", u)[pos].op = "send"
        BY <3>1, NamelessScript, StepOps
      <3> QED
        BY <1>7, <2>2, <2>4, <3>2 DEF OpAt, Never
    <2> QED
      BY <2>3, <2>4
  <1>8. CASE kind = "nowhere"
    <2>1. Second(kind) = 100 /\ Third(kind) = 100
      BY <1>8 DEF Second, Third, Never
    <2>2. pos \in 1..3
      BY <1>8, NowhereScript
    <2>3. CASE pos \in Answering(kind)
      <3>1. pos = 3
        BY <2>1, <2>2, <2>3 DEF Answering
      <3>2. /\ (pos = 3 => Awaits(kind, pos) = "ConnectAppRes")
        BY <1>8, <2>1, <3>1 DEF Awaits
      <3>3. /\ ScriptOf("nowhere", u)[pos].op = "expect"
            /\ (pos = 3 => ScriptOf("nowhere", u)[pos].what.name = "ConnectAppRes")
        BY <3>1, NowhereScript, StepOps
      <3> QED
        BY <1>8, <2>3, <3>1, <3>2, <3>3 DEF OpAt, Never
    <2>4. CASE pos \notin Answering(kind)
      <3>1. pos = 1 \/ pos = 2
        BY <2>1, <2>2, <2>4 DEF Answering
      <3>2. ScriptOf("nowhere", u)[pos].op = "send"
        BY <3>1, NowhereScript, StepOps
      <3> QED
        BY <1>8, <2>2, <2>4, <3>2 DEF OpAt, Never
    <2> QED
      BY <2>3, <2>4
  <1> QED
    BY <1>1, <1>2, <1>3, <1>4, <1>5, <1>6, <1>7, <1>8 DEF ClientKind

\* What a client of each kind says, in order.
LEMMA PlayCalls ==
  ASSUME NEW u
  PROVE  /\ Call("play", u, 1) = Msg("connect", 1, "live")
         /\ Call("play", u, 2) = Control
         /\ Call("play", u, 3) = Msg("createStream", 2, None)
         /\ Call("play", u, 4) = Msg("play", 0, u)
         /\ Call("play", u, 5) = Control /\ Call("play", u, 6) = Control
         /\ Call("play", u, 7) = Msg("pause", 0, None)
         /\ Call("play", u, 8) = Msg("getLength", 9, None)
         /\ Call("play", u, 9) = Msg("closeStream", 0, None)
  <1>1. Second("play") = 5 /\ Third("play") = 9
    BY DEF Second, Third, Never
  <1>2. /\ SendAt("play", 1) = 1 /\ SendAt("play", 2) = 2
        /\ SendAt("play", 3) = 4 /\ SendAt("play", 4) = 6
        /\ SendAt("play", 5) = 7 /\ SendAt("play", 6) = 8
        /\ SendAt("play", 7) = 10 /\ SendAt("play", 8) = 11
        /\ SendAt("play", 9) = 12
    BY <1>1 DEF SendAt
  <1> QED
    BY <1>2, PlayScript, StepOps DEF Call

LEMMA DirectCalls ==
  ASSUME NEW u
  PROVE  /\ Call("direct", u, 1) = Msg("connect", 1, "live")
         /\ Call("direct", u, 2) = Control
         /\ Call("direct", u, 3) = Msg("play", 0, u)
         /\ Call("direct", u, 4) = Control /\ Call("direct", u, 5) = Control
  <1>1. Second("direct") = 7 /\ Third("direct") = 100
    BY DEF Second, Third, Never
  <1>2. /\ SendAt("direct", 1) = 1 /\ SendAt("direct", 2) = 2
        /\ SendAt("direct", 3) = 4 /\ SendAt("direct", 4) = 5
        /\ SendAt("direct", 5) = 6
    BY <1>1 DEF SendAt
  <1> QED
    BY <1>2, DirectScript, StepOps DEF Call

LEMMA FlashCalls ==
  ASSUME NEW u
  PROVE  /\ Call("flash", u, 1) = Msg("connect", 1, "live")
         /\ Call("flash", u, 2) = Control
         /\ Call("flash", u, 3) = Msg("createStream", 2, None)
         /\ Call("flash", u, 4) = Control
         /\ Call("flash", u, 5) = Msg("publish", 0, u)
         /\ Call("flash", u, 6) = Media
         /\ Call("flash", u, 7) = Msg("closeStream", 0, None)
  <1>1. Second("flash") = 5 /\ Third("flash") = 8
    BY DEF Second, Third, Never
  <1>2. /\ SendAt("flash", 1) = 1 /\ SendAt("flash", 2) = 2
        /\ SendAt("flash", 3) = 4 /\ SendAt("flash", 4) = 6
        /\ SendAt("flash", 5) = 7 /\ SendAt("flash", 6) = 9
        /\ SendAt("flash", 7) = 10
    BY <1>1 DEF SendAt
  <1> QED
    BY <1>2, FlashScript, StepOps DEF Call

LEMMA FmleCalls ==
  ASSUME NEW u
  PROVE  /\ Call("fmle", u, 1) = Msg("connect", 1, "live")
         /\ Call("fmle", u, 2) = Control
         /\ Call("fmle", u, 3) = Msg("releaseStream", 2, u)
         /\ Call("fmle", u, 4) = Msg("FCPublish", 3, u)
         /\ Call("fmle", u, 5) = Msg("createStream", 4, None)
         /\ Call("fmle", u, 6) = Msg("publish", 0, u)
         /\ Call("fmle", u, 7) = Media
         /\ Call("fmle", u, 8) = Msg("FCUnpublish", 5, u)
  <1>1. Second("fmle") = 7 /\ Third("fmle") = 9
    BY DEF Second, Third, Never
  <1>2. /\ SendAt("fmle", 1) = 1 /\ SendAt("fmle", 2) = 2
        /\ SendAt("fmle", 3) = 4 /\ SendAt("fmle", 4) = 5
        /\ SendAt("fmle", 5) = 6 /\ SendAt("fmle", 6) = 8
        /\ SendAt("fmle", 7) = 10 /\ SendAt("fmle", 8) = 11
    BY <1>1 DEF SendAt
  <1> QED
    BY <1>2, FmleScript, StepOps DEF Call

LEMMA HaivisionCalls ==
  ASSUME NEW u
  PROVE  /\ Call("haivision", u, 1) = Msg("connect", 1, "live")
         /\ Call("haivision", u, 2) = Control
         /\ Call("haivision", u, 3) = Msg("_checkbw", 2, None)
         /\ Call("haivision", u, 4) = Msg("createStream", 3, None)
         /\ Call("haivision", u, 5) = Msg("FCPublish", 4, u)
         /\ Call("haivision", u, 6) = Msg("publish", 0, u)
         /\ Call("haivision", u, 7) = Media
  <1>1. Second("haivision") = 6 /\ Third("haivision") = 9
    BY DEF Second, Third, Never
  <1>2. /\ SendAt("haivision", 1) = 1 /\ SendAt("haivision", 2) = 2
        /\ SendAt("haivision", 3) = 4 /\ SendAt("haivision", 4) = 5
        /\ SendAt("haivision", 5) = 7 /\ SendAt("haivision", 6) = 8
        /\ SendAt("haivision", 7) = 10
    BY <1>1 DEF SendAt
  <1> QED
    BY <1>2, HaivisionScript, StepOps DEF Call

LEMMA IdleCalls ==
  ASSUME NEW u
  PROVE  /\ Call("idle", u, 1) = Msg("connect", 1, "live")
         /\ Call("idle", u, 2) = Control
  <1>1. Second("idle") = 100 /\ Third("idle") = 100
    BY DEF Second, Third, Never
  <1>2. /\ SendAt("idle", 1) = 1 /\ SendAt("idle", 2) = 2
    BY <1>1 DEF SendAt
  <1> QED
    BY <1>2, IdleScript, StepOps DEF Call

LEMMA NamelessCalls ==
  ASSUME NEW u
  PROVE  /\ Call("nameless", u, 1) = Msg("connect", 1, "live")
         /\ Call("nameless", u, 2) = Control
         /\ Call("nameless", u, 3) = Msg("play", 0, None)
         /\ Call("nameless", u, 4) = Control
         /\ Call("nameless", u, 5) = Control
  <1>1. Second("nameless") = 7 /\ Third("nameless") = 100
    BY DEF Second, Third, Never
  <1>2. /\ SendAt("nameless", 1) = 1 /\ SendAt("nameless", 2) = 2
        /\ SendAt("nameless", 3) = 4 /\ SendAt("nameless", 4) = 5
        /\ SendAt("nameless", 5) = 6
    BY <1>1 DEF SendAt
  <1> QED
    BY <1>2, NamelessScript, StepOps DEF Call

LEMMA NowhereCalls ==
  ASSUME NEW u
  PROVE  /\ Call("nowhere", u, 1) = Msg("connect", 1, None)
         /\ Call("nowhere", u, 2) = Control
  <1>1. Second("nowhere") = 100 /\ Third("nowhere") = 100
    BY DEF Second, Third, Never
  <1>2. /\ SendAt("nowhere", 1) = 1 /\ SendAt("nowhere", 2) = 2
    BY <1>1 DEF SendAt
  <1> QED
    BY <1>2, NowhereScript, StepOps DEF Call

Total(kind) ==
    CASE kind = "play" -> 9 [] kind = "fmle" -> 8 [] kind \in {"flash", "haivision"} -> 7
      [] kind \in {"direct", "nameless"} -> 5 [] OTHER -> 2

LEMMA SentBound ==
  ASSUME NEW kind \in ClientKind, NEW u, NEW pos \in 1..Len(ScriptOf(kind, u)) + 1
  PROVE  Sent(kind, pos) \in 0..Total(kind)
  <1>1. CASE kind = "play"
    <2>1. Second(kind) = 5 /\ Third(kind) = 9 /\ Total(kind) = 9
      BY <1>1 DEF Second, Third, Never, Total
    <2>2. Len(ScriptOf(kind, u)) = 12
      BY <1>1, PlayScript
    <2>3. pos \in 1..13
      BY <2>2
    <2> QED
      BY <2>1, <2>3 DEF Sent
  <1>2. CASE kind = "direct"
    <2>1. Second(kind) = 7 /\ Third(kind) = 100 /\ Total(kind) = 5
      BY <1>2 DEF Second, Third, Never, Total
    <2>2. Len(ScriptOf(kind, u)) = 7
      BY <1>2, DirectScript
    <2>3. pos \in 1..8
      BY <2>2
    <2> QED
      BY <2>1, <2>3 DEF Sent
  <1>3. CASE kind = "flash"
    <2>1. Second(kind) = 5 /\ Third(kind) = 8 /\ Total(kind) = 7
      BY <1>3 DEF Second, Third, Never, Total
    <2>2. Len(ScriptOf(kind, u)) = 10
      BY <1>3, FlashScript
    <2>3. pos \in 1..11
      BY <2>2
    <2> QED
      BY <2>1, <2>3 DEF Sent
  <1>4. CASE kind = "fmle"
    <2>1. Second(kind) = 7 /\ Third(kind) = 9 /\ Total(kind) = 8
      BY <1>4 DEF Second, Third, Never, Total
    <2>2. Len(ScriptOf(kind, u)) = 11
      BY <1>4, FmleScript
    <2>3. pos \in 1..12
      BY <2>2
    <2> QED
      BY <2>1, <2>3 DEF Sent
  <1>5. CASE kind = "haivision"
    <2>1. Second(kind) = 6 /\ Third(kind) = 9 /\ Total(kind) = 7
      BY <1>5 DEF Second, Third, Never, Total
    <2>2. Len(ScriptOf(kind, u)) = 10
      BY <1>5, HaivisionScript
    <2>3. pos \in 1..11
      BY <2>2
    <2> QED
      BY <2>1, <2>3 DEF Sent
  <1>6. CASE kind = "idle"
    <2>1. Second(kind) = 100 /\ Third(kind) = 100 /\ Total(kind) = 2
      BY <1>6 DEF Second, Third, Never, Total
    <2>2. Len(ScriptOf(kind, u)) = 3
      BY <1>6, IdleScript
    <2>3. pos \in 1..4
      BY <2>2
    <2> QED
      BY <2>1, <2>3 DEF Sent
  <1>7. CASE kind = "nameless"
    <2>1. Second(kind) = 7 /\ Third(kind) = 100 /\ Total(kind) = 5
      BY <1>7 DEF Second, Third, Never, Total
    <2>2. Len(ScriptOf(kind, u)) = 7
      BY <1>7, NamelessScript
    <2>3. pos \in 1..8
      BY <2>2
    <2> QED
      BY <2>1, <2>3 DEF Sent
  <1>8. CASE kind = "nowhere"
    <2>1. Second(kind) = 100 /\ Third(kind) = 100 /\ Total(kind) = 2
      BY <1>8 DEF Second, Third, Never, Total
    <2>2. Len(ScriptOf(kind, u)) = 3
      BY <1>8, NowhereScript
    <2>3. pos \in 1..4
      BY <2>2
    <2> QED
      BY <2>1, <2>3 DEF Sent
  <1> QED
    BY <1>1, <1>2, <1>3, <1>4, <1>5, <1>6, <1>7, <1>8 DEF ClientKind

\* Where it can be heard.
LEMMA Stages ==
  ASSUME NEW kind \in ClientKind, NEW k \in Nat
  PROVE  /\ "connect_app" \in Stage(kind, k) => k = 0
         /\ "service_cycle" \in Stage(kind, k) => k = 1
         /\ "identify" \in Stage(kind, k) =>
               kind # "nowhere" /\ (k \in {1, 2} \/ (k = 3 /\ kind = "haivision"))
         /\ "identify_create_stream" \in Stage(kind, k) =>
               \/ k = 3 /\ kind \in {"play", "flash"}
               \/ k = 4 /\ kind \in {"flash", "haivision"}
         /\ "start" \in Stage(kind, k) =>
               \/ k = 3 /\ kind \in {"direct", "fmle"}
               \/ k = 4 /\ kind = "play"
               \/ k = 5 /\ kind \in {"flash", "haivision"}
         /\ "FCPublish" \in Stage(kind, k) => k = 3 /\ kind = "fmle"
         /\ "createStream" \in Stage(kind, k) => k = 4 /\ kind = "fmle"
         /\ "publish" \in Stage(kind, k) => k = 5 /\ kind \in {"fmle", "haivision"}
         /\ Publishing \cap Stage(kind, k) # {} =>
               \/ k \in {5, 6} /\ kind = "flash"
               \/ k \in {6, 7} /\ kind \in {"fmle", "haivision"}
         /\ "playing" \in Stage(kind, k) =>
               \/ k \in 4..8 /\ kind = "play"
               \/ k \in 3..5 /\ kind = "direct"
         /\ Stage(kind, k) \cap {"closed", "c2", "handshake"} = {}
  <1> USE DEF Stage, Publishing
  <1>1. CASE kind = "play"
    BY <1>1
  <1>2. CASE kind = "direct"
    BY <1>2
  <1>3. CASE kind = "flash"
    BY <1>3
  <1>4. CASE kind = "fmle"
    BY <1>4
  <1>5. CASE kind = "haivision"
    BY <1>5
  <1>6. CASE kind = "idle"
    BY <1>6
  <1>7. CASE kind = "nameless"
    BY <1>7
  <1>8. CASE kind = "nowhere"
    BY <1>8
  <1> QED
    BY <1>1, <1>2, <1>3, <1>4, <1>5, <1>6, <1>7, <1>8 DEF ClientKind

LEMMA EarlyStages ==
  ASSUME NEW kind \in ClientKind, kind # "nowhere"
  PROVE  /\ "service_cycle" \in Stage(kind, 1) /\ "identify" \in Stage(kind, 1)
         /\ "identify" \in Stage(kind, 2)
  <1>1. CASE kind = "play"
    BY <1>1 DEF Stage
  <1>2. CASE kind = "direct"
    BY <1>2 DEF Stage
  <1>3. CASE kind = "flash"
    BY <1>3 DEF Stage
  <1>4. CASE kind = "fmle"
    BY <1>4 DEF Stage
  <1>5. CASE kind = "haivision"
    BY <1>5 DEF Stage
  <1>6. CASE kind = "idle"
    BY <1>6 DEF Stage
  <1>7. CASE kind = "nameless"
    BY <1>7 DEF Stage
  <1> QED
    BY <1>1, <1>2, <1>3, <1>4, <1>5, <1>6, <1>7 DEF ClientKind

\* What is answered, and how.
LEMMA Answers ==
  ASSUME NEW kind \in ClientKind, NEW pos \in 1..Never - 1
  PROVE  /\ AnswerTo(kind, pos) \in {1, 3, 4, 5, 6, Never}
         /\ AnswerTo(kind, pos) = 1 => Awaits(kind, pos) = "ConnectAppRes"
         /\ AnswerTo(kind, pos) = 3 =>
               \/ kind \in {"play", "flash"} /\ Awaits(kind, pos) = "CreateStreamRes"
               \/ kind \in {"direct", "nameless"} /\ Awaits(kind, pos) = "Start"
         /\ AnswerTo(kind, pos) = 4 =>
               \/ kind = "haivision" /\ Awaits(kind, pos) = "CreateStreamRes"
               \/ kind = "play" /\ Awaits(kind, pos) = "Start"
         /\ AnswerTo(kind, pos) = 5 =>
               \/ kind = "fmle" /\ Awaits(kind, pos) = "CreateStreamRes"
               \/ kind = "flash" /\ Awaits(kind, pos) = "Start"
         /\ AnswerTo(kind, pos) = 6 =>
               kind \in {"fmle", "haivision"} /\ Awaits(kind, pos) = "Start"
  <1>1. CASE kind = "play"
    <2>1. Second(kind) = 5 /\ Third(kind) = 9
      BY <1>1 DEF Second, Third, Never
    <2> QED
      BY <1>1, <2>1 DEF AnswerTo, Awaits, Never
  <1>2. CASE kind = "direct"
    <2>1. Second(kind) = 7 /\ Third(kind) = 100
      BY <1>2 DEF Second, Third, Never
    <2> QED
      BY <1>2, <2>1 DEF AnswerTo, Awaits, Never
  <1>3. CASE kind = "flash"
    <2>1. Second(kind) = 5 /\ Third(kind) = 8
      BY <1>3 DEF Second, Third, Never
    <2> QED
      BY <1>3, <2>1 DEF AnswerTo, Awaits, Never
  <1>4. CASE kind = "fmle"
    <2>1. Second(kind) = 7 /\ Third(kind) = 9
      BY <1>4 DEF Second, Third, Never
    <2> QED
      BY <1>4, <2>1 DEF AnswerTo, Awaits, Never
  <1>5. CASE kind = "haivision"
    <2>1. Second(kind) = 6 /\ Third(kind) = 9
      BY <1>5 DEF Second, Third, Never
    <2> QED
      BY <1>5, <2>1 DEF AnswerTo, Awaits, Never
  <1>6. CASE kind = "idle"
    <2>1. Second(kind) = 100 /\ Third(kind) = 100
      BY <1>6 DEF Second, Third, Never
    <2> QED
      BY <1>6, <2>1 DEF AnswerTo, Awaits, Never
  <1>7. CASE kind = "nameless"
    <2>1. Second(kind) = 7 /\ Third(kind) = 100
      BY <1>7 DEF Second, Third, Never
    <2> QED
      BY <1>7, <2>1 DEF AnswerTo, Awaits, Never
  <1>8. CASE kind = "nowhere"
    <2>1. Second(kind) = 100 /\ Third(kind) = 100
      BY <1>8 DEF Second, Third, Never
    <2> QED
      BY <1>8, <2>1 DEF AnswerTo, Awaits, Never
  <1> QED
    BY <1>1, <1>2, <1>3, <1>4, <1>5, <1>6, <1>7, <1>8 DEF ClientKind

\* When the server starts to serve, the client waits for no earlier answer.
LEMMA NotOverdue ==
  ASSUME NEW kind \in ClientKind, NEW pos \in 1..Never - 1, NEW k \in 0..Sent(kind, pos),
         "start" \in Stage(kind, k)
  PROVE  AnswerTo(kind, pos) >= k /\ (kind \in {"fmle", "haivision"} => AnswerTo(kind, pos) > k)
  <1>1. Sent(kind, pos) \in Int
    BY Turns DEF Sent
  <1>2. \/ k = 3 /\ kind \in {"direct", "fmle"}
        \/ k = 4 /\ kind = "play"
        \/ k = 5 /\ kind \in {"flash", "haivision"}
    BY <1>1, Stages
  <1>3. CASE kind = "direct" /\ k = 3
    <2>1. Second(kind) = 7 /\ Third(kind) = 100
      BY <1>3 DEF Second, Third, Never
    <2> QED
      BY <1>1, <1>3, <2>1 DEF AnswerTo, Sent, Never
  <1>4. CASE kind = "fmle" /\ k = 3
    <2>1. Second(kind) = 7 /\ Third(kind) = 9
      BY <1>4 DEF Second, Third, Never
    <2> QED
      BY <1>1, <1>4, <2>1 DEF AnswerTo, Sent, Never
  <1>5. CASE kind = "play" /\ k = 4
    <2>1. Second(kind) = 5 /\ Third(kind) = 9
      BY <1>5 DEF Second, Third, Never
    <2> QED
      BY <1>1, <1>5, <2>1 DEF AnswerTo, Sent, Never
  <1>6. CASE kind = "flash" /\ k = 5
    <2>1. Second(kind) = 5 /\ Third(kind) = 8
      BY <1>6 DEF Second, Third, Never
    <2> QED
      BY <1>1, <1>6, <2>1 DEF AnswerTo, Sent, Never
  <1>7. CASE kind = "haivision" /\ k = 5
    <2>1. Second(kind) = 6 /\ Third(kind) = 9
      BY <1>7 DEF Second, Third, Never
    <2> QED
      BY <1>1, <1>7, <2>1 DEF AnswerTo, Sent, Never
  <1> QED
    BY <1>3, <1>4, <1>5, <1>6, <1>7, <1>2

\* An answer is on its way.
Told(ms, class) == \E i \in 1..Len(ms) :
    ms[i].name \in {"_result", "onStatus"} /\ ms[i].arg = class

\* What the client has sent and the server has not received: c2 when the
\* handshake is not over, and the calls after the k-th.
Pending(kind, u, pos, pc, up, k) ==
    LET h == IF pc = "c2" THEN 1 ELSE 0
        n == Sent(kind, pos)
    IN  /\ Len(up) = h + n - k
        /\ h = 1 => up[1].name = "c2" /\ k = 0
        /\ \A i \in 1..n - k : up[h + i] = Call(kind, u, k + i)

Begun(pc, ret) == pc \in Publishing \cup {"playing", "join"} \/ ret = "busy"

\* The server has received k messages: it is where they brought it, the answer
\* that the client waits for is under way, and "Start" was said only if the
\* service began.
Heard(kind, u, pos, pc, ret, up, down, k) ==
    /\ Pending(kind, u, pos, pc, up, k)
    /\ pc \in Stage(kind, k) \cup {"closed", "c2"}
    /\ IF pc = "closed" THEN ret \in {"tcurl", "token", "stream", "busy", "recv", "short"} ELSE ret = "ok"
    /\ pc \notin {"closed", "c2", "service_cycle", "start"} /\ k >= AnswerTo(kind, pos) =>
           Told(down, Awaits(kind, pos))
    /\ Told(down, "Start") \/ pos > StartAt(kind) => Begun(pc, ret)

Talk(kind, u, pos, pc, ret, up, down) ==
    /\ pos \in 1..Len(ScriptOf(kind, u)) + 1
    /\ \E k \in 0..Sent(kind, pos) : Heard(kind, u, pos, pc, ret, up, down, k)

\* The handshake: one block is on its way, or one side has given up.
Shaking(state, schema, pc, ret, up, down) ==
    \/ state = "c0c1" /\ pc = "handshake" /\ ret = "ok" /\ up = <<>> /\ down = <<>>
    \/ /\ state \in {"s0s1s2", "refused"} /\ pc = "handshake" /\ ret = "ok"
       /\ Len(up) = 1 /\ down = <<>>
       /\ up[1].arg.plain = Plain \/ schema = Encrypted
    \/ /\ state \in {"s0s1s2", "refused"} /\ pc = "c2" /\ ret = "ok"
       /\ up = <<>> /\ Len(down) = 1 /\ down[1].name = "s0s1s2"
    \/ /\ state \in {"s0s1s2", "refused"} /\ pc = "closed" /\ ret \in {"plain", "short"}
       /\ ret = "plain" => schema = Encrypted
       /\ up = <<>> /\ down = <<>>
    \/ /\ state = "left" /\ up = <<>> /\ down = <<>>
       /\ \/ pc = "c2" /\ ret = "ok"
          \/ pc = "closed" /\ ret = "recv"

-----------------------------------------------------------------------------
(* The steps of a conversation                                             *)

LEMMA ToldMore ==
  ASSUME NEW S, NEW T, NEW a \in Seq(S), NEW b \in Seq(T), NEW class
  PROVE  Told(a \o b, class) <=> Told(a, class) \/ Told(b, class)
  <1>1. Len(a) \in Nat /\ Len(b) \in Nat /\ Len(a \o b) = Len(a) + Len(b)
    OBVIOUS
  <1>2. \A i \in 1..Len(a) : (a \o b)[i] = a[i]
    OBVIOUS
  <1>3. \A i \in 1..Len(b) : (a \o b)[Len(a) + i] = b[i]
    OBVIOUS
  <1>4. ASSUME Told(a \o b, class) PROVE Told(a, class) \/ Told(b, class)
    <2>1. PICK i \in 1..Len(a \o b) :
            (a \o b)[i].name \in {"_result", "onStatus"} /\ (a \o b)[i].arg = class
      BY <1>4 DEF Told
    <2>2. CASE i <= Len(a)
      BY <1>1, <1>2, <2>1, <2>2 DEF Told
    <2>3. CASE i > Len(a)
      <3>1. i - Len(a) \in 1..Len(b) /\ i = Len(a) + (i - Len(a))
        BY <1>1, <2>1, <2>3
      <3>2. (a \o b)[i] = b[i - Len(a)]
        BY <1>3, <3>1
      <3> QED
        BY <2>1, <3>1, <3>2 DEF Told
    <2> QED
      BY <1>1, <2>1, <2>2, <2>3
  <1>5. ASSUME Told(a, class) PROVE Told(a \o b, class)
    <2>1. PICK i \in 1..Len(a) : a[i].name \in {"_result", "onStatus"} /\ a[i].arg = class
      BY <1>5 DEF Told
    <2>2. i \in 1..Len(a \o b) /\ (a \o b)[i] = a[i]
      BY <1>1, <1>2, <2>1
    <2> QED
      BY <2>1, <2>2 DEF Told
  <1>6. ASSUME Told(b, class) PROVE Told(a \o b, class)
    <2>1. PICK i \in 1..Len(b) : b[i].name \in {"_result", "onStatus"} /\ b[i].arg = class
      BY <1>6 DEF Told
    <2>2. Len(a) + i \in 1..Len(a \o b) /\ (a \o b)[Len(a) + i] = b[i]
      BY <1>1, <1>3, <2>1
    <2> QED
      BY <2>1, <2>2 DEF Told
  <1> QED
    BY <1>4, <1>5, <1>6

LEMMA ToldTail ==
  ASSUME NEW S, NEW a \in Seq(S), a # <<>>, NEW class
  PROVE  /\ Told(Tail(a), class) => Told(a, class)
         /\ Told(a, class) => \/ Told(Tail(a), class)
                              \/ Head(a).name \in {"_result", "onStatus"} /\ Head(a).arg = class
  <1>1. /\ Len(a) \in Nat \ {0} /\ Len(Tail(a)) = Len(a) - 1 /\ Head(a) = a[1]
        /\ \A i \in 1..Len(a) - 1 : Tail(a)[i] = a[i + 1]
    OBVIOUS
  <1>2. ASSUME Told(Tail(a), class) PROVE Told(a, class)
    <2>1. PICK i \in 1..Len(a) - 1 :
            Tail(a)[i].name \in {"_result", "onStatus"} /\ Tail(a)[i].arg = class
      BY <1>1, <1>2 DEF Told
    <2>2. i + 1 \in 1..Len(a) /\ Tail(a)[i] = a[i + 1]
      BY <1>1, <2>1
    <2> QED
      BY <2>1, <2>2 DEF Told
  <1>3. ASSUME Told(a, class), ~(Head(a).name \in {"_result", "onStatus"} /\ Head(a).arg = class)
        PROVE  Told(Tail(a), class)
    <2>1. PICK i \in 1..Len(a) : a[i].name \in {"_result", "onStatus"} /\ a[i].arg = class
      BY <1>3 DEF Told
    <2>2. i # 1
      BY <1>1, <1>3, <2>1
    <2>3. i - 1 \in 1..Len(Tail(a)) /\ Tail(a)[i - 1] = a[(i - 1) + 1] /\ (i - 1) + 1 = i
      BY <1>1, <2>1, <2>2
    <2> QED
      BY <2>1, <2>3 DEF Told
  <1> QED
    BY <1>2, <1>3

\* What the server waits for next is what comes.
LEMMA PendingNext ==
  ASSUME NEW kind \in ClientKind, NEW u, NEW pos \in 1..Len(ScriptOf(kind, u)) + 1,
         NEW S, NEW up \in Seq(S), up # <<>>, NEW pc, pc # "c2",
         NEW k \in 0..Sent(kind, pos), Pending(kind, u, pos, pc, up, k)
  PROVE  /\ k \in Nat /\ k + 1 \in 0..Sent(kind, pos) /\ k \in 0..Total(kind) - 1
         /\ Head(up) = Call(kind, u, k + 1)
  <1> DEFINE n == Sent(kind, pos)
  <1>1. n \in Nat /\ n <= Total(kind) /\ Total(kind) \in Int
    <2>1. Total(kind) \in Int
      BY DEF Total
    <2> QED
      BY <2>1, SentBound
  <1>2. Len(up) = n - k /\ \A i \in 1..n - k : up[i] = Call(kind, u, k + i)
    BY <1>1 DEF Pending
  <1>3. Len(up) \in Nat \ {0} /\ Head(up) = up[1]
    OBVIOUS
  <1> HIDE DEF n
  <1>4. k \in Nat /\ k + 1 \in 0..n /\ k \in 0..Total(kind) - 1
    <2>1. k \in 0..n
      BY DEF n
    <2> QED
      BY <1>1, <1>2, <1>3, <2>1
  <1>5. Head(up) = Call(kind, u, k + 1)
    BY <1>1, <1>2, <1>3, <1>4
  <1> QED
    BY <1>4, <1>5 DEF n

LEMMA PendingTake ==
  ASSUME NEW kind \in ClientKind, NEW u, NEW pos \in 1..Len(ScriptOf(kind, u)) + 1,
         NEW S, NEW up \in Seq(S), up # <<>>, NEW pc, pc # "c2",
         NEW k \in 0..Sent(kind, pos), Pending(kind, u, pos, pc, up, k),
         NEW q, q # "c2"
  PROVE  k + 1 \in 0..Sent(kind, pos) /\ Pending(kind, u, pos, q, Tail(up), k + 1)
  <1> DEFINE n == Sent(kind, pos)
  <1>1. n \in Nat
    BY SentBound
  <1>2. Len(up) = n - k /\ \A i \in 1..n - k : up[i] = Call(kind, u, k + i)
    BY <1>1 DEF Pending
  <1>3. /\ Len(up) \in Nat \ {0} /\ Len(Tail(up)) = Len(up) - 1
        /\ \A i \in 1..Len(up) - 1 : Tail(up)[i] = up[i + 1]
    OBVIOUS
  <1>4. k \in Nat /\ k + 1 \in 0..n
    BY PendingNext
  <1> HIDE DEF n
  <1>5. Len(Tail(up)) = n - (k + 1)
    BY <1>1, <1>2, <1>3, <1>4
  <1>6. ASSUME NEW i \in 1..n - (k + 1) PROVE Tail(up)[i] = Call(kind, u, (k + 1) + i)
    <2>1. i \in 1..Len(up) - 1 /\ i + 1 \in 1..n - k /\ k + (i + 1) = (k + 1) + i
      BY <1>1, <1>2, <1>4
    <2> QED
      BY <1>2, <1>3, <2>1
  <1>7. 0 + (n - (k + 1)) = n - (k + 1) /\ \A i \in 1..n - (k + 1) : 0 + i = i
    BY <1>1, <1>4
  <1>8. Len(Tail(up)) = 0 + n - (k + 1)
    BY <1>1, <1>4, <1>5
  <1>9. Pending(kind, u, pos, q, Tail(up), k + 1)
    BY <1>6, <1>7, <1>8 DEF Pending, n
  <1> QED
    BY <1>4, <1>9 DEF n

LEMMA PendingSend ==
  ASSUME NEW kind \in ClientKind, NEW u, NEW pos \in 1..Len(ScriptOf(kind, u)),
         ScriptOf(kind, u)[pos].op = "send",
         NEW S, NEW up \in Seq(S), NEW pc,
         NEW k \in 0..Sent(kind, pos), Pending(kind, u, pos, pc, up, k)
  PROVE  Pending(kind, u, pos + 1, pc, Append(up, ScriptOf(kind, u)[pos].what), k)
  <1> DEFINE n == Sent(kind, pos)
             h == IF pc = "c2" THEN 1 ELSE 0
             m == ScriptOf(kind, u)[pos].what
  <1>1. pos \notin Answering(kind) /\ pos \in 1..Never - 1
    <2>1. pos < Never - 1 /\ OpAt(kind, u, pos) /\ pos \in 1..Len(ScriptOf(kind, u))
      BY OpsAt
    <2>2. pos \in 1..Never - 1
      BY <2>1 DEF Never
    <2>3. "send" # "expect"
      OBVIOUS
    <2> QED
      BY <2>1, <2>2, <2>3 DEF OpAt
  <1>2. n \in Nat /\ Sent(kind, pos + 1) = n + 1 /\ m = Call(kind, u, n + 1)
    BY <1>1, SendStep DEF Call
  <1>3. /\ Len(up) = h + n - k /\ (h = 1 => up[1].name = "c2" /\ k = 0)
        /\ \A i \in 1..n - k : up[h + i] = Call(kind, u, k + i)
    BY DEF Pending
  <1>4. h \in {0, 1} /\ k \in 0..n
    OBVIOUS
  <1> HIDE DEF n, h, m
  <1>5. /\ Len(Append(up, m)) = Len(up) + 1 /\ Append(up, m)[Len(up) + 1] = m
        /\ \A i \in 1..Len(up) : Append(up, m)[i] = up[i]
    OBVIOUS
  <1>6. Len(Append(up, m)) = h + (n + 1) - k
    BY <1>2, <1>3, <1>4, <1>5
  <1>7. h = 1 => Append(up, m)[1].name = "c2" /\ k = 0
    <2>1. h = 1 => 1 \in 1..Len(up)
      BY <1>2, <1>3, <1>4
    <2> QED
      BY <1>3, <1>5, <2>1
  <1>8. ASSUME NEW i \in 1..(n + 1) - k PROVE Append(up, m)[h + i] = Call(kind, u, k + i)
    <2>1. CASE i \in 1..n - k
      <3>1. h + i \in 1..Len(up)
        BY <1>2, <1>3, <1>4, <2>1
      <3> QED
        BY <1>3, <1>5, <2>1, <3>1
    <2>2. CASE i = n + 1 - k
      <3>1. h + i = Len(up) + 1 /\ k + i = n + 1
        BY <1>2, <1>3, <1>4, <2>2
      <3> QED
        BY <1>2, <1>5, <3>1
    <2>3. i \in 1..n - k \/ i = n + 1 - k
      BY <1>2, <1>4
    <2> QED
      BY <2>1, <2>2, <2>3
  <1> QED
    BY <1>2, <1>6, <1>7, <1>8 DEF Pending, h, m

LEMMA AnswerType ==
  ASSUME NEW kind \in ClientKind, NEW u, NEW pos \in 1..Len(ScriptOf(kind, u)) + 1
  PROVE  pos \in 1..Never - 1 /\ AnswerTo(kind, pos) \in Nat \ {0}
  <1>1. pos \in 1..Never - 1
    <2>1. CASE pos \in 1..Len(ScriptOf(kind, u))
      BY <2>1, OpsAt DEF Never
    <2>2. CASE pos - 1 \in 1..Len(ScriptOf(kind, u))
      BY <2>2, OpsAt DEF Never
    <2>3. pos \in 1..Len(ScriptOf(kind, u)) \/ pos - 1 \in 1..Len(ScriptOf(kind, u)) \/ pos = 1
      OBVIOUS
    <2> QED
      BY <2>1, <2>2, <2>3 DEF Never
  <1>2. AnswerTo(kind, pos) \in {1, 3, 4, 5, 6, Never}
    BY <1>1, Answers
  <1> QED
    BY <1>1, <1>2 DEF Never

\* The client speaks.
LEMMA HeardSend ==
  ASSUME NEW kind \in ClientKind, NEW u, NEW pos \in 1..Len(ScriptOf(kind, u)),
         ScriptOf(kind, u)[pos].op = "send",
         NEW S, NEW up \in Seq(S), NEW down, NEW pc, NEW ret,
         Talk(kind, u, pos, pc, ret, up, down)
  PROVE  Talk(kind, u, pos + 1, pc, ret, Append(up, ScriptOf(kind, u)[pos].what), down)
  <1>1. PICK k \in 0..Sent(kind, pos) : Heard(kind, u, pos, pc, ret, up, down, k)
    BY DEF Talk
  <1>2. pos \notin Answering(kind) /\ pos \in 1..Never - 1
    BY OpsAt DEF OpAt, Never
  <1>3. /\ Sent(kind, pos) \in Nat /\ Sent(kind, pos + 1) = Sent(kind, pos) + 1
        /\ AnswerTo(kind, pos + 1) = AnswerTo(kind, pos)
        /\ Awaits(kind, pos + 1) = Awaits(kind, pos)
        /\ pos # StartAt(kind)
    BY <1>2, SendStep
  <1>4. pos + 1 > StartAt(kind) => pos > StartAt(kind)
    <2>1. StartAt(kind) \in Int
      BY Turns DEF StartAt
    <2> QED
      BY <1>3, <2>1
  <1>5. Heard(kind, u, pos + 1, pc, ret, Append(up, ScriptOf(kind, u)[pos].what), down, k)
    <2>1. Pending(kind, u, pos + 1, pc, Append(up, ScriptOf(kind, u)[pos].what), k)
      BY <1>1, PendingSend DEF Heard
    <2> QED
      BY <1>1, <1>3, <1>4, <2>1 DEF Heard
  <1>6. k \in 0..Sent(kind, pos + 1)
    BY <1>3
  <1>7. pos + 1 \in 1..Len(ScriptOf(kind, u)) + 1
    OBVIOUS
  <1> QED
    BY <1>5, <1>6, <1>7 DEF Talk

\* The client is answered.
LEMMA HeardExpect ==
  ASSUME NEW kind \in ClientKind, NEW u, NEW pos \in 1..Len(ScriptOf(kind, u)),
         ScriptOf(kind, u)[pos].op = "expect",
         NEW up, NEW S, NEW down \in Seq(S), down # <<>>, NEW pc, NEW ret,
         NEW class, class = ScriptOf(kind, u)[pos].what.name,
         class = "Start" => Head(down).name \in {"_result", "onStatus"} /\ Head(down).arg = class,
         Talk(kind, u, pos, pc, ret, up, down)
  PROVE  Talk(kind, u, pos + 1, pc, ret, up, Tail(down))
  <1>1. PICK k \in 0..Sent(kind, pos) : Heard(kind, u, pos, pc, ret, up, down, k)
    BY DEF Talk
  <1>2. pos \in Answering(kind) /\ pos # Never /\ class = Awaits(kind, pos)
    BY OpsAt DEF OpAt, Never
  <1>3. /\ Sent(kind, pos) \in Nat /\ Sent(kind, pos + 1) = Sent(kind, pos)
        /\ Sent(kind, pos) < AnswerTo(kind, pos + 1)
        /\ Awaits(kind, pos) = "Start" <=> pos = StartAt(kind)
    BY <1>2, ExpectStep
  <1>4. StartAt(kind) \in Int /\ AnswerTo(kind, pos + 1) \in Int
    <2>1. pos + 1 \in 1..Never - 1
      BY OpsAt DEF Never
    <2>2. StartAt(kind) \in Int
      BY Turns DEF StartAt
    <2>3. AnswerTo(kind, pos + 1) \in {1, 3, 4, 5, 6, Never}
      BY <2>1, Answers
    <2> QED
      BY <2>2, <2>3 DEF Never
  <1>5. Told(Tail(down), "Start") => Told(down, "Start")
    BY ToldTail
  <1>6. Told(Tail(down), "Start") \/ pos + 1 > StartAt(kind) => Begun(pc, ret)
    <2>1. CASE pos = StartAt(kind)
      <3>1. Told(down, "Start")
        <4>1. Head(down) = down[1] /\ 1 \in 1..Len(down)
          OBVIOUS
        <4> QED
          BY <1>2, <1>3, <2>1, <4>1 DEF Told
      <3> QED
        BY <1>1, <3>1 DEF Heard
    <2>2. CASE pos # StartAt(kind)
      <3>1. pos + 1 > StartAt(kind) => pos > StartAt(kind)
        BY <1>4, <2>2
      <3> QED
        BY <1>1, <1>5, <3>1 DEF Heard
    <2> QED
      BY <2>1, <2>2
  <1>7. Pending(kind, u, pos + 1, pc, up, k)
    BY <1>1, <1>3 DEF Heard, Pending
  <1>8. ~(k >= AnswerTo(kind, pos + 1))
    BY <1>3, <1>4
  <1>9. Heard(kind, u, pos + 1, pc, ret, up, Tail(down), k)
    BY <1>1, <1>6, <1>7, <1>8 DEF Heard
  <1> QED
    BY <1>3, <1>9 DEF Talk

\* What is not awaited is dropped.
LEMMA HeardDrop ==
  ASSUME NEW kind, NEW u, NEW pos,
         NEW up, NEW S, NEW down \in Seq(S), down # <<>>, NEW pc, NEW ret,
         ~(Head(down).name \in {"_result", "onStatus"} /\ Head(down).arg = Awaits(kind, pos)),
         Talk(kind, u, pos, pc, ret, up, down)
  PROVE  Talk(kind, u, pos, pc, ret, up, Tail(down))
  <1>1. PICK k \in 0..Sent(kind, pos) : Heard(kind, u, pos, pc, ret, up, down, k)
    BY DEF Talk
  <1>2. /\ Told(Tail(down), "Start") => Told(down, "Start")
        /\ Told(down, Awaits(kind, pos)) => Told(Tail(down), Awaits(kind, pos))
    BY ToldTail
  <1>3. Heard(kind, u, pos, pc, ret, up, Tail(down), k)
    BY <1>1, <1>2 DEF Heard
  <1> QED
    BY <1>3 DEF Talk

\* The server goes on, from pc to q, and sends ms.
LEMMA HeardMove ==
  ASSUME NEW kind, NEW u, NEW pos \in 1..Len(ScriptOf(kind, u)) + 1,
         NEW up, NEW S, NEW down \in Seq(S), NEW pc, NEW ret, NEW k,
         Heard(kind, u, pos, pc, ret, up, down, k),
         NEW T, NEW ms \in Seq(T), NEW q, NEW r, NEW rest, NEW j \in 0..Sent(kind, pos),
         Pending(kind, u, pos, q, rest, j), q # "c2",
         IF q = "closed" THEN r \in {"tcurl", "token", "stream", "busy", "recv", "short"}
                         ELSE r = "ok" /\ q \in Stage(kind, j),
         q \notin {"closed", "service_cycle", "start"} /\ j >= AnswerTo(kind, pos) =>
             Told(down, Awaits(kind, pos)) \/ Told(ms, Awaits(kind, pos)),
         Told(ms, "Start") \/ Begun(pc, ret) => Begun(q, r)
  PROVE  Talk(kind, u, pos, q, r, rest, down \o ms)
  <1>1. /\ Told(down \o ms, Awaits(kind, pos)) <=> Told(down, Awaits(kind, pos)) \/ Told(ms, Awaits(kind, pos))
        /\ Told(down \o ms, "Start") <=> Told(down, "Start") \/ Told(ms, "Start")
    BY ToldMore
  <1>2. Heard(kind, u, pos, q, r, rest, down \o ms, j)
    <2>1. Told(down \o ms, "Start") \/ pos > StartAt(kind) => Begun(q, r)
      BY <1>1 DEF Heard
    <2> QED
      BY <1>1, <2>1 DEF Heard
  <1> QED
    BY <1>2 DEF Talk

\* It receives the next call and answers it.
LEMMA HeardAnswer ==
  ASSUME NEW kind \in ClientKind, NEW u, NEW pos \in 1..Len(ScriptOf(kind, u)) + 1,
         NEW S, NEW up \in Seq(S), up # <<>>, NEW T, NEW down \in Seq(T),
         NEW pc, pc \notin {"closed", "c2", "service_cycle", "start"}, NEW ret,
         NEW k \in 0..Sent(kind, pos), Heard(kind, u, pos, pc, ret, up, down, k),
         NEW R, NEW ms \in Seq(R), NEW q, q \in Stage(kind, k + 1),
         AnswerTo(kind, pos) = k + 1 => q \in {"start", "service_cycle"} \/ Told(ms, Awaits(kind, pos)),
         Told(ms, "Start") \/ Begun(pc, ret) => Begun(q, "ok")
  PROVE  Talk(kind, u, pos, q, "ok", Tail(up), down \o ms)
  <1>1. k \in Nat
    BY PendingNext DEF Heard
  <1>2. q \notin {"closed", "c2"}
    <2>1. k + 1 \in Nat
      BY <1>1
    <2>2. Stage(kind, k + 1) \cap {"closed", "c2", "handshake"} = {}
      BY <2>1, Stages
    <2> QED
      BY <2>2
  <1>3. k \in Nat /\ k + 1 \in 0..Sent(kind, pos) /\ Pending(kind, u, pos, q, Tail(up), k + 1)
    BY <1>1, <1>2, PendingTake DEF Heard
  <1>4. q \notin {"closed", "service_cycle", "start"} /\ k + 1 >= AnswerTo(kind, pos) =>
             Told(down, Awaits(kind, pos)) \/ Told(ms, Awaits(kind, pos))
    <2>1. AnswerTo(kind, pos) \in Int
      BY AnswerType
    <2>2. k + 1 >= AnswerTo(kind, pos) => k >= AnswerTo(kind, pos) \/ AnswerTo(kind, pos) = k + 1
      BY <1>3, <2>1
    <2> QED
      BY <2>2 DEF Heard
  <1> QED
    BY <1>2, <1>3, <1>4, HeardMove

\* It receives the next call and closes.
LEMMA HeardRefuse ==
  ASSUME NEW kind \in ClientKind, NEW u, NEW pos \in 1..Len(ScriptOf(kind, u)) + 1,
         NEW S, NEW up \in Seq(S), up # <<>>, NEW T, NEW down \in Seq(T),
         NEW pc, pc # "c2", NEW ret, ~Begun(pc, ret),
         NEW k \in 0..Sent(kind, pos), Heard(kind, u, pos, pc, ret, up, down, k),
         NEW R, NEW ms \in Seq(R), ~Told(ms, "Start"), NEW r \in {"tcurl", "stream"}
  PROVE  Talk(kind, u, pos, "closed", r, Tail(up), down \o ms)
  <1>1. k + 1 \in 0..Sent(kind, pos) /\ Pending(kind, u, pos, "closed", Tail(up), k + 1)
    BY PendingTake DEF Heard
  <1> QED
    BY <1>1, HeardMove

\* It goes on without receiving.
LEMMA HeardOn ==
  ASSUME NEW kind \in ClientKind, NEW u, NEW pos \in 1..Len(ScriptOf(kind, u)) + 1,
         NEW up, NEW T, NEW down \in Seq(T), NEW pc, pc # "c2", NEW ret,
         NEW k \in 0..Sent(kind, pos), Heard(kind, u, pos, pc, ret, up, down, k),
         NEW R, NEW ms \in Seq(R), NEW q, q # "c2", NEW r,
         IF q = "closed" THEN r \in {"tcurl", "token", "stream", "busy", "recv", "short"}
                         ELSE r = "ok" /\ q \in Stage(kind, k),
         q \notin {"closed", "service_cycle", "start"} /\ k >= AnswerTo(kind, pos) =>
             Told(down, Awaits(kind, pos)) \/ Told(ms, Awaits(kind, pos)),
         Told(ms, "Start") \/ Begun(pc, ret) => Begun(q, r)
  PROVE  Talk(kind, u, pos, q, r, up, down \o ms)
  <1>1. Pending(kind, u, pos, q, up, k)
    BY DEF Heard, Pending
  <1> QED
    BY <1>1, HeardMove

\* What the server says.
NeverNamed(ms) == \A i \in 1..Len(ms) : ms[i].name # "Start"
Fine(ms) == (\E T : ms \in Seq(T)) /\ NeverNamed(ms)

LEMMA FineMore ==
  ASSUME NEW a, NEW b, Fine(a), Fine(b)
  PROVE  Fine(a \o b)
  <1>1. PICK S : a \in Seq(S)
    BY DEF Fine
  <1>2. PICK T : b \in Seq(T)
    BY DEF Fine
  <1>3. a \in Seq(S \cup T) /\ b \in Seq(S \cup T)
    BY <1>1, <1>2
  <1>4. a \o b \in Seq(S \cup T)
    BY <1>3
  <1>5. ASSUME NEW i \in 1..Len(a \o b) PROVE (a \o b)[i].name # "Start"
    <2>1. Len(a) \in Nat /\ Len(b) \in Nat /\ Len(a \o b) = Len(a) + Len(b)
      BY <1>1, <1>2
    <2>2. i \in 1..Len(a) => (a \o b)[i] = a[i]
      BY <1>3
    <2>3. i - Len(a) \in 1..Len(b) => (a \o b)[i] = b[i - Len(a)]
      BY <1>3, <2>1
    <2>4. i \in 1..Len(a) \/ i - Len(a) \in 1..Len(b)
      BY <2>1
    <2> QED
      BY <2>2, <2>3, <2>4 DEF Fine, NeverNamed
  <1> QED
    BY <1>4, <1>5 DEF Fine, NeverNamed

LEMMA FineTail ==
  ASSUME NEW a, a # <<>>, Fine(a)
  PROVE  Fine(Tail(a)) /\ Head(a).name # "Start"
  <1>1. PICK S : a \in Seq(S)
    BY DEF Fine
  <1>2. /\ Len(a) \in Nat \ {0} /\ Len(Tail(a)) = Len(a) - 1 /\ Head(a) = a[1] /\ Tail(a) \in Seq(S)
        /\ \A i \in 1..Len(a) - 1 : Tail(a)[i] = a[i + 1]
    BY <1>1
  <1>3. ASSUME NEW i \in 1..Len(Tail(a)) PROVE Tail(a)[i].name # "Start"
    <2>1. i + 1 \in 1..Len(a) /\ Tail(a)[i] = a[i + 1]
      BY <1>2
    <2> QED
      BY <2>1 DEF Fine, NeverNamed
  <1>4. 1 \in 1..Len(a)
    BY <1>2
  <1> QED
    BY <1>2, <1>3, <1>4 DEF Fine, NeverNamed

LEMMA FineFew ==
  ASSUME NEW v, NEW w, NEW x, \A m \in {v, w, x} : m.name # "Start"
  PROVE  Fine(<<>>) /\ Fine(<<v>>) /\ Fine(<<v, w>>) /\ Fine(<<v, w, x>>)
  <1>1. /\ <<>> \in Seq({v, w, x}) /\ <<v>> \in Seq({v, w, x})
        /\ <<v, w>> \in Seq({v, w, x}) /\ <<v, w, x>> \in Seq({v, w, x})
    OBVIOUS
  <1>2. NeverNamed(<<>>) /\ NeverNamed(<<v>>) /\ NeverNamed(<<v, w>>) /\ NeverNamed(<<v, w, x>>)
    BY DEF NeverNamed
  <1> QED
    BY <1>1, <1>2 DEF Fine

LEMMA ToldOne ==
  ASSUME NEW m, NEW class
  PROVE  /\ Told(<<m>>, class) <=> m.name \in {"_result", "onStatus"} /\ m.arg = class
         /\ ~Told(<<>>, class)
  BY DEF Told

\* What the answers are.
LEMMA Replies ==
  /\ \A t, w : Fine(<<Result(t, w)>>) /\ \A class : Told(<<Result(t, w)>>, class) <=> class = w
  /\ Fine(<<>>) /\ \A class : ~Told(<<>>, class)
  /\ Fine(on_play_client_pause) /\ \A t : Fine(fmle_unpublish(t))
  /\ Fine(start_play) /\ Told(start_play, "Start")
  /\ Fine(start_flash_publish) /\ Told(start_flash_publish, "Start")
  /\ Fine(<<Msg("onFCPublish", 0, None), Status("Start")>>)
  /\ Told(<<Msg("onFCPublish", 0, None), Status("Start")>>, "Start")
  <1>1. /\ \A n, t, a : Msg(n, t, a).name = n /\ Msg(n, t, a).arg = a
        /\ Control.name = "control"
        /\ \A t, a : Result(t, a).name = "_result" /\ Result(t, a).arg = a
        /\ \A a : Status(a).name = "onStatus" /\ Status(a).arg = a
    BY DEF Msg, Control, Result, Status
  <1>2. /\ Fine(<<>>) /\ \A v : v.name # "Start" => Fine(<<v>>)
        /\ \A v, w : v.name # "Start" /\ w.name # "Start" => Fine(<<v, w>>)
        /\ \A v, w, x : v.name # "Start" /\ w.name # "Start" /\ x.name # "Start" => Fine(<<v, w, x>>)
    <2>1. ASSUME NEW v, NEW w, NEW x, v.name # "Start", w.name # "Start", x.name # "Start"
          PROVE  Fine(<<v>>) /\ Fine(<<v, w>>) /\ Fine(<<v, w, x>>)
      <3>1. \A m \in {v, w, x} : m.name # "Start"
        BY <2>1
      <3> QED
        BY <3>1, FineFew
    <2>2. Fine(<<>>)
      BY DEF Fine, NeverNamed
    <2> QED
      BY <2>1, <2>2, Zenon
  <1>3. \A t, w : Fine(<<Result(t, w)>>) /\ \A class : Told(<<Result(t, w)>>, class) <=> class = w
    <2> TAKE t, w
    <2>1. Fine(<<Result(t, w)>>)
      BY <1>1, <1>2
    <2> QED
      BY <1>1, <2>1, ToldOne
  <1>4. Fine(<<>>) /\ \A class : ~Told(<<>>, class)
    BY <1>1, <1>2, ToldOne
  <1>5. Fine(on_play_client_pause) /\ \A t : Fine(fmle_unpublish(t))
    BY <1>1, <1>2 DEF on_play_client_pause, fmle_unpublish
  <1>6. Fine(start_flash_publish) /\ Told(start_flash_publish, "Start")
    BY <1>1, <1>2, ToldOne DEF start_flash_publish
  <1>7. /\ Fine(<<Msg("onFCPublish", 0, None), Status("Start")>>)
        /\ Told(<<Msg("onFCPublish", 0, None), Status("Start")>>, "Start")
    <2>1. Fine(<<Msg("onFCPublish", 0, None), Status("Start")>>)
      BY <1>1, <1>2
    <2>2. \A v, w : w.name = "onStatus" /\ w.arg = "Start" => Told(<<v, w>>, "Start")
      BY DEF Told
    <2> QED
      BY <1>1, <2>1, <2>2
  <1>8. Fine(start_play) /\ Told(start_play, "Start")
    <2>1. ASSUME NEW v, NEW w, NEW x, NEW y, NEW z, \A m \in {v, w, x, y, z} : m.name # "Start",
                 x.name = "onStatus", x.arg = "Start"
          PROVE  Fine(<<v, w, x, y, z>>) /\ Told(<<v, w, x, y, z>>, "Start")
      <3>1. <<v, w, x, y, z>> \in Seq({v, w, x, y, z})
        OBVIOUS
      <3>2. NeverNamed(<<v, w, x, y, z>>)
        BY <2>1 DEF NeverNamed
      <3>3. Told(<<v, w, x, y, z>>, "Start")
        BY <2>1 DEF Told
      <3> QED
        BY <3>1, <3>2, <3>3 DEF Fine
    <2>2. \A m \in {Control, Status("Reset"), Status("Start"), Msg("sampleAccess", 0, None), Status("Data")} :
              m.name # "Start"
      BY <1>1
    <2> QED
      BY <1>1, <2>1, <2>2 DEF start_play
  <1> QED
    BY <1>3, <1>4, <1>5, <1>6, <1>7, <1>8

LEMMA ServiceReplies ==
  /\ Fine(set_window_ack_size \o set_peer_bandwidth)
  /\ ~Told(set_window_ack_size \o set_peer_bandwidth, "Start")
  /\ LET ms == set_window_ack_size \o set_peer_bandwidth \o set_chunk_size
                   \o response_connect_app \o on_bw_done
     IN  Fine(ms) /\ Told(ms, "ConnectAppRes") /\ ~Told(ms, "Start")
  <1>1. /\ Control.name = "control" /\ Msg("onBWDone", 0, None).name = "onBWDone"
        /\ Result(1, "ConnectAppRes").name = "_result" /\ Result(1, "ConnectAppRes").arg = "ConnectAppRes"
    BY DEF Msg, Control, Result
  <1>2. \A a, b, class : Fine(a) /\ Fine(b) =>
            Fine(a \o b) /\ (Told(a \o b, class) <=> Told(a, class) \/ Told(b, class))
    BY FineMore, ToldMore DEF Fine
  <1>3. \A m, class : m.name # "Start" =>
            Fine(<<m>>) /\ (Told(<<m>>, class) <=> m.name \in {"_result", "onStatus"} /\ m.arg = class)
    BY FineFew, ToldOne
  <1>4. /\ Fine(<<Control>>) /\ \A class : ~Told(<<Control>>, class)
        /\ Fine(<<Msg("onBWDone", 0, None)>>) /\ ~Told(<<Msg("onBWDone", 0, None)>>, "Start")
        /\ Fine(<<Result(1, "ConnectAppRes")>>)
        /\ Told(<<Result(1, "ConnectAppRes")>>, "ConnectAppRes")
        /\ ~Told(<<Result(1, "ConnectAppRes")>>, "Start")
    BY <1>1, <1>3
  <1>5. Fine(<<Control>> \o <<Control>>) /\ \A class : ~Told(<<Control>> \o <<Control>>, class)
    BY <1>2, <1>4
  <1>6. /\ Fine(<<Control>> \o <<Control>> \o <<Control>>)
        /\ \A class : ~Told(<<Control>> \o <<Control>> \o <<Control>>, class)
    BY <1>2, <1>4, <1>5, Zenon
  <1> DEFINE a == <<Control>> \o <<Control>> \o <<Control>>
             b == <<Result(1, "ConnectAppRes")>>
             e == <<Msg("onBWDone", 0, None)>>
  <1>7. /\ Fine(a) /\ ~Told(a, "Start") /\ Fine(b) /\ Told(b, "ConnectAppRes") /\ ~Told(b, "Start")
        /\ Fine(e) /\ ~Told(e, "Start")
    BY <1>4, <1>6
  <1> HIDE DEF a, b, e
  <1>8. Fine(a \o b) /\ Told(a \o b, "ConnectAppRes") /\ ~Told(a \o b, "Start")
    BY <1>2, <1>7, Zenon
  <1>9. Fine(a \o b \o e) /\ Told(a \o b \o e, "ConnectAppRes") /\ ~Told(a \o b \o e, "Start")
    BY <1>2, <1>7, <1>8, Zenon
  <1> QED
    BY <1>5, <1>9, Zenon DEF a, b, e, set_window_ack_size, set_peer_bandwidth, set_chunk_size,
        response_connect_app, on_bw_done

-----------------------------------------------------------------------------
(* What comes next                                                         *)

\* The client waits for no answer to its n-th message, or for that one.
Unanswered(kind, n) == \A pos \in 1..Never - 1 : AnswerTo(kind, pos) # n
AnsweredBy(kind, n, class) ==
    \A pos \in 1..Never - 1 : AnswerTo(kind, pos) = n => Awaits(kind, pos) = class

LEMMA AnswersTo ==
  ASSUME NEW kind \in ClientKind
  PROVE  /\ AnsweredBy(kind, 1, "ConnectAppRes")
         /\ \A n \in {2, 7, 8, 9} : Unanswered(kind, n)
         /\ kind \in {"play", "flash"} => AnsweredBy(kind, 3, "CreateStreamRes")
         /\ kind \in {"fmle", "haivision"} => Unanswered(kind, 3)
         /\ kind = "direct" => AnsweredBy(kind, 3, "Start") /\ Unanswered(kind, 4) /\ Unanswered(kind, 5)
         /\ kind = "haivision" => AnsweredBy(kind, 4, "CreateStreamRes")
         /\ kind = "play" => AnsweredBy(kind, 4, "Start") /\ Unanswered(kind, 5)
         /\ kind \in {"flash", "fmle"} => Unanswered(kind, 4)
         /\ kind = "fmle" => AnsweredBy(kind, 5, "CreateStreamRes")
         /\ kind = "flash" => AnsweredBy(kind, 5, "Start")
         /\ kind \in {"fmle", "haivision"} => AnsweredBy(kind, 6, "Start")
         /\ kind \in {"play", "flash"} => Unanswered(kind, 6)
  <1>1. ASSUME NEW pos \in 1..Never - 1
        PROVE  LET a == AnswerTo(kind, pos)
                   w == Awaits(kind, pos)
               IN  /\ (a = 1 => w = "ConnectAppRes") /\ a \notin {2, 7, 8, 9}
                   /\ kind \in {"play", "flash"} => (a = 3 => w = "CreateStreamRes")
                   /\ kind \in {"fmle", "haivision"} => a # 3
                   /\ kind = "direct" => (a = 3 => w = "Start") /\ a # 4 /\ a # 5
                   /\ kind = "haivision" => (a = 4 => w = "CreateStreamRes")
                   /\ kind = "play" => (a = 4 => w = "Start") /\ a # 5
                   /\ kind \in {"flash", "fmle"} => a # 4
                   /\ kind = "fmle" => (a = 5 => w = "CreateStreamRes")
                   /\ kind = "flash" => (a = 5 => w = "Start")
                   /\ kind \in {"fmle", "haivision"} => (a = 6 => w = "Start")
                   /\ kind \in {"play", "flash"} => a # 6
    BY Answers DEF Never
  <1> QED
    BY <1>1 DEF Unanswered, AnsweredBy

\* The messages that it takes where it identifies the client.
LEMMA AtIdentify ==
  ASSUME NEW kind \in ClientKind, NEW u, NEW k \in 0..Total(kind) - 1, "identify" \in Stage(kind, k)
  PROVE  LET m == Call(kind, u, k + 1)
         IN  \/ /\ m = Control \/ m = Msg("_checkbw", 2, None)
                /\ "identify" \in Stage(kind, k + 1) /\ Unanswered(kind, k + 1)
             \/ /\ m \in {Msg("createStream", 2, None), Msg("createStream", 3, None)}
                /\ "identify_create_stream" \in Stage(kind, k + 1)
                /\ AnsweredBy(kind, k + 1, "CreateStreamRes")
             \/ m = Msg("releaseStream", 2, u) /\ kind = "fmle" /\ "start" \in Stage(kind, k + 1)
             \/ m = Msg("play", 0, u) /\ kind = "direct" /\ "start" \in Stage(kind, k + 1)
             \/ m = Msg("play", 0, None) /\ kind = "nameless"
  <1> DEFINE Goal(x) ==
             LET m == Call(kind, u, x + 1)
             IN  \/ /\ m = Control \/ m = Msg("_checkbw", 2, None)
                    /\ "identify" \in Stage(kind, x + 1) /\ Unanswered(kind, x + 1)
                 \/ /\ m \in {Msg("createStream", 2, None), Msg("createStream", 3, None)}
                    /\ "identify_create_stream" \in Stage(kind, x + 1)
                    /\ AnsweredBy(kind, x + 1, "CreateStreamRes")
                 \/ m = Msg("releaseStream", 2, u) /\ kind = "fmle" /\ "start" \in Stage(kind, x + 1)
                 \/ m = Msg("play", 0, u) /\ kind = "direct" /\ "start" \in Stage(kind, x + 1)
                 \/ m = Msg("play", 0, None) /\ kind = "nameless"
  <1> SUFFICES Goal(k)
    OBVIOUS
  <1> HIDE DEF Goal
  <1>1. kind # "nowhere" /\ (k \in {1, 2} \/ (k = 3 /\ kind = "haivision")) /\ k < Total(kind)
    <2>1. Total(kind) \in Int
      BY DEF Total
    <2> QED
      BY <2>1, Stages
  <1>2. 1 + 1 = 2 /\ 2 + 1 = 3 /\ 3 + 1 = 4
    OBVIOUS
  <1>3. kind # "nowhere" => Goal(1)
    <2>1. kind # "nowhere" => Call(kind, u, 2) = Control
      BY PlayCalls, DirectCalls, FlashCalls, FmleCalls, HaivisionCalls, IdleCalls, NamelessCalls DEF ClientKind
    <2>2. kind # "nowhere" => "identify" \in Stage(kind, 2)
      BY EarlyStages
    <2> QED
      BY <1>2, <2>1, <2>2, AnswersTo DEF Goal
  <1>4. CASE kind = "play" /\ k = 2
    BY <1>2, <1>4, PlayCalls, AnswersTo DEF Stage, Goal
  <1>5. CASE kind = "flash" /\ k = 2
    BY <1>2, <1>5, FlashCalls, AnswersTo DEF Stage, Goal
  <1>6. CASE kind = "fmle" /\ k = 2
    BY <1>2, <1>6, FmleCalls DEF Stage, Goal
  <1>7. CASE kind = "direct" /\ k = 2
    BY <1>2, <1>7, DirectCalls DEF Stage, Goal
  <1>8. CASE kind = "nameless" /\ k = 2
    BY <1>2, <1>8, NamelessCalls DEF Goal
  <1>9. CASE kind = "haivision" /\ k = 2
    BY <1>2, <1>9, HaivisionCalls, AnswersTo DEF Stage, Goal
  <1>10. CASE kind = "haivision" /\ k = 3
    BY <1>2, <1>10, HaivisionCalls, AnswersTo DEF Stage, Goal
  <1>11. ~(kind = "idle" /\ k = 2)
    BY <1>1 DEF Total
  <1>12. CASE k = 1
    BY <1>1, <1>3, <1>12
  <1>13. CASE k = 2
    BY <1>1, <1>4, <1>5, <1>6, <1>7, <1>8, <1>9, <1>11, <1>13 DEF ClientKind
  <1> QED
    BY <1>1, <1>10, <1>12, <1>13

LEMMA AtIdentifyCreateStream ==
  ASSUME NEW kind \in ClientKind, NEW u, NEW k \in 0..Total(kind) - 1,
         "identify_create_stream" \in Stage(kind, k)
  PROVE  LET m == Call(kind, u, k + 1)
         IN  \/ /\ m = Control
                /\ "identify_create_stream" \in Stage(kind, k + 1) /\ Unanswered(kind, k + 1)
             \/ m = Msg("play", 0, u) /\ kind = "play" /\ "start" \in Stage(kind, k + 1)
             \/ m = Msg("publish", 0, u) /\ kind = "flash" /\ "start" \in Stage(kind, k + 1)
             \/ m = Msg("FCPublish", 4, u) /\ kind = "haivision" /\ "start" \in Stage(kind, k + 1)
  <1>1. \/ k = 3 /\ kind \in {"play", "flash"}
        \/ k = 4 /\ kind \in {"flash", "haivision"}
    BY Stages
  <1>2. 3 + 1 = 4 /\ 4 + 1 = 5
    OBVIOUS
  <1>3. CASE k = 3 /\ kind = "play"
    BY <1>2, <1>3, PlayCalls DEF Stage
  <1>4. CASE k = 3 /\ kind = "flash"
    BY <1>2, <1>4, FlashCalls, AnswersTo DEF Stage
  <1>5. CASE k = 4 /\ kind = "flash"
    BY <1>2, <1>5, FlashCalls DEF Stage
  <1>6. CASE k = 4 /\ kind = "haivision"
    BY <1>2, <1>6, HaivisionCalls DEF Stage
  <1> QED
    BY <1>1, <1>3, <1>4, <1>5, <1>6

\* The messages of start_fmle_publish and start_haivision_publish.
LEMMA AtStartPublish ==
  ASSUME NEW kind \in ClientKind, NEW u, NEW k \in 0..Total(kind) - 1
  PROVE  LET m == Call(kind, u, k + 1)
         IN  /\ "FCPublish" \in Stage(kind, k) =>
                   /\ m = Msg("FCPublish", 3, u)
                   /\ "createStream" \in Stage(kind, k + 1) /\ Unanswered(kind, k + 1)
             /\ "createStream" \in Stage(kind, k) =>
                   /\ m = Msg("createStream", 4, None)
                   /\ "publish" \in Stage(kind, k + 1) /\ AnsweredBy(kind, k + 1, "CreateStreamRes")
             /\ "publish" \in Stage(kind, k) =>
                   /\ m = Msg("publish", 0, u)
                   /\ "acquire" \in Stage(kind, k + 1) /\ AnsweredBy(kind, k + 1, "Start")
  <1>1. /\ "FCPublish" \in Stage(kind, k) => k = 3 /\ kind = "fmle"
        /\ "createStream" \in Stage(kind, k) => k = 4 /\ kind = "fmle"
        /\ "publish" \in Stage(kind, k) => k = 5 /\ kind \in {"fmle", "haivision"}
    BY Stages
  <1>2. 3 + 1 = 4 /\ 4 + 1 = 5 /\ 5 + 1 = 6
    OBVIOUS
  <1>3. /\ Call("fmle", u, 4) = Msg("FCPublish", 3, u) /\ "createStream" \in Stage("fmle", 4)
        /\ Call("fmle", u, 5) = Msg("createStream", 4, None) /\ "publish" \in Stage("fmle", 5)
        /\ Call("fmle", u, 6) = Msg("publish", 0, u) /\ "acquire" \in Stage("fmle", 6)
        /\ Call("haivision", u, 6) = Msg("publish", 0, u) /\ "acquire" \in Stage("haivision", 6)
    BY FmleCalls, HaivisionCalls DEF Stage, Publishing
  <1> QED
    BY <1>1, <1>2, <1>3, AnswersTo

\* The messages of a client that publishes.
LEMMA AtPublishing ==
  ASSUME NEW kind \in ClientKind, NEW u, NEW k \in 0..Total(kind) - 1, "publishing" \in Stage(kind, k)
  PROVE  LET m == Call(kind, u, k + 1)
         IN  /\ Unanswered(kind, k + 1)
             /\ \/ m = Media /\ "publishing" \in Stage(kind, k + 1)
                \/ m = Msg("closeStream", 0, None) /\ kind = "flash" /\ "join" \in Stage(kind, k + 1)
                \/ m = Msg("FCUnpublish", 5, u) /\ kind = "fmle" /\ "join" \in Stage(kind, k + 1)
  <1>1. Publishing \cap Stage(kind, k) # {}
    BY DEF Publishing
  <1>2. /\ \/ k \in {5, 6} /\ kind = "flash"
           \/ k \in {6, 7} /\ kind \in {"fmle", "haivision"}
        /\ k < Total(kind)
    <2>1. Total(kind) \in Int
      BY DEF Total
    <2> QED
      BY <1>1, <2>1, Stages
  <1>3. 5 + 1 = 6 /\ 6 + 1 = 7 /\ 7 + 1 = 8
    OBVIOUS
  <1>4. /\ Call("flash", u, 6) = Media /\ "publishing" \in Stage("flash", 6)
        /\ Call("flash", u, 7) = Msg("closeStream", 0, None) /\ "join" \in Stage("flash", 7)
        /\ Call("fmle", u, 7) = Media /\ "publishing" \in Stage("fmle", 7)
        /\ Call("fmle", u, 8) = Msg("FCUnpublish", 5, u) /\ "join" \in Stage("fmle", 8)
        /\ Call("haivision", u, 7) = Media /\ "publishing" \in Stage("haivision", 7)
    BY FlashCalls, FmleCalls, HaivisionCalls DEF Stage, Publishing
  <1>5. Total("haivision") = 7
    BY DEF Total
  <1>6. Unanswered(kind, k + 1)
    BY <1>2, <1>3, AnswersTo
  <1> QED
    BY <1>2, <1>3, <1>4, <1>5, <1>6

\* The messages of a client that plays.
LEMMA AtPlaying ==
  ASSUME NEW kind \in ClientKind, NEW u, NEW k \in 0..Total(kind) - 1, "playing" \in Stage(kind, k)
  PROVE  LET m == Call(kind, u, k + 1)
         IN  /\ Unanswered(kind, k + 1)
             /\ \/ /\ m \in {Control, Msg("pause", 0, None), Msg("getLength", 9, None)}
                   /\ "playing" \in Stage(kind, k + 1)
                \/ m = Msg("closeStream", 0, None) /\ "join" \in Stage(kind, k + 1)
  <1>1. /\ \/ k \in {4, 5, 6, 7, 8} /\ kind = "play"
           \/ k \in {3, 4, 5} /\ kind = "direct"
        /\ k < Total(kind)
    <2>1. Total(kind) \in Int
      BY DEF Total
    <2> QED
      BY <2>1, Stages
  <1>2. 3 + 1 = 4 /\ 4 + 1 = 5 /\ 5 + 1 = 6 /\ 6 + 1 = 7 /\ 7 + 1 = 8 /\ 8 + 1 = 9
    OBVIOUS
  <1>3. /\ \A i \in {5, 6, 7, 8} : "playing" \in Stage("play", i)
        /\ "join" \in Stage("play", 9) /\ \A i \in {4, 5} : "playing" \in Stage("direct", i)
    BY DEF Stage
  <1>4. /\ Call("play", u, 5) = Control /\ Call("play", u, 6) = Control
        /\ Call("play", u, 7) = Msg("pause", 0, None) /\ Call("play", u, 8) = Msg("getLength", 9, None)
        /\ Call("play", u, 9) = Msg("closeStream", 0, None)
        /\ Call("direct", u, 4) = Control /\ Call("direct", u, 5) = Control
    BY PlayCalls, DirectCalls
  <1>5. Total("direct") = 5
    BY DEF Total
  <1>6. Unanswered(kind, k + 1)
    BY <1>1, <1>2, <1>5, AnswersTo
  <1> QED
    BY <1>1, <1>2, <1>3, <1>4, <1>5, <1>6

LEMMA AtConnect ==
  ASSUME NEW kind \in ClientKind, NEW u, NEW k \in Nat, "connect_app" \in Stage(kind, k)
  PROVE  /\ k = 0 /\ Call(kind, u, 1).name = "connect"
         /\ IF kind = "nowhere" THEN Call(kind, u, 1).arg = None ELSE "service_cycle" \in Stage(kind, 1)
  <1>1. k = 0
    BY Stages
  <1>2. /\ Msg("connect", 1, "live").name = "connect"
        /\ Msg("connect", 1, None).name = "connect" /\ Msg("connect", 1, None).arg = None
    BY DEF Msg
  <1>3. kind # "nowhere" => "service_cycle" \in Stage(kind, 1)
    BY EarlyStages
  <1>4. Call(kind, u, 1) = IF kind = "nowhere" THEN Msg("connect", 1, None) ELSE Msg("connect", 1, "live")
    BY PlayCalls, DirectCalls, FlashCalls, FmleCalls, HaivisionCalls, IdleCalls, NamelessCalls,
       NowhereCalls DEF ClientKind
  <1> QED
    BY <1>1, <1>2, <1>3, <1>4 DEF ClientKind

\* Where the service starts, and how.
LEMMA AtStart ==
  ASSUME NEW kind \in ClientKind, NEW k \in Nat, "start" \in Stage(kind, k)
  PROVE  /\ kind \in {"play", "direct", "flash", "fmle", "haivision"}
         /\ kind \in {"play", "direct"} => "playing" \in Stage(kind, k) /\ AnsweredBy(kind, k, "Start")
         /\ kind = "flash" => "acquire" \in Stage(kind, k) /\ AnsweredBy(kind, k, "Start")
         /\ kind = "fmle" => "FCPublish" \in Stage(kind, k)
         /\ kind = "haivision" => "publish" \in Stage(kind, k)
  <1>1. \/ k = 3 /\ kind \in {"direct", "fmle"}
        \/ k = 4 /\ kind = "play"
        \/ k = 5 /\ kind \in {"flash", "haivision"}
    BY Stages
  <1>2. /\ "playing" \in Stage("direct", 3) /\ "FCPublish" \in Stage("fmle", 3)
        /\ "playing" \in Stage("play", 4) /\ "acquire" \in Stage("flash", 5)
        /\ "publish" \in Stage("haivision", 5)
    BY DEF Stage, Publishing
  <1> QED
    BY <1>1, <1>2, AnswersTo

-----------------------------------------------------------------------------
(* The invariant                                                           *)

\* Who is served is served as what it is, with the stream that it named.
ServeOk(c) ==
    /\ Serving(c) => conn[c].type = Intended(client[c].kind) /\ url[c] = client[c].url
    /\ Serving(c) /\ conn[c].pc # "start" => thread[c] = "serve"
    /\ conn[c].ret = "stream" => client[c].kind = "nameless"

TalkOk(c) ==
    \/ /\ client[c].pos = 1
       /\ Shaking(client[c].state, client[c].schema, conn[c].pc, conn[c].ret, c2s[c], s2c[c])
    \/ /\ client[c].state \in {"run", "left", "refused"}
       /\ Talk(client[c].kind, client[c].url, client[c].pos, conn[c].pc, conn[c].ret, c2s[c], s2c[c])

ServiceOk(c) == TalkOk(c) /\ ServeOk(c) /\ Fine(s2c[c])

\* A source that is taken is published by someone; a source is in the pool
\* and served under the stream of its creator.
Publishers(s) == {d \in Conn : thread[d] = "serve" /\ source[d] = s /\ conn[d].pc \in {"publishing", "join"}}
SourceInv ==
    /\ can_publish \in [Conn -> BOOLEAN]
    /\ \A u \in Url : pool[u] # None => url[pool[u]] = u /\ thread[pool[u]] = "serve"
    /\ \A c \in Conn : source[c] # None =>
           /\ thread[c] # "idle"
           /\ url[source[c]] = url[c] /\ thread[source[c]] = "serve"
    /\ \A s \in Conn : ~can_publish[s] => Publishers(s) # {}
    /\ \A c \in Conn : conn[c].ret = "busy" =>
           /\ conn[c].pc = "closed" /\ thread[c] = "serve"
           /\ Publishers(source[c]) # {}

ServiceInv == (\A c \in Conn : ServiceOk(c)) /\ SourceInv

LEMMA ScriptLen ==
  ASSUME NEW kind \in ClientKind, NEW u
  PROVE  Len(ScriptOf(kind, u)) \in Nat
  <1>1. /\ Len(ScriptOf("play", u)) = 12 /\ Len(ScriptOf("direct", u)) = 7
        /\ Len(ScriptOf("flash", u)) = 10 /\ Len(ScriptOf("fmle", u)) = 11
        /\ Len(ScriptOf("haivision", u)) = 10 /\ Len(ScriptOf("idle", u)) = 3
        /\ Len(ScriptOf("nameless", u)) = 7 /\ Len(ScriptOf("nowhere", u)) = 3
    BY PlayScript, DirectScript, FlashScript, FmleScript, HaivisionScript, IdleScript,
       NamelessScript, NowhereScript
  <1> QED
    BY <1>1 DEF ClientKind

LEMMA Facts ==
  ASSUME IInv, AnswerInv, NEW c \in Conn
  PROVE  /\ client[c].kind \in ClientKind /\ client[c].pos \in Nat \ {0}
         /\ client[c].state # "failed"
         /\ \E S : c2s[c] \in Seq(S)
         /\ \E S : s2c[c] \in Seq(S)
  <1>1. client[c].kind \in ClientKind /\ client[c].pos \in Nat \ {0}
    BY DEF IInv, ClientSound, ClientType
  <1>2. \E S : c2s[c] \in Seq(S)
    BY DEF IInv, ChannelSound, AllNamed
  <1>3. client[c].state # "failed" /\ \E S : s2c[c] \in Seq(S)
    BY DEF AnswerInv, AnswerOk, AllDecode
  <1> QED
    BY <1>1, <1>2, <1>3

\* A connection that nothing happens to.
LEMMA OtherService ==
  ASSUME NEW d \in Conn, ServiceOk(d), client'[d] = client[d], conn'[d] = conn[d],
         c2s'[d] = c2s[d], s2c'[d] = s2c[d], url'[d] = url[d], thread'[d] = thread[d]
  PROVE  ServiceOk(d)'
  BY DEF ServiceOk, TalkOk, ServeOk, Serving, Pc, AtEnd, Client, Script

\* The sources while no connection begins or ends to publish.
LEMMA SourceKept ==
  ASSUME SourceInv, UNCHANGED <<poolVars, can_publish>>, NEW c \in Conn,
         \A d \in Conn \ {c} : conn'[d] = conn[d],
         conn[c].pc \in {"publishing", "join"} => conn'[c].pc \in {"publishing", "join"},
         conn'[c].ret = "busy" => conn[c].ret = "busy" /\ conn'[c].pc = conn[c].pc
  PROVE  SourceInv'
  <1>1. ASSUME NEW s PROVE Publishers(s) \subseteq Publishers(s)'
    BY DEF Publishers, poolVars
  <1>2. can_publish' = can_publish /\ pool' = pool /\ url' = url /\ thread' = thread /\ source' = source
    BY DEF poolVars
  <1>3. ASSUME NEW d \in Conn, conn'[d].ret = "busy" PROVE conn[d].ret = "busy" /\ conn'[d].pc = conn[d].pc
    BY <1>3
  <1> QED
    BY <1>1, <1>2, <1>3 DEF SourceInv

\* A client speaks, listens or leaves.
LEMMA ClientServes ==
  ASSUME IInv, AnswerInv, ServiceInv, NEW c \in Conn, ClientNext(c) \/ ClientLeave(c)
  PROVE  ServiceInv'
  <1> DEFINE kind == client[c].kind
             u == client[c].url
             pos == client[c].pos
             state == client[c].state
  <1>1. PICK A, B : client \in [Conn -> ClientType(A, B)]
    BY DEF IInv, ClientSound
  <1>2. /\ kind \in ClientKind /\ pos \in Nat \ {0} /\ Len(ScriptOf(kind, u)) \in Nat
        /\ \E S : c2s[c] \in Seq(S)
        /\ \E S : s2c[c] \in Seq(S)
    BY Facts, ScriptLen
  <1>3. c2s = [d \in Conn |-> c2s[d]] /\ s2c = [d \in Conn |-> s2c[d]]
    BY DEF IInv, ChannelSound, AnswerInv
  <1>4. ServiceOk(c) /\ \A d \in Conn : ServiceOk(d)
    BY DEF ServiceInv
  <1>5. UNCHANGED <<poolVars, can_publish>> /\ conn' = conn
    BY DEF ClientNext, ClientC0C1, ClientC2, ClientReadShort, ClientSend, ClientExpect,
       ClientRefused, ClientLeave
  <1>6. SourceInv'
    BY <1>5, SourceKept DEF ServiceInv
  <1>7. \A d \in Conn \ {c} : c2s'[d] = c2s[d] /\ s2c'[d] = s2c[d] /\ client'[d] = client[d]
    <2>1. CASE ClientC0C1(c)
      BY <1>1, <1>3, <2>1 DEF ClientC0C1
    <2>2. CASE ClientC2(c)
      BY <1>1, <1>3, <2>2 DEF ClientC2
    <2>3. CASE ClientSend(c)
      BY <1>1, <1>3, <2>3 DEF ClientSend
    <2>4. CASE ClientExpect(c)
      BY <1>1, <1>3, <2>4 DEF ClientExpect
    <2>5. CASE ClientRefused(c) \/ ClientLeave(c) \/ ClientReadShort(c)
      BY <1>1, <1>3, <2>5 DEF ClientRefused, ClientLeave, ClientReadShort
    <2> QED
      BY <2>1, <2>2, <2>3, <2>4, <2>5 DEF ClientNext
  <1>8. ASSUME NEW d \in Conn \ {c} PROVE ServiceOk(d)'
    BY <1>4, <1>5, <1>7, OtherService DEF poolVars
  <1>9. SUFFICES ServiceOk(c)'
    BY <1>6, <1>8 DEF ServiceInv
  <1>10. ServeOk(c) /\ Fine(s2c[c]) /\ TalkOk(c)
    BY <1>4 DEF ServiceOk
  <1>11. CASE ClientC0C1(c)
    <2>1. PICK schema \in Schemas[c], o \in Offsets :
            /\ c2s' = [c2s EXCEPT ![c] = Append(@, Bytes("c0c1",
                   [ClientHello(schema \in {0, 1}, schema, o) EXCEPT
                       !.plain = IF schema = Encrypted THEN 6 ELSE @]))]
            /\ client' = [client EXCEPT ![c].state = "s0s1s2", ![c].schema = schema]
      BY <1>11 DEF ClientC0C1
    <2>2. state = "c0c1" /\ s2c' = s2c
      BY <1>11 DEF ClientC0C1, Client
    <2>3. pos = 1 /\ c2s[c] = <<>> /\ s2c[c] = <<>> /\ conn[c].pc = "handshake" /\ conn[c].ret = "ok"
      BY <1>10, <2>2 DEF TalkOk, Shaking
    <2> DEFINE hello == ClientHello(schema \in {0, 1}, schema, o)
               m == Bytes("c0c1", [hello EXCEPT !.plain = IF schema = Encrypted THEN 6 ELSE @])
    <2>4. m.arg.plain = Plain \/ schema = Encrypted
      BY DEF ClientHello, create_c0c1, Bytes
    <2>5. c2s'[c] = Append(c2s[c], m)
      BY <1>3, <2>1
    <2> HIDE DEF m
    <2>6. Len(c2s'[c]) = 1 /\ c2s'[c][1] = m
      BY <2>3, <2>5
    <2>7. client'[c].state = "s0s1s2" /\ client'[c].schema = schema /\ client'[c].pos = pos
      BY <1>1, <2>1 DEF ClientType
    <2>8. TalkOk(c)'
      BY <1>5, <2>2, <2>3, <2>4, <2>6, <2>7 DEF TalkOk, Shaking
    <2>9. ServeOk(c)'
      BY <1>5, <2>3 DEF ServeOk, Serving, Pc
    <2> QED
      BY <1>10, <2>2, <2>8, <2>9 DEF ServiceOk
  <1>12. CASE ClientC2(c)
    <2>1. /\ state = "s0s1s2" /\ s2c[c] # <<>>
          /\ c2s' = [c2s EXCEPT ![c] = Append(@, Bytes("c2", ClientAnswer(Signs(c), Client(c).schema, Head(s2c[c]).arg.s1)))]
          /\ s2c' = [s2c EXCEPT ![c] = Tail(@)]
          /\ client' = [client EXCEPT ![c].state = "run"]
      BY <1>12 DEF ClientC2, Client
    <2>2. pos = 1 /\ conn[c].pc = "c2" /\ conn[c].ret = "ok" /\ c2s[c] = <<>> /\ Len(s2c[c]) = 1
      BY <1>10, <2>1 DEF TalkOk, Shaking
    <2>3. client'[c].state = "run" /\ client'[c].kind = kind /\ client'[c].url = u /\ client'[c].pos = 1
      BY <1>1, <2>1, <2>2 DEF ClientType
    <2>4. s2c'[c] = Tail(s2c[c]) /\ Len(s2c'[c]) = 0
      BY <1>2, <1>3, <2>1, <2>2
    <2>5. PICK m : m.name = "c2" /\ c2s'[c] = Append(c2s[c], m)
      <3>1. \A b : Bytes("c2", b).name = "c2"
        BY DEF Bytes
      <3> QED
        BY <1>3, <2>1, <3>1
    <2>6. Len(c2s'[c]) = 1 /\ c2s'[c][1] = m
      BY <2>2, <2>5
    <2>7. Sent(kind, 1) = 0 /\ ~(1 > StartAt(kind))
      BY <1>2, Turns DEF Sent, StartAt
    <2>8. ~Told(s2c'[c], "Start")
      <3>1. ASSUME NEW ms, Len(ms) = 0 PROVE ~Told(ms, "Start")
        BY <3>1 DEF Told
      <3> QED
        BY <2>4, <3>1
    <2>9. Pending(kind, u, 1, "c2", c2s'[c], 0)
      BY <2>5, <2>6, <2>7 DEF Pending
    <2>10. Heard(kind, u, 1, "c2", "ok", c2s'[c], s2c'[c], 0)
      BY <2>7, <2>8, <2>9 DEF Heard
    <2>11. Talk(kind, u, 1, "c2", "ok", c2s'[c], s2c'[c])
      <3>1. 0 \in 0..Sent(kind, 1) /\ 1 \in 1..Len(ScriptOf(kind, u)) + 1
        BY <1>2, <2>7
      <3> QED
        BY <2>10, <3>1 DEF Talk
    <2>12. TalkOk(c)'
      BY <1>5, <2>2, <2>3, <2>11 DEF TalkOk
    <2>13. ServeOk(c)'
      BY <1>5, <2>2 DEF ServeOk, Serving, Pc
    <2> QED
      BY <1>10, <2>1, <2>4, <2>12, <2>13, FineTail DEF ServiceOk
  <1>13. ASSUME state = "run" PROVE Talk(kind, u, pos, conn[c].pc, conn[c].ret, c2s[c], s2c[c])
    BY <1>10, <1>13 DEF TalkOk, Shaking
  <1>14. CASE ClientSend(c)
    <2>1. /\ state = "run" /\ Op(c).op = "send" /\ s2c' = s2c
          /\ c2s' = [c2s EXCEPT ![c] = Append(@, Op(c).what)]
          /\ client' = [client EXCEPT ![c].pos = @ + 1, ![c].schema = Simple,
                                      ![c].requests = Remember(@, Op(c).what)]
      BY <1>14 DEF ClientSend, Client
    <2>2. ~AtEnd(c) /\ Op(c) = ScriptOf(kind, u)[pos]
      BY <2>1 DEF Op, Script, Client
    <2>3. pos \in 1..Len(ScriptOf(kind, u))
      BY <1>2, <2>2 DEF AtEnd, Client, Script
    <2>4. Talk(kind, u, pos + 1, conn[c].pc, conn[c].ret, Append(c2s[c], ScriptOf(kind, u)[pos].what), s2c[c])
      BY <1>2, <1>13, <2>1, <2>2, <2>3, HeardSend
    <2>5. client'[c].state = "run" /\ client'[c].kind = kind /\ client'[c].url = u /\ client'[c].pos = pos + 1
      BY <1>1, <2>1 DEF ClientType
    <2>6. c2s'[c] = Append(c2s[c], ScriptOf(kind, u)[pos].what)
      BY <1>3, <2>1, <2>2
    <2>7. TalkOk(c)'
      BY <1>5, <2>1, <2>4, <2>5, <2>6 DEF TalkOk
    <2>8. ServeOk(c)'
      BY <1>5, <1>10, <2>5 DEF ServeOk, Serving, Pc, poolVars
    <2> QED
      BY <1>10, <2>1, <2>7, <2>8 DEF ServiceOk
  <1>15. CASE ClientExpect(c)
    <2> DEFINE class == ClassOf(client[c].requests, Head(s2c[c]))
    <2>1. /\ state = "run" /\ Op(c).op = "expect" /\ s2c[c] # <<>> /\ c2s' = c2s
          /\ client' = IF class = Op(c).what.name THEN [client EXCEPT ![c].pos = @ + 1]
                       ELSE IF class = "undecodable" THEN [client EXCEPT ![c].state = "failed"] ELSE client
          /\ s2c' = [s2c EXCEPT ![c] = Tail(@)]
      BY <1>15 DEF ClientExpect, Client
    <2>2. ~AtEnd(c) /\ Op(c) = ScriptOf(kind, u)[pos]
      BY <2>1 DEF Op, Script, Client
    <2>3. pos \in 1..Len(ScriptOf(kind, u))
      BY <1>2, <2>2 DEF AtEnd, Client, Script
    <2>4. /\ Head(s2c[c]).name = "_result" => class = Head(s2c[c]).arg
          /\ class # "undecodable"
      <3>1. /\ \A t \in DOMAIN client[c].requests : client[c].requests[t] = NameOf(kind, t)
            /\ AllDecode(kind, DOMAIN client[c].requests, s2c[c])
        BY DEF AnswerInv, AnswerOk
      <3>2. Decodes(kind, DOMAIN client[c].requests, Head(s2c[c]))
        BY <2>1, <3>1, TakeDecodes
      <3> QED
        BY <3>1, <3>2, DecodedAs
    <2>5. /\ Head(s2c[c]).name = "onStatus" => class = Head(s2c[c]).arg
          /\ Head(s2c[c]).name \notin {"_result", "onStatus"} => class = Head(s2c[c]).name
      BY DEF ClassOf
    <2>6. Head(s2c[c]).name # "Start" /\ Fine(Tail(s2c[c]))
      BY <1>10, <2>1, FineTail
    <2>7. s2c'[c] = Tail(s2c[c])
      BY <1>3, <2>1
    <2> HIDE DEF class
    <2>8. CASE class = Op(c).what.name
      <3>1. class = "Start" => Head(s2c[c]).name \in {"_result", "onStatus"} /\ Head(s2c[c]).arg = class
        BY <2>4, <2>5, <2>6
      <3>2. Talk(kind, u, pos + 1, conn[c].pc, conn[c].ret, c2s[c], Tail(s2c[c]))
        BY <1>2, <1>13, <2>1, <2>2, <2>3, <2>8, <3>1, HeardExpect
      <3>3. client'[c].state = "run" /\ client'[c].kind = kind /\ client'[c].url = u /\ client'[c].pos = pos + 1
        BY <1>1, <2>1, <2>8 DEF ClientType
      <3>4. TalkOk(c)'
        BY <1>5, <2>1, <2>7, <3>2, <3>3 DEF TalkOk
      <3>5. ServeOk(c)'
        BY <1>5, <1>10, <3>3 DEF ServeOk, Serving, Pc, poolVars
      <3> QED
        BY <2>6, <2>7, <3>4, <3>5 DEF ServiceOk
    <2>9. CASE class # Op(c).what.name
      <3>1. client' = client
        BY <2>1, <2>4, <2>9
      <3>2. Op(c).what.name = Awaits(kind, pos)
        BY <1>2, <2>1, <2>2, <2>3, OpsAt DEF OpAt
      <3>3. ~(Head(s2c[c]).name \in {"_result", "onStatus"} /\ Head(s2c[c]).arg = Awaits(kind, pos))
        BY <2>4, <2>5, <2>9, <3>2
      <3>4. Talk(kind, u, pos, conn[c].pc, conn[c].ret, c2s[c], Tail(s2c[c]))
        BY <1>2, <1>13, <2>1, <3>3, HeardDrop
      <3>5. TalkOk(c)'
        BY <1>5, <2>1, <2>7, <3>1, <3>4 DEF TalkOk
      <3>6. ServeOk(c)'
        BY <1>5, <1>10, <3>1 DEF ServeOk, Serving, Pc, poolVars
      <3> QED
        BY <2>6, <2>7, <3>5, <3>6 DEF ServiceOk
    <2> QED
      BY <2>8, <2>9
  <1>16. CASE ClientRefused(c) \/ ClientLeave(c)
    <2>1. c2s' = c2s /\ s2c' = s2c
      BY <1>16 DEF ClientRefused, ClientLeave
    <2>2. PICK w \in {"refused", "left"} : client' = [client EXCEPT ![c].state = w]
      BY <1>16 DEF ClientRefused, ClientLeave
    <2>3. \/ state = "run"
          \/ state = "s0s1s2" /\ w = "refused" /\ s2c[c] = <<>>
      <3>1. CASE ClientLeave(c)
        BY <3>1 DEF ClientLeave, Client
      <3>2. CASE ClientRefused(c)
        <4>1. client'[c].state = "refused" /\ client'[c].state = w
          BY <1>1, <2>2, <3>2 DEF ClientRefused, ClientType
        <4> QED
          BY <3>2, <4>1 DEF ClientRefused, Client
      <3> QED
        BY <1>16, <3>1, <3>2
    <2>4. /\ client'[c].state = w /\ client'[c].kind = kind /\ client'[c].url = u
          /\ client'[c].pos = pos /\ client'[c].schema = client[c].schema
      BY <1>1, <2>2 DEF ClientType
    <2>5. TalkOk(c)'
      <3>1. CASE state = "run"
        BY <1>5, <1>13, <2>1, <2>4, <3>1 DEF TalkOk
      <3>2. CASE state = "s0s1s2" /\ w = "refused" /\ s2c[c] = <<>>
        BY <1>5, <1>10, <2>1, <2>4, <3>2 DEF TalkOk, Shaking
      <3> QED
        BY <2>3, <3>1, <3>2
    <2>6. ServeOk(c)'
      BY <1>5, <1>10, <2>4 DEF ServeOk, Serving, Pc, poolVars
    <2> QED
      BY <1>10, <2>1, <2>5, <2>6 DEF ServiceOk
  <1>17. CASE ClientReadShort(c)
    <2>1. /\ state = "s0s1s2" /\ s2c[c] # <<>> /\ c2s' = c2s
          /\ s2c' = [s2c EXCEPT ![c] = Tail(@)]
          /\ client' = [client EXCEPT ![c].state = "left"]
      BY <1>17 DEF ClientReadShort, Client
    <2>2. pos = 1 /\ conn[c].pc = "c2" /\ conn[c].ret = "ok" /\ c2s[c] = <<>> /\ Len(s2c[c]) = 1
      BY <1>10, <2>1 DEF TalkOk, Shaking
    <2>3. client'[c].state = "left" /\ client'[c].pos = 1
      BY <1>1, <2>1, <2>2 DEF ClientType
    <2>4. s2c'[c] = Tail(s2c[c]) /\ s2c'[c] = <<>>
      <3>1. PICK down : down = s2c[c]
        OBVIOUS
      <3>2. PICK S : down \in Seq(S)
        BY <1>2, <3>1
      <3>3. Tail(down) \in Seq(S) /\ Len(Tail(down)) = 0
        BY <2>1, <2>2, <3>1, <3>2
      <3>4. Tail(down) = <<>>
        BY <3>3, EmptySeq
      <3> QED
        BY <1>3, <2>1, <3>1, <3>4
    <2>5. TalkOk(c)'
      <3>1. c2s'[c] = <<>> /\ conn'[c].pc = "c2" /\ conn'[c].ret = "ok"
        BY <1>5, <2>1, <2>2
      <3>2. Shaking(client'[c].state, client'[c].schema, conn'[c].pc, conn'[c].ret, c2s'[c], s2c'[c])
        BY <2>3, <2>4, <3>1 DEF Shaking
      <3> QED
        BY <2>3, <3>2 DEF TalkOk
    <2>6. ServeOk(c)'
      BY <1>5, <2>2 DEF ServeOk, Serving, Pc
    <2> QED
      BY <1>10, <2>1, <2>4, <2>5, <2>6, FineTail DEF ServiceOk
  <1> QED
    BY <1>11, <1>12, <1>14, <1>15, <1>16, <1>17 DEF ClientNext

\* The connection goes on, closes, or is identified.
Shake(c, q, h) == conn' = [conn EXCEPT ![c].pc = q, ![c].hello = h]
LEMMA Moves ==
  ASSUME AnswerInv, NEW c \in Conn
  PROVE  /\ \A q : To(c, q) => /\ conn'[c].pc = q /\ conn'[c].ret = conn[c].ret
                               /\ conn'[c].type = conn[c].type
                               /\ \A d \in Conn \ {c} : conn'[d] = conn[d]
         /\ \A r : Close(c, r) => /\ conn'[c].pc = "closed" /\ conn'[c].ret = r
                                  /\ \A d \in Conn \ {c} : conn'[d] = conn[d]
         /\ \A type, v : Identified(c, type, v) =>
                /\ \A d \in Conn \ {c} : conn'[d] = conn[d]
                /\ \/ /\ v = None /\ UNCHANGED poolVars
                      /\ conn'[c].pc = "closed" /\ conn'[c].ret = "stream"
                   \/ /\ v # None /\ request(c, v) /\ conn'[c].pc = "start"
                      /\ conn'[c].type = type /\ conn'[c].ret = conn[c].ret
         /\ \A q, h : Shake(c, q, h) =>
                /\ conn'[c].pc = q /\ conn'[c].ret = conn[c].ret
                /\ \A d \in Conn \ {c} : conn'[d] = conn[d]
  <1>1. PICK S, H : conn \in [Conn -> ConnType(S, H)]
    BY DEF AnswerInv, ConnSound
  <1>2. ASSUME NEW q, To(c, q)
        PROVE  /\ conn'[c].pc = q /\ conn'[c].ret = conn[c].ret /\ conn'[c].type = conn[c].type
               /\ \A d \in Conn \ {c} : conn'[d] = conn[d]
    BY <1>1, <1>2 DEF To, ConnType
  <1>3. ASSUME NEW r, Close(c, r)
        PROVE  /\ conn'[c].pc = "closed" /\ conn'[c].ret = r
               /\ \A d \in Conn \ {c} : conn'[d] = conn[d]
    BY <1>1, <1>3 DEF Close, ConnType
  <1>4. ASSUME NEW type, NEW v, Identified(c, type, v)
        PROVE  /\ \A d \in Conn \ {c} : conn'[d] = conn[d]
               /\ \/ /\ v = None /\ UNCHANGED poolVars
                     /\ conn'[c].pc = "closed" /\ conn'[c].ret = "stream"
                  \/ /\ v # None /\ request(c, v) /\ conn'[c].pc = "start"
                     /\ conn'[c].type = type /\ conn'[c].ret = conn[c].ret
    <2>1. CASE v = None
      BY <1>3, <1>4, <2>1 DEF Identified
    <2>2. CASE v # None
      <3>1. conn' = [conn EXCEPT ![c].pc = "start", ![c].type = type] /\ request(c, v)
        BY <1>4, <2>2 DEF Identified
      <3>2. /\ \A d \in Conn \ {c} : conn'[d] = conn[d]
            /\ conn'[c].pc = "start" /\ conn'[c].type = type /\ conn'[c].ret = conn[c].ret
        BY <1>1, <3>1 DEF ConnType
      <3> QED
        BY <2>2, <3>1, <3>2
    <2> QED
      BY <2>1, <2>2
  <1>5. ASSUME NEW q, NEW h, Shake(c, q, h)
        PROVE  /\ conn'[c].pc = q /\ conn'[c].ret = conn[c].ret
               /\ \A d \in Conn \ {c} : conn'[d] = conn[d]
    BY <1>1, <1>5 DEF Shake, ConnType
  <1> QED
    BY <1>2, <1>3, <1>4, <1>5

\* What the connection takes and says.
LEMMA Exchanges ==
  ASSUME IInv, AnswerInv, NEW c \in Conn
  PROVE  /\ Take(c) => c2s'[c] = Tail(c2s[c]) /\ \A d \in Conn \ {c} : c2s'[d] = c2s[d]
         /\ \A ms : Answer(c, ms) => s2c'[c] = s2c[c] \o ms /\ \A d \in Conn \ {c} : s2c'[d] = s2c[d]
         /\ Silent => /\ s2c'[c] = s2c[c] /\ s2c'[c] = s2c[c] \o <<>>
                      /\ \A d \in Conn \ {c} : s2c'[d] = s2c[d]
         /\ \A m \in Arrived(c) : c2s[c] # <<>> /\ m = Head(c2s[c])
  <1>1. c2s = [d \in Conn |-> c2s[d]] /\ s2c = [d \in Conn |-> s2c[d]]
    BY DEF IInv, ChannelSound, AnswerInv
  <1>2. Take(c) => c2s'[c] = Tail(c2s[c]) /\ \A d \in Conn \ {c} : c2s'[d] = c2s[d]
    BY <1>1 DEF Take
  <1>3. ASSUME NEW ms, Answer(c, ms)
        PROVE  s2c'[c] = s2c[c] \o ms /\ \A d \in Conn \ {c} : s2c'[d] = s2c[d]
    BY <1>1, <1>3 DEF Answer
  <1>4. s2c[c] \o <<>> = s2c[c]
    <2>1. PICK S : s2c[c] \in Seq(S)
      BY Facts
    <2> QED
      BY <2>1
  <1> QED
    BY <1>2, <1>3, <1>4 DEF Silent, Arrived

\* Who is served and what it is served with, when it is neither identified nor
\* given its source.
LEMMA ServerFrame ==
  ASSUME IInv, AnswerInv, NEW c \in Conn, ServerNext(c)
  PROVE  /\ client' = client /\ conn[c].pc # "closed"
         /\ \A d \in Conn \ {c} : /\ c2s'[d] = c2s[d] /\ s2c'[d] = s2c[d] /\ conn'[d] = conn[d]
                                  /\ url'[d] = url[d] /\ thread'[d] = thread[d] /\ source'[d] = source[d]
  <1> DEFINE Others == \A d \in Conn \ {c} : c2s'[d] = c2s[d] /\ s2c'[d] = s2c[d] /\ conn'[d] = conn[d]
             Pools == \A d \in Conn \ {c} : url'[d] = url[d] /\ thread'[d] = thread[d] /\ source'[d] = source[d]
  <1>1. UNCHANGED poolVars => Pools
    BY DEF poolVars
  <1>2. /\ \A v : request(c, v) => Pools
        /\ fetch_or_create(c) => Pools
    <2> USE DEF IInv, PoolSound, PoolTypeOK, Goto
    <2>1. ASSUME NEW v, request(c, v) PROVE Pools
      BY <2>1 DEF request
    <2>2. ASSUME fetch_or_create(c) PROVE Pools
      BY <2>2 DEF fetch_or_create, fetch, assert_absent, insert
    <2> QED
      BY <2>1, <2>2
  <1> HIDE DEF Others, Pools
  <1>3. \A type, v : Identified(c, type, v) => Pools
    BY <1>1, <1>2, Moves
  <1>4. Pools
    BY <1>1, <1>2, <1>3 DEF ServerNext, handshake, read_c2, server_connect_app, service_cycle, token_refused,
        identify_client, identify_create_stream_client, find_source, start, await_FCPublish,
        await_createStream, await_publish, acquire_publish, on_publish, publishing, playing, recv_failed,
        read_short,
        Stay
  <1>5. client' = client
    BY DEF ServerNext, handshake, read_c2, server_connect_app, service_cycle, token_refused,
        identify_client, identify_create_stream_client, find_source, start, await_FCPublish,
        await_createStream, await_publish, acquire_publish, on_publish, publishing, playing, recv_failed,
        read_short,
        sessionVars
  <1>6. conn[c].pc # "closed"
    BY DEF ServerNext, handshake, read_c2, server_connect_app, service_cycle, token_refused,
        identify_client, identify_create_stream_client, find_source, start, await_FCPublish,
        await_createStream, await_publish, acquire_publish, on_publish, publishing, playing, recv_failed,
        read_short,
        Received, Pc, Waiting
  <1>7. \A d \in Conn \ {c} : c2s'[d] = c2s[d]
    BY Exchanges DEF ServerNext, handshake, read_c2, server_connect_app, service_cycle, token_refused,
        identify_client, identify_create_stream_client, find_source, start, await_FCPublish,
        await_createStream, await_publish, acquire_publish, on_publish, publishing, playing, recv_failed,
        read_short,
        Received, sessionVars
  <1>8. \A d \in Conn \ {c} : s2c'[d] = s2c[d]
    <2>1. s2c' = s2c \/ Silent \/ \E ms : Answer(c, ms)
      BY DEF ServerNext, handshake, read_c2, server_connect_app, service_cycle, token_refused,
        identify_client, identify_create_stream_client, find_source, start, await_FCPublish,
        await_createStream, await_publish, acquire_publish, on_publish, publishing, playing, recv_failed,
        read_short,
        sessionVars
    <2> QED
      BY <2>1, Exchanges
  <1>9. \A d \in Conn \ {c} : conn'[d] = conn[d]
    <2>1. \/ conn' = conn \/ (\E q : To(c, q)) \/ (\E r : Close(c, r))
          \/ (\E type, v : Identified(c, type, v))
          \/ \E q, h : Shake(c, q, h)
      BY DEF ServerNext, handshake, read_c2, server_connect_app, service_cycle, token_refused,
        identify_client, identify_create_stream_client, find_source, start, await_FCPublish,
        await_createStream, await_publish, acquire_publish, on_publish, publishing, playing, recv_failed,
        read_short,
        sessionVars, Stay, Shake
    <2> QED
      BY <2>1, Moves
  <1> QED
    BY <1>4, <1>5, <1>6, <1>7, <1>8, <1>9 DEF Pools

\* Sources are found, taken and left taken.
LEMMA ServerSources ==
  ASSUME IInv, AnswerInv, ServiceInv, NEW c \in Conn, ServerNext(c)
  PROVE  SourceInv'
  <1> USE DEF poolVars
  <1>1. /\ conn[c].pc # "closed" /\ conn[c].ret # "busy" /\ ServeOk(c)
        /\ \A d \in Conn \ {c} : /\ conn'[d] = conn[d] /\ url'[d] = url[d]
                                 /\ thread'[d] = thread[d] /\ source'[d] = source[d]
    BY ServerFrame DEF ServiceInv, ServiceOk, SourceInv
  <1>2. SourceInv
    BY DEF ServiceInv
  <1>3. CASE find_source(c)
    <2>1. fetch_or_create(c) /\ conn' = conn /\ can_publish' = can_publish
      BY <1>3 DEF find_source, sessionVars
    <2>2. thread[c] \in {"fetch", "assert", "insert"} /\ url[c] \in Url /\ url' = url
      BY <2>1 DEF fetch_or_create, fetch, assert_absent, insert, Goto, IInv, PoolSound
    <2>3. ASSUME NEW s PROVE Publishers(s) \subseteq Publishers(s)'
      BY <1>1, <2>1, <2>2 DEF Publishers
    <2>4. ASSUME NEW v \in Url, pool'[v] # None
          PROVE  url'[pool'[v]] = v /\ thread'[pool'[v]] = "serve"
      <3>1. pool[v] # None => url[pool[v]] = v /\ thread[pool[v]] = "serve" /\ pool[v] \in Conn
        BY <1>2 DEF SourceInv, IInv, PoolSound, PoolTypeOK
      <3>2. CASE pool' = pool
        BY <1>1, <2>2, <2>4, <3>1, <3>2
      <3>3. CASE insert(c)
        <4>1. pool' = [pool EXCEPT ![url[c]] = c] /\ thread' = [thread EXCEPT ![c] = "serve"]
          BY <3>3 DEF insert, Goto
        <4>2. pool'[v] = IF v = url[c] THEN c ELSE pool[v]
          BY <4>1 DEF IInv, PoolSound, PoolTypeOK
        <4>3. thread'[c] = "serve"
          BY <4>1 DEF IInv, PoolSound, PoolTypeOK
        <4> QED
          BY <1>1, <2>2, <2>4, <3>1, <4>2, <4>3
      <3> QED
        BY <2>1, <3>2, <3>3 DEF fetch_or_create, fetch, assert_absent
    <2>5. ASSUME NEW d \in Conn, source'[d] # None
          PROVE  thread'[d] # "idle" /\ url'[source'[d]] = url'[d] /\ thread'[source'[d]] = "serve"
      <3>1. source[d] # None => /\ thread[d] # "idle" /\ url[source[d]] = url[d]
                                /\ thread[source[d]] = "serve" /\ source[d] \in Conn
        BY <1>2 DEF SourceInv, IInv, PoolSound, PoolTypeOK
      <3>2. \A e \in Conn : thread[e] = "serve" => thread'[e] = "serve"
        BY <1>1, <2>2
      <3>3. thread'[c] # "idle"
        BY <2>1 DEF fetch_or_create, fetch, assert_absent, insert, Goto, IInv, PoolSound, PoolTypeOK
      <3>4. CASE d # c \/ source'[d] = source[d]
        BY <1>1, <2>2, <2>5, <3>1, <3>2, <3>3, <3>4
      <3>5. CASE d = c /\ source'[c] = pool[url[c]]
        <4>1. pool[url[c]] # None /\ url[pool[url[c]]] = url[c] /\ thread[pool[url[c]]] = "serve"
              /\ pool[url[c]] \in Conn
          BY <1>2, <2>2, <2>5, <3>5 DEF SourceInv, IInv, PoolSound, PoolTypeOK
        <4> QED
          BY <2>2, <3>2, <3>3, <3>5, <4>1
      <3>6. CASE d = c /\ source'[c] = c /\ insert(c)
        <4>1. thread'[c] = "serve"
          BY <3>6 DEF insert, Goto, IInv, PoolSound, PoolTypeOK
        <4> QED
          BY <2>2, <3>6, <4>1
      <3>7. source'[c] = source[c] \/ source'[c] = pool[url[c]] \/ (source'[c] = c /\ insert(c))
        BY <2>1 DEF fetch_or_create, fetch, assert_absent, insert, IInv, PoolSound, PoolTypeOK
      <3> QED
        BY <3>4, <3>5, <3>6, <3>7
    <2>6. ASSUME NEW d \in Conn, conn'[d].ret = "busy" PROVE d # c
      BY <1>1, <2>1, <2>6
    <2> QED
      BY <1>1, <1>2, <2>1, <2>3, <2>4, <2>6, <2>5 DEF SourceInv
  <1>4. CASE acquire_publish(c)
    <2>1. conn[c].pc = "acquire" /\ UNCHANGED <<poolVars, can_publish>>
      BY <1>4 DEF acquire_publish, Pc
    <2>2. thread[c] = "serve"
      BY <1>1, <2>1 DEF ServeOk, Serving, Pc
    <2>3. source[c] \in Conn
      BY <2>2 DEF IInv, PoolSound, PoolTypeOK
    <2>4. ASSUME NEW s PROVE Publishers(s) \subseteq Publishers(s)'
      BY <1>1, <2>1 DEF Publishers
    <2>5. conn'[c].ret = "busy" => conn'[c].pc = "closed" /\ Publishers(source[c]) # {}
      <3>1. CASE can_publish[source[c]]
        BY <1>1, <1>4, <3>1, Moves DEF acquire_publish
      <3>2. CASE ~can_publish[source[c]]
        BY <1>2, <1>4, <2>3, <3>2, Moves DEF acquire_publish, SourceInv
      <3> QED
        BY <3>1, <3>2
    <2>6. ASSUME NEW d \in Conn, conn'[d].ret = "busy"
          PROVE  conn'[d].pc = "closed" /\ thread[d] = "serve" /\ Publishers(source[d]) # {}
      <3>1. CASE d = c
        BY <2>2, <2>5, <2>6, <3>1
      <3>2. CASE d # c
        BY <1>1, <1>2, <2>6, <3>2 DEF SourceInv
      <3> QED
        BY <3>1, <3>2
    <2> QED
      BY <1>2, <2>1, <2>4, <2>6 DEF SourceInv
  <1>5. CASE on_publish(c)
    <2>1. /\ conn[c].pc = "on_publish" /\ UNCHANGED poolVars /\ To(c, "publishing")
          /\ can_publish' = [can_publish EXCEPT ![source[c]] = FALSE]
      BY <1>5 DEF on_publish, Pc
    <2>2. thread[c] = "serve" /\ conn'[c].pc = "publishing" /\ conn'[c].ret # "busy"
      BY <1>1, <2>1, Moves DEF ServeOk, Serving, Pc
    <2>3. source[c] \in Conn
      BY <2>2 DEF IInv, PoolSound, PoolTypeOK
    <2>4. ASSUME NEW s PROVE Publishers(s) \subseteq Publishers(s)'
      BY <1>1, <2>1 DEF Publishers
    <2>5. c \in Publishers(source[c])'
      BY <2>1, <2>2 DEF Publishers
    <2>6. ASSUME NEW s \in Conn, ~can_publish'[s] PROVE Publishers(s)' # {}
      <3>1. CASE s = source[c]
        BY <2>1, <2>5, <3>1
      <3>2. CASE s # source[c]
        <4>1. ~can_publish[s]
          BY <1>2, <2>1, <2>6, <3>2 DEF SourceInv
        <4> QED
          BY <1>2, <2>4, <4>1 DEF SourceInv
      <3> QED
        BY <3>1, <3>2
    <2>7. can_publish' \in [Conn -> BOOLEAN]
      BY <1>2, <2>1 DEF SourceInv
    <2>8. ASSUME NEW d \in Conn, conn'[d].ret = "busy"
          PROVE  conn'[d].pc = "closed" /\ thread[d] = "serve" /\ Publishers(source[d])' # {}
      <3>1. d # c
        BY <2>2, <2>8
      <3> QED
        BY <1>1, <1>2, <2>1, <2>4, <2>8, <3>1 DEF SourceInv
    <2> QED
      BY <1>2, <2>1, <2>6, <2>7, <2>8 DEF SourceInv
  <1>6. CASE UNCHANGED <<poolVars, can_publish>> /\ conn'[c].ret # "busy"
             /\ (conn[c].pc \in {"publishing", "join"} => conn'[c].pc \in {"publishing", "join"})
    BY <1>1, <1>2, <1>6, SourceKept
  <1>7. ASSUME NEW v, request(c, v), can_publish' = can_publish, conn'[c].ret # "busy",
               conn[c].pc \notin {"publishing", "join"}
        PROVE  SourceInv'
    <2>1. thread[c] = "idle" /\ pool' = pool /\ source' = source
      BY <1>7 DEF request, Goto
    <2>2. ASSUME NEW s PROVE Publishers(s) \subseteq Publishers(s)'
      BY <1>1, <1>7, <2>1 DEF Publishers
    <2>3. ASSUME NEW w \in Url, pool[w] # None
          PROVE  url'[pool[w]] = w /\ thread'[pool[w]] = "serve"
      <3>1. url[pool[w]] = w /\ thread[pool[w]] = "serve" /\ pool[w] \in Conn
        BY <1>2, <2>3 DEF SourceInv, IInv, PoolSound, PoolTypeOK
      <3> QED
        BY <1>1, <2>1, <3>1
    <2>4. ASSUME NEW d \in Conn, conn'[d].ret = "busy" PROVE d # c
      BY <1>7, <2>4
    <2>5. ASSUME NEW d \in Conn, source[d] # None
          PROVE  thread'[d] # "idle" /\ url'[source[d]] = url'[d] /\ thread'[source[d]] = "serve"
      <3>1. /\ thread[d] # "idle" /\ url[source[d]] = url[d]
            /\ thread[source[d]] = "serve" /\ source[d] \in Conn
        BY <1>2, <2>5 DEF SourceInv, IInv, PoolSound, PoolTypeOK
      <3> QED
        BY <1>1, <2>1, <3>1
    <2> QED
      BY <1>1, <1>2, <1>7, <2>1, <2>2, <2>3, <2>4, <2>5 DEF SourceInv
  <1>8. CASE identify_client(c) \/ identify_create_stream_client(c)
    <2>1. /\ conn[c].pc \in {"identify", "identify_create_stream"} /\ can_publish' = can_publish
          /\ (\E q : Stay(c, q)) \/ (\E type, v : Identified(c, type, v))
      BY <1>8 DEF identify_client, identify_create_stream_client, Received, Pc
    <2>2. conn'[c].ret # "busy"
      BY <1>1, <2>1, Moves DEF Stay
    <2>3. UNCHANGED poolVars \/ \E v : request(c, v)
      BY <2>1, Moves DEF Stay
    <2> QED
      BY <1>6, <1>7, <2>1, <2>2, <2>3
  <1>9. CASE \/ handshake(c) \/ read_c2(c) \/ server_connect_app(c) \/ service_cycle(c)
             \/ token_refused(c) \/ start(c) \/ await_FCPublish(c) \/ await_createStream(c)
             \/ await_publish(c) \/ publishing(c) \/ playing(c) \/ recv_failed(c) \/ read_short(c)
    <2>1. UNCHANGED <<poolVars, can_publish>>
      BY <1>9 DEF handshake, read_c2, server_connect_app, service_cycle, token_refused, start,
         await_FCPublish, await_createStream, await_publish, publishing, playing, recv_failed, read_short
    <2>2. \/ conn' = conn \/ (\E q : To(c, q)) \/ (\E q, h : Shake(c, q, h))
          \/ \E r \in {"plain", "tcurl", "token", "recv", "short"} : Close(c, r)
      BY <1>9 DEF handshake, read_c2, server_connect_app, service_cycle, token_refused, start,
         await_FCPublish, await_createStream, await_publish, publishing, playing, recv_failed, read_short, Shake
    <2>3. conn'[c].ret # "busy"
      BY <1>1, <2>2, Moves
    <2>4. \/ conn[c].pc \notin {"publishing", "join"} \/ conn' = conn \/ To(c, "join")
      BY <1>9 DEF handshake, read_c2, server_connect_app, service_cycle, token_refused, start,
         await_FCPublish, await_createStream, await_publish, publishing, playing, recv_failed, read_short,
         Received, Pc, Waiting
    <2>5. conn[c].pc \in {"publishing", "join"} => conn'[c].pc \in {"publishing", "join"}
      BY <2>4, Moves
    <2> QED
      BY <1>6, <2>1, <2>3, <2>5
  <1> QED
    BY <1>3, <1>4, <1>5, <1>8, <1>9 DEF ServerNext

\* The connection talks with its client.
LEMMA Conversing ==
  ASSUME IInv, AnswerInv, NEW c \in Conn, ServiceOk(c), conn[c].pc \notin {"handshake", "closed"},
         conn[c].pc = "c2" => c2s[c] # <<>>
  PROVE  LET kind == client[c].kind
             pos  == client[c].pos
             pc   == conn[c].pc
         IN  /\ kind \in ClientKind /\ client[c].state \in {"run", "left", "refused"}
             /\ conn[c].ret = "ok" /\ Fine(s2c[c]) /\ ServeOk(c)
             /\ pos \in 1..Len(ScriptOf(kind, client[c].url)) + 1
             /\ \E k \in 0..Sent(kind, pos) :
                   /\ Heard(kind, client[c].url, pos, pc, conn[c].ret, c2s[c], s2c[c], k)
                   /\ pc # "c2" => pc \in Stage(kind, k)
  <1>1. client[c].kind \in ClientKind
    BY Facts
  <1>2. /\ client[c].state \in {"run", "left", "refused"}
        /\ Talk(client[c].kind, client[c].url, client[c].pos, conn[c].pc, conn[c].ret, c2s[c], s2c[c])
    BY DEF ServiceOk, TalkOk, Shaking
  <1> QED
    BY <1>1, <1>2 DEF Talk, Heard, ServiceOk

\* The next call of the client arrives.
LEMMA NextCall ==
  ASSUME NEW kind \in ClientKind, NEW u, NEW pos \in 1..Len(ScriptOf(kind, u)) + 1,
         NEW S, NEW up \in Seq(S), up # <<>>, NEW pc, pc # "c2", NEW ret, NEW down,
         NEW k \in 0..Sent(kind, pos), Heard(kind, u, pos, pc, ret, up, down, k)
  PROVE  k \in Nat /\ k \in 0..Total(kind) - 1 /\ Head(up) = Call(kind, u, k + 1)
  BY PendingNext DEF Heard

\* It receives what the client said next.
LEMMA Arrival ==
  ASSUME IInv, AnswerInv, NEW c \in Conn, ServiceOk(c), conn[c].pc \notin {"handshake", "closed", "c2"},
         NEW m \in Arrived(c)
  PROVE  LET kind == client[c].kind
             pos  == client[c].pos
             pc   == conn[c].pc
         IN  \E k \in 0..Sent(kind, pos) :
                /\ Heard(kind, client[c].url, pos, pc, conn[c].ret, c2s[c], s2c[c], k)
                /\ pc \in Stage(kind, k)
                /\ k \in 0..Total(kind) - 1 /\ k \in Nat /\ m = Call(kind, client[c].url, k + 1)
                /\ c2s[c] # <<>>
  <1> DEFINE kind == client[c].kind
             u == client[c].url
             pos == client[c].pos
             pc == conn[c].pc
  <1>1. kind \in ClientKind /\ pos \in 1..Len(ScriptOf(kind, u)) + 1
    BY Conversing
  <1>2. PICK k \in 0..Sent(kind, pos) :
          Heard(kind, u, pos, pc, conn[c].ret, c2s[c], s2c[c], k) /\ pc \in Stage(kind, k)
    BY Conversing
  <1>3. c2s[c] # <<>> /\ m = Head(c2s[c])
    BY Exchanges
  <1>4. PICK S : c2s[c] \in Seq(S)
    BY Facts
  <1> HIDE DEF kind, u, pos, pc
  <1>5. pc # "c2"
    BY DEF pc
  <1>6. k \in Nat /\ k \in 0..Total(kind) - 1 /\ Head(c2s[c]) = Call(kind, u, k + 1)
    BY <1>1, <1>2, <1>3, <1>4, <1>5, NextCall
  <1> QED
    BY <1>2, <1>3, <1>6 DEF kind, u, pos, pc

\* It answers it.
LEMMA AnswerStep ==
  ASSUME IInv, AnswerInv, NEW c \in Conn, ServiceOk(c), client' = client,
         conn[c].pc \notin {"handshake", "closed", "c2", "service_cycle", "start"},
         NEW k \in 0..Sent(client[c].kind, client[c].pos),
         Heard(client[c].kind, client[c].url, client[c].pos, conn[c].pc, conn[c].ret, c2s[c], s2c[c], k),
         c2s[c] # <<>>, c2s'[c] = Tail(c2s[c]), NEW ms, Fine(ms), s2c'[c] = s2c[c] \o ms,
         conn'[c].pc \in Stage(client[c].kind, k + 1), conn'[c].ret = conn[c].ret,
         \/ Unanswered(client[c].kind, k + 1)
         \/ conn'[c].pc \in {"start", "service_cycle"}
         \/ \E w : AnsweredBy(client[c].kind, k + 1, w) /\ Told(ms, w),
         Told(ms, "Start") \/ Begun(conn[c].pc, "ok") => Begun(conn'[c].pc, "ok")
  PROVE  TalkOk(c)' /\ Fine(s2c'[c])
  <1> DEFINE kind == client[c].kind
             u == client[c].url
             pos == client[c].pos
             pc == conn[c].pc
             q == conn'[c].pc
  <1>1. /\ kind \in ClientKind /\ pos \in 1..Len(ScriptOf(kind, u)) + 1 /\ conn[c].ret = "ok"
        /\ client[c].state \in {"run", "left", "refused"} /\ Fine(s2c[c])
    BY Conversing
  <1>2. PICK S : c2s[c] \in Seq(S)
    BY Facts
  <1>3. PICK T : s2c[c] \in Seq(T)
    BY Facts
  <1>4. PICK R : ms \in Seq(R)
    BY DEF Fine
  <1>5. AnswerTo(kind, pos) = k + 1 => q \in {"start", "service_cycle"} \/ Told(ms, Awaits(kind, pos))
    <2>1. pos \in 1..Never - 1
      BY <1>1, AnswerType
    <2> QED
      BY <2>1 DEF Unanswered, AnsweredBy
  <1>6. Talk(kind, u, pos, q, "ok", Tail(c2s[c]), s2c[c] \o ms)
    <2> HIDE DEF kind, u, pos, q
    <2>1. Heard(kind, u, pos, pc, "ok", c2s[c], s2c[c], k) /\ k \in 0..Sent(kind, pos)
      BY <1>1 DEF kind, u, pos
    <2>2. q \in Stage(kind, k + 1) /\ (Told(ms, "Start") \/ Begun(pc, "ok") => Begun(q, "ok"))
      BY DEF kind, q
    <2> QED
      BY <1>1, <1>2, <1>3, <1>4, <1>5, <2>1, <2>2, HeardAnswer
  <1>7. TalkOk(c)'
    BY <1>1, <1>6 DEF TalkOk
  <1> QED
    BY <1>1, <1>7, FineMore

\* It refuses it.
LEMMA RefuseStep ==
  ASSUME IInv, AnswerInv, NEW c \in Conn, ServiceOk(c), client' = client,
         conn[c].pc \notin Publishing \cup {"handshake", "closed", "c2", "playing", "join"},
         NEW k \in 0..Sent(client[c].kind, client[c].pos),
         Heard(client[c].kind, client[c].url, client[c].pos, conn[c].pc, conn[c].ret, c2s[c], s2c[c], k),
         c2s[c] # <<>>, c2s'[c] = Tail(c2s[c]), NEW ms, Fine(ms), s2c'[c] = s2c[c] \o ms,
         conn'[c].pc = "closed", conn'[c].ret \in {"tcurl", "stream"}, ~Told(ms, "Start")
  PROVE  TalkOk(c)' /\ Fine(s2c'[c])
  <1> DEFINE kind == client[c].kind
             u == client[c].url
             pos == client[c].pos
             pc == conn[c].pc
             r == conn'[c].ret
  <1>1. /\ kind \in ClientKind /\ pos \in 1..Len(ScriptOf(kind, u)) + 1 /\ conn[c].ret = "ok"
        /\ client[c].state \in {"run", "left", "refused"} /\ Fine(s2c[c])
    BY Conversing
  <1>2. PICK S : c2s[c] \in Seq(S)
    BY Facts
  <1>3. PICK T : s2c[c] \in Seq(T)
    BY Facts
  <1>4. PICK R : ms \in Seq(R)
    BY DEF Fine
  <1>5. Talk(kind, u, pos, "closed", r, Tail(c2s[c]), s2c[c] \o ms)
    <2>1. ~Begun(pc, "ok")
      BY DEF Begun
    <2> HIDE DEF kind, u, pos, r
    <2>2. Heard(kind, u, pos, pc, "ok", c2s[c], s2c[c], k) /\ k \in 0..Sent(kind, pos)
      BY <1>1 DEF kind, u, pos
    <2>3. r \in {"tcurl", "stream"}
      BY DEF r
    <2> QED
      BY <1>1, <1>2, <1>3, <1>4, <2>1, <2>2, <2>3, HeardRefuse
  <1>6. TalkOk(c)'
    BY <1>1, <1>5 DEF TalkOk
  <1> QED
    BY <1>1, <1>6, FineMore

\* It goes on without receiving anything.
LEMMA OnStep ==
  ASSUME IInv, AnswerInv, NEW c \in Conn, ServiceOk(c), client' = client, c2s'[c] = c2s[c],
         conn[c].pc \notin {"handshake", "closed", "c2"},
         NEW k \in 0..Sent(client[c].kind, client[c].pos),
         Heard(client[c].kind, client[c].url, client[c].pos, conn[c].pc, conn[c].ret, c2s[c], s2c[c], k),
         NEW ms, Fine(ms), s2c'[c] = s2c[c] \o ms, conn'[c].pc # "c2",
         IF conn'[c].pc = "closed" THEN conn'[c].ret \in {"tcurl", "token", "stream", "busy", "recv", "short"}
                                   ELSE conn'[c].ret = "ok" /\ conn'[c].pc \in Stage(client[c].kind, k),
         conn'[c].pc \notin {"closed", "service_cycle", "start"} /\ k >= AnswerTo(client[c].kind, client[c].pos) =>
             \/ Told(s2c[c], Awaits(client[c].kind, client[c].pos))
             \/ Told(ms, Awaits(client[c].kind, client[c].pos)),
         Told(ms, "Start") \/ Begun(conn[c].pc, conn[c].ret) => Begun(conn'[c].pc, conn'[c].ret)
  PROVE  TalkOk(c)' /\ Fine(s2c'[c])
  <1> DEFINE kind == client[c].kind
             u == client[c].url
             pos == client[c].pos
             pc == conn[c].pc
             q == conn'[c].pc
             r == conn'[c].ret
  <1>1. /\ kind \in ClientKind /\ pos \in 1..Len(ScriptOf(kind, u)) + 1
        /\ client[c].state \in {"run", "left", "refused"} /\ Fine(s2c[c])
    BY Conversing
  <1>2. PICK T : s2c[c] \in Seq(T)
    BY Facts
  <1>3. PICK R : ms \in Seq(R)
    BY DEF Fine
  <1>4. Talk(kind, u, pos, q, r, c2s[c], s2c[c] \o ms)
    <2>1. /\ Heard(kind, u, pos, pc, conn[c].ret, c2s[c], s2c[c], k) /\ k \in 0..Sent(kind, pos)
          /\ pc # "c2" /\ q # "c2"
          /\ IF q = "closed" THEN r \in {"tcurl", "token", "stream", "busy", "recv", "short"}
                             ELSE r = "ok" /\ q \in Stage(kind, k)
          /\ q \notin {"closed", "service_cycle", "start"} /\ k >= AnswerTo(kind, pos) =>
                 Told(s2c[c], Awaits(kind, pos)) \/ Told(ms, Awaits(kind, pos))
          /\ Told(ms, "Start") \/ Begun(pc, conn[c].ret) => Begun(q, r)
      OBVIOUS
    <2> HIDE DEF kind, u, pos, q, r, pc
    <2> QED
      BY <1>1, <1>2, <1>3, <2>1, HeardOn
  <1>5. TalkOk(c)'
    BY <1>1, <1>4 DEF TalkOk
  <1> QED
    BY <1>1, <1>5, FineMore

\* Where a connection that talks with its client is.
LEMMA TalkPlace ==
  ASSUME NEW kind \in ClientKind, NEW u, NEW pos, NEW pc, NEW ret, NEW up, NEW down,
         Talk(kind, u, pos, pc, ret, up, down)
  PROVE  pc # "handshake" /\ (pc = "c2" => up # <<>>)
  <1>1. PICK k \in 0..Sent(kind, pos) : Heard(kind, u, pos, pc, ret, up, down, k)
    BY DEF Talk
  <1>2. Sent(kind, pos) \in Nat
    <2>1. Total(kind) \in Int
      BY DEF Total
    <2> QED
      BY <2>1, SentBound DEF Talk
  <1>3. k \in Nat
    BY <1>2
  <1>4. pc # "handshake"
    BY <1>1, <1>3, Stages DEF Heard
  <1>5. pc = "c2" => Len(up) = 1 + Sent(kind, pos) - k
    BY <1>1 DEF Heard, Pending
  <1> QED
    BY <1>2, <1>4, <1>5

\* The handshake is over.
LEMMA HeardC2 ==
  ASSUME NEW kind \in ClientKind, NEW u, NEW pos \in 1..Len(ScriptOf(kind, u)) + 1,
         NEW S, NEW up \in Seq(S), NEW T, NEW down \in Seq(T), NEW ret,
         NEW k \in 0..Sent(kind, pos), Heard(kind, u, pos, "c2", ret, up, down, k)
  PROVE  /\ Talk(kind, u, pos, "connect_app", "ok", Tail(up), down \o <<>>)
         /\ Talk(kind, u, pos, "closed", "short", Tail(up), down \o <<>>)
  <1> DEFINE n == Sent(kind, pos)
  <1>1. n \in Nat
    <2>1. Total(kind) \in Int
      BY DEF Total
    <2> QED
      BY <2>1, SentBound
  <1>2. k = 0 /\ Len(up) = 1 + n - k /\ \A i \in 1..n - k : up[1 + i] = Call(kind, u, k + i)
    BY DEF Heard, Pending
  <1>3. /\ Pending(kind, u, pos, "connect_app", Tail(up), k)
        /\ Pending(kind, u, pos, "closed", Tail(up), k)
    <2> HIDE DEF n
    <2>1. Len(Tail(up)) = n - k /\ \A i \in 1..n - k : Tail(up)[i] = up[i + 1]
      BY <1>1, <1>2
    <2>2. ASSUME NEW i \in 1..n - k PROVE Tail(up)[i] = Call(kind, u, k + i)
      <3>1. i + 1 = 1 + i
        BY <1>1, <1>2
      <3> QED
        BY <1>2, <2>1, <3>1
    <2>3. 0 + (n - k) = n - k /\ \A i \in 1..n - k : 0 + i = i
      BY <1>1, <1>2
    <2>4. Len(Tail(up)) = 0 + n - k
      BY <1>1, <1>2, <2>1
    <2> QED
      BY <2>2, <2>3, <2>4 DEF Pending, n
  <1>4. "connect_app" \in Stage(kind, k) /\ k \in 0..n /\ ~(k >= AnswerTo(kind, pos))
    BY <1>1, <1>2, AnswerType DEF Stage
  <1>5. ~Told(<<>>, "Start") /\ ~Begun("c2", ret)
    BY Replies DEF Begun, Heard, Publishing
  <1>6. <<>> \in Seq(S)
    OBVIOUS
  <1>7. Talk(kind, u, pos, "connect_app", "ok", Tail(up), down \o <<>>)
    BY <1>3, <1>4, <1>5, <1>6, HeardMove DEF n
  <1>8. Talk(kind, u, pos, "closed", "short", Tail(up), down \o <<>>)
    BY <1>3, <1>4, <1>5, <1>6, HeardMove DEF n
  <1> QED
    BY <1>7, <1>8

\* Only what is not plain text fails the handshake.
LEMMA HandshakeFails ==
  ASSUME NEW ssl, NEW m, NEW o, ~ServerAnswer(ssl, m, o).ok
  PROVE  m.plain # Plain
  BY DEF ServerAnswer, simple_answer

\* A publisher goes through these stages without receiving anything.
LEMMA PublishingStages ==
  ASSUME NEW kind \in ClientKind, NEW k \in Nat
  PROVE  /\ "acquire" \in Stage(kind, k) => "on_publish" \in Stage(kind, k)
         /\ "on_publish" \in Stage(kind, k) => "publishing" \in Stage(kind, k)
  <1> USE DEF Stage, Publishing
  <1>1. CASE kind \in {"play", "direct"}
    BY <1>1
  <1>2. CASE kind = "flash"
    BY <1>2
  <1>3. CASE kind = "fmle"
    BY <1>3
  <1>4. CASE kind = "haivision"
    BY <1>4
  <1>5. CASE kind \in {"idle", "nameless", "nowhere"}
    BY <1>5
  <1> QED
    BY <1>1, <1>2, <1>3, <1>4, <1>5 DEF ClientKind

\* Who is served stays served.
LEMMA ServeKept ==
  ASSUME NEW c \in Conn, ServeOk(c), client' = client, UNCHANGED poolVars,
         conn'[c].ret = "stream" => client[c].kind = "nameless",
         Serving(c)' => /\ Serving(c) /\ conn'[c].type = conn[c].type
                        /\ conn[c].pc = "start" => thread[c] = "serve"
  PROVE  ServeOk(c)'
  BY DEF ServeOk, poolVars

\* The connection receives the next call and is where it brings it.
LEMMA TakeStep ==
  ASSUME IInv, AnswerInv, NEW c \in Conn, ServiceOk(c), client' = client, UNCHANGED poolVars,
         conn[c].pc \notin {"handshake", "closed", "c2", "service_cycle", "start"},
         NEW k \in 0..Sent(client[c].kind, client[c].pos),
         Heard(client[c].kind, client[c].url, client[c].pos, conn[c].pc, conn[c].ret, c2s[c], s2c[c], k),
         c2s[c] # <<>>, c2s'[c] = Tail(c2s[c]), NEW ms, Fine(ms), s2c'[c] = s2c[c] \o ms,
         conn'[c].pc \in Stage(client[c].kind, k + 1), conn'[c].ret = conn[c].ret,
         conn'[c].type = conn[c].type,
         \/ Unanswered(client[c].kind, k + 1)
         \/ conn'[c].pc \in {"start", "service_cycle"}
         \/ \E w : AnsweredBy(client[c].kind, k + 1, w) /\ Told(ms, w),
         Told(ms, "Start") \/ Begun(conn[c].pc, "ok") => Begun(conn'[c].pc, "ok"),
         Serving(c)' => Serving(c)
  PROVE  ServiceOk(c)'
  <1>1. TalkOk(c)' /\ Fine(s2c'[c])
    BY AnswerStep
  <1>2. conn'[c].ret # "stream"
    BY Conversing
  <1>3. ServeOk(c)'
    BY <1>2, ServeKept DEF ServiceOk
  <1> QED
    BY <1>1, <1>3 DEF ServiceOk

\* The connection refuses the next call.
LEMMA CloseStep ==
  ASSUME IInv, AnswerInv, NEW c \in Conn, ServiceOk(c), client' = client, UNCHANGED poolVars,
         conn[c].pc \notin Publishing \cup {"handshake", "closed", "c2", "playing", "join"},
         NEW k \in 0..Sent(client[c].kind, client[c].pos),
         Heard(client[c].kind, client[c].url, client[c].pos, conn[c].pc, conn[c].ret, c2s[c], s2c[c], k),
         c2s[c] # <<>>, c2s'[c] = Tail(c2s[c]), NEW ms, Fine(ms), s2c'[c] = s2c[c] \o ms,
         conn'[c].pc = "closed", conn'[c].ret \in {"tcurl", "stream"}, ~Told(ms, "Start"),
         conn'[c].ret = "stream" => client[c].kind = "nameless"
  PROVE  ServiceOk(c)'
  <1>1. TalkOk(c)' /\ Fine(s2c'[c])
    BY RefuseStep
  <1>2. ~Serving(c)'
    BY DEF Serving, Pc
  <1>3. ServeOk(c)'
    BY <1>2, ServeKept DEF ServiceOk
  <1> QED
    BY <1>1, <1>3 DEF ServiceOk

\* The connection goes on by itself.
LEMMA GoStep ==
  ASSUME IInv, AnswerInv, NEW c \in Conn, ServiceOk(c), client' = client, UNCHANGED poolVars, c2s'[c] = c2s[c],
         conn[c].pc \notin {"handshake", "closed", "c2"},
         NEW k \in 0..Sent(client[c].kind, client[c].pos),
         Heard(client[c].kind, client[c].url, client[c].pos, conn[c].pc, conn[c].ret, c2s[c], s2c[c], k),
         NEW ms, Fine(ms), s2c'[c] = s2c[c] \o ms, conn'[c].pc # "c2",
         IF conn'[c].pc = "closed" THEN conn'[c].ret \in {"token", "busy"}
                                   ELSE conn'[c].ret = "ok" /\ conn'[c].pc \in Stage(client[c].kind, k),
         conn'[c].pc # "closed" /\ k >= AnswerTo(client[c].kind, client[c].pos) =>
             \/ Told(s2c[c], Awaits(client[c].kind, client[c].pos))
             \/ Told(ms, Awaits(client[c].kind, client[c].pos)),
         Told(ms, "Start") \/ Begun(conn[c].pc, conn[c].ret) => Begun(conn'[c].pc, conn'[c].ret),
         Serving(c)' => /\ Serving(c) /\ conn'[c].type = conn[c].type
                        /\ conn[c].pc = "start" => thread[c] = "serve"
  PROVE  ServiceOk(c)'
  <1>1. TalkOk(c)' /\ Fine(s2c'[c])
    BY OnStep
  <1>2. conn'[c].ret # "stream"
    OBVIOUS
  <1>3. ServeOk(c)'
    BY <1>2, ServeKept DEF ServiceOk
  <1> QED
    BY <1>1, <1>3 DEF ServiceOk

\* The hands are shaken.
LEMMA ShakeTalks ==
  ASSUME IInv, AnswerInv, NEW c \in Conn, ServiceOk(c), handshake(c)
  PROVE  ServiceOk(c)'
  <1>1. PICK m \in Arrived(c), ssl \in Ssl, o \in Offsets :
          /\ Received(c, "handshake")
          /\ \E answer \in {ServerAnswer(ssl, m.arg, o)} :
                IF answer.ok
                THEN /\ Answer(c, <<Bytes("s0s1s2", answer)>>)
                     /\ conn' = [conn EXCEPT ![c].pc = "c2",
                                  ![c].hello = [ssl |-> ssl, s1 |-> answer.s1]]
                ELSE Close(c, "plain") /\ Silent
    BY DEF handshake
  <1>2. client' = client /\ UNCHANGED poolVars
    BY DEF handshake
  <1>3. /\ conn[c].pc = "handshake" /\ c2s'[c] = Tail(c2s[c])
        /\ c2s[c] # <<>> /\ m = Head(c2s[c])
    BY <1>1, Exchanges DEF Received, Pc
  <1>4. /\ client[c].pos = 1 /\ client[c].state \in {"s0s1s2", "refused"} /\ conn[c].ret = "ok"
        /\ Len(c2s[c]) = 1 /\ s2c[c] = <<>>
        /\ c2s[c][1].arg.plain = Plain \/ client[c].schema = Encrypted
    <2>1. ~Talk(client[c].kind, client[c].url, client[c].pos, conn[c].pc, conn[c].ret, c2s[c], s2c[c])
      BY <1>3, Facts, TalkPlace
    <2> QED
      BY <1>3, <2>1 DEF ServiceOk, TalkOk, Shaking
  <1>5. c2s'[c] = <<>> /\ m = c2s[c][1]
    <2>1. PICK S : c2s[c] \in Seq(S)
      BY Facts
    <2>2. PICK up : up = c2s[c]
      OBVIOUS
    <2>3. up \in Seq(S) /\ Len(up) = 1
      BY <1>4, <2>1, <2>2
    <2>4. Tail(up) = <<>> /\ Head(up) = up[1]
      <3>1. up # <<>>
        BY <1>3, <2>2
      <3>2. Tail(up) \in Seq(S) /\ Len(Tail(up)) = 0 /\ Head(up) = up[1]
        BY <2>3, <3>1
      <3> QED
        BY <3>2, EmptySeq
    <2> QED
      BY <1>3, <2>2, <2>4
  <1>6. CASE ServerAnswer(ssl, m.arg, o).ok
    <2> DEFINE a == ServerAnswer(ssl, m.arg, o)
               b == Bytes("s0s1s2", a)
               h == [ssl |-> ssl, s1 |-> a.s1]
    <2>1. Answer(c, <<b>>) /\ Shake(c, "c2", h) /\ b.name = "s0s1s2"
      <3>1. b.name = "s0s1s2"
        BY DEF Bytes
      <3>2. a.ok
        BY <1>6
      <3> HIDE DEF a
      <3>3. \E answer \in {a} :
                IF answer.ok
                THEN /\ Answer(c, <<Bytes("s0s1s2", answer)>>)
                     /\ conn' = [conn EXCEPT ![c].pc = "c2",
                                  ![c].hello = [ssl |-> ssl, s1 |-> answer.s1]]
                ELSE Close(c, "plain") /\ Silent
        BY <1>1 DEF a
      <3>4. /\ Answer(c, <<Bytes("s0s1s2", a)>>)
            /\ conn' = [conn EXCEPT ![c].pc = "c2", ![c].hello = [ssl |-> ssl, s1 |-> a.s1]]
        BY <3>2, <3>3
      <3> QED
        BY <3>1, <3>4 DEF Shake
    <2> HIDE DEF a, b, h
    <2>2. conn'[c].pc = "c2" /\ conn'[c].ret = "ok"
      BY <1>4, <2>1, Moves
    <2>3. s2c'[c] = <<>> \o <<b>>
      BY <1>4, <2>1, Exchanges
    <2>4. s2c'[c] = <<b>>
      BY <2>3
    <2>5. Shaking(client[c].state, client[c].schema, "c2", "ok", <<>>, <<b>>)
      BY <1>4, <2>1 DEF Shaking
    <2>6. Fine(<<b>>)
      BY <2>1, FineFew
    <2>7. TalkOk(c)'
      BY <1>2, <1>4, <1>5, <2>2, <2>4, <2>5 DEF TalkOk
    <2>8. ServeOk(c)'
      BY <2>2 DEF ServeOk, Serving, Pc
    <2> QED
      BY <2>4, <2>6, <2>7, <2>8 DEF ServiceOk
  <1>7. CASE ~ServerAnswer(ssl, m.arg, o).ok
    <2>1. Close(c, "plain") /\ Silent
      BY <1>1, <1>7
    <2>2. conn'[c].pc = "closed" /\ conn'[c].ret = "plain" /\ s2c'[c] = <<>>
      BY <1>4, <2>1, Moves, Exchanges
    <2>3. client[c].schema = Encrypted
      BY <1>4, <1>5, <1>7, HandshakeFails
    <2>4. TalkOk(c)'
      BY <1>2, <1>4, <1>5, <2>2, <2>3 DEF TalkOk, Shaking
    <2>5. ServeOk(c)'
      BY <2>2 DEF ServeOk, Serving, Pc
    <2>6. Fine(<<>>)
      BY Replies
    <2> QED
      BY <2>2, <2>4, <2>5, <2>6 DEF ServiceOk
  <1> QED
    BY <1>6, <1>7

LEMMA C2Talks ==
  ASSUME IInv, AnswerInv, NEW c \in Conn, ServiceOk(c), read_c2(c)
  PROVE  ServiceOk(c)'
  <1>1. /\ conn[c].pc = "c2" /\ c2s[c] # <<>> /\ Take(c) /\ Silent /\ client' = client
        /\ Shake(c, "connect_app", None)
    BY DEF read_c2, Received, Pc, Arrived, Shake
  <1>2. c2s'[c] = Tail(c2s[c]) /\ s2c'[c] = s2c[c] \o <<>> /\ s2c'[c] = s2c[c]
    BY <1>1, Exchanges
  <1>3. /\ client[c].kind \in ClientKind /\ client[c].state \in {"run", "left", "refused"}
        /\ conn[c].ret = "ok" /\ Fine(s2c[c])
        /\ client[c].pos \in 1..Len(ScriptOf(client[c].kind, client[c].url)) + 1
    BY <1>1, Conversing
  <1>4. PICK k \in 0..Sent(client[c].kind, client[c].pos) :
           Heard(client[c].kind, client[c].url, client[c].pos, conn[c].pc, conn[c].ret, c2s[c], s2c[c], k)
    BY <1>1, Conversing
  <1>5. conn'[c].pc = "connect_app" /\ conn'[c].ret = "ok"
    BY <1>1, <1>3, Moves
  <1>6. PICK S : c2s[c] \in Seq(S)
    BY Facts
  <1>7. PICK T : s2c[c] \in Seq(T)
    BY Facts
  <1>8. Talk(client[c].kind, client[c].url, client[c].pos, "connect_app", "ok", Tail(c2s[c]), s2c[c] \o <<>>)
    <2> DEFINE kind == client[c].kind
               u == client[c].url
               pos == client[c].pos
    <2>1. Heard(kind, u, pos, "c2", "ok", c2s[c], s2c[c], k)
      BY <1>1, <1>3, <1>4
    <2>2. kind \in ClientKind /\ pos \in 1..Len(ScriptOf(kind, u)) + 1 /\ k \in 0..Sent(kind, pos)
      BY <1>3
    <2> HIDE DEF kind, u, pos
    <2>3. Talk(kind, u, pos, "connect_app", "ok", Tail(c2s[c]), s2c[c] \o <<>>)
      BY <1>6, <1>7, <2>1, <2>2, HeardC2
    <2> QED
      BY <2>3 DEF kind, u, pos
  <1>9. TalkOk(c)'
    BY <1>1, <1>2, <1>3, <1>5, <1>8 DEF TalkOk
  <1>10. ServeOk(c)'
    BY <1>5 DEF ServeOk, Serving, Pc
  <1> QED
    BY <1>2, <1>3, <1>9, <1>10 DEF ServiceOk

\* A block of the handshake is cut short.
LEMMA ShortTalks ==
  ASSUME IInv, AnswerInv, NEW c \in Conn, ServiceOk(c), read_short(c)
  PROVE  ServiceOk(c)'
  <1> DEFINE kind == client[c].kind
             u == client[c].url
             pos == client[c].pos
  <1>1. /\ conn[c].pc \in {"handshake", "c2"} /\ c2s[c] # <<>> /\ Take(c) /\ Silent /\ client' = client
        /\ Close(c, "short")
    BY DEF read_short, Pc, Arrived
  <1>2. c2s'[c] = Tail(c2s[c]) /\ s2c'[c] = s2c[c] \o <<>> /\ s2c'[c] = s2c[c]
    BY <1>1, Exchanges
  <1>3. conn'[c].pc = "closed" /\ conn'[c].ret = "short"
    BY <1>1, Moves
  <1>4. PICK S : c2s[c] \in Seq(S)
    BY Facts
  <1>5. TalkOk(c)'
    <2>1. CASE conn[c].pc = "handshake"
      <3>1. /\ pos = 1 /\ client[c].state \in {"s0s1s2", "refused"}
            /\ Len(c2s[c]) = 1 /\ s2c[c] = <<>>
        <4>1. ~Talk(kind, u, pos, conn[c].pc, conn[c].ret, c2s[c], s2c[c])
          BY <2>1, Facts, TalkPlace
        <4> QED
          BY <1>1, <2>1, <4>1 DEF ServiceOk, TalkOk, Shaking
      <3>2. c2s'[c] = <<>>
        <4>1. PICK up : up = c2s[c]
          OBVIOUS
        <4>2. Tail(up) \in Seq(S) /\ Len(Tail(up)) = 0
          BY <1>1, <1>4, <3>1, <4>1
        <4>3. Tail(up) = <<>>
          BY <4>2, EmptySeq
        <4> QED
          BY <1>2, <4>1, <4>3
      <3> QED
        BY <1>1, <1>2, <1>3, <3>1, <3>2 DEF TalkOk, Shaking
    <2>2. CASE conn[c].pc = "c2"
      <3>1. /\ kind \in ClientKind /\ client[c].state \in {"run", "left", "refused"}
            /\ pos \in 1..Len(ScriptOf(kind, u)) + 1
        BY <1>1, <2>2, Conversing
      <3>2. PICK k \in 0..Sent(kind, pos) : Heard(kind, u, pos, "c2", conn[c].ret, c2s[c], s2c[c], k)
        BY <1>1, <2>2, Conversing
      <3>3. PICK T : s2c[c] \in Seq(T)
        BY Facts
      <3>4. Talk(kind, u, pos, "closed", "short", Tail(c2s[c]), s2c[c] \o <<>>)
        <4> HIDE DEF kind, u, pos
        <4> QED
          BY <1>4, <3>1, <3>2, <3>3, HeardC2
      <3> QED
        BY <1>1, <1>2, <1>3, <3>1, <3>4 DEF TalkOk
    <2> QED
      BY <1>1, <2>1, <2>2
  <1>6. ServeOk(c)'
    BY <1>3 DEF ServeOk, Serving, Pc
  <1>7. Fine(s2c'[c])
    BY <1>2 DEF ServiceOk
  <1> QED
    BY <1>5, <1>6, <1>7 DEF ServiceOk

\* connect_app and service_cycle.
LEMMA ConnectTalks ==
  ASSUME IInv, AnswerInv, NEW c \in Conn, ServiceOk(c), server_connect_app(c)
  PROVE  ServiceOk(c)'
  <1> DEFINE kind == client[c].kind
             u == client[c].url
  <1>1. PICK m \in Arrived(c) :
          /\ Received(c, "connect_app")
          /\ \/ m.name # "connect" /\ UNCHANGED conn
             \/ m.name = "connect" /\ m.arg = None /\ Close(c, "tcurl")
             \/ m.name = "connect" /\ m.arg # None /\ To(c, "service_cycle")
    BY DEF server_connect_app
  <1>2. client' = client /\ UNCHANGED poolVars /\ Silent
    BY DEF server_connect_app
  <1>3. /\ conn[c].pc = "connect_app" /\ c2s'[c] = Tail(c2s[c]) /\ s2c'[c] = s2c[c] \o <<>>
    BY <1>1, <1>2, Exchanges DEF Received, Pc
  <1>4. PICK k \in 0..Sent(kind, client[c].pos) :
          /\ Heard(kind, u, client[c].pos, conn[c].pc, conn[c].ret, c2s[c], s2c[c], k)
          /\ conn[c].pc \in Stage(kind, k) /\ k \in Nat /\ m = Call(kind, u, k + 1) /\ c2s[c] # <<>>
    BY <1>3, Arrival
  <1>5. kind \in ClientKind
    BY Facts
  <1>6. /\ k = 0 /\ Call(kind, u, 1).name = "connect"
        /\ IF kind = "nowhere" THEN Call(kind, u, 1).arg = None ELSE "service_cycle" \in Stage(kind, 1)
    <2> HIDE DEF kind, u
    <2> QED
      BY <1>3, <1>4, <1>5, AtConnect
  <1>7. k + 1 = 1
    BY <1>6
  <1>8. Fine(<<>>) /\ ~Told(<<>>, "Start") /\ ~Begun("connect_app", "ok")
    BY Replies DEF Begun, Publishing
  <1>9. CASE Close(c, "tcurl")
    <2>1. conn'[c].pc = "closed" /\ conn'[c].ret = "tcurl"
      BY <1>9, Moves
    <2>2. conn[c].pc \notin Publishing \cup {"handshake", "closed", "c2", "playing", "join"}
      BY <1>3 DEF Publishing
    <2> QED
      BY <1>2, <1>3, <1>4, <1>8, <2>1, <2>2, CloseStep
  <1>10. CASE m.arg # None /\ To(c, "service_cycle")
    <2>1. conn'[c].pc = "service_cycle" /\ conn'[c].ret = conn[c].ret /\ conn'[c].type = conn[c].type
      BY <1>10, Moves
    <2>2. conn'[c].pc \in Stage(kind, k + 1)
      BY <1>4, <1>6, <1>7, <1>10, <2>1
    <2>3. ~Serving(c)'
      BY <2>1 DEF Serving, Pc
    <2> QED
      BY <1>2, <1>3, <1>4, <1>8, <2>1, <2>2, <2>3, TakeStep
  <1> QED
    BY <1>1, <1>4, <1>6, <1>7, <1>9, <1>10

LEMMA CycleTalks ==
  ASSUME IInv, AnswerInv, NEW c \in Conn, ServiceOk(c), service_cycle(c) \/ token_refused(c)
  PROVE  ServiceOk(c)'
  <1> DEFINE kind == client[c].kind
             u == client[c].url
             pos == client[c].pos
             refused == set_window_ack_size \o set_peer_bandwidth
             accepted == set_window_ack_size \o set_peer_bandwidth \o set_chunk_size
                             \o response_connect_app \o on_bw_done
  <1>1. /\ conn[c].pc = "service_cycle" /\ client' = client /\ UNCHANGED poolVars /\ c2s'[c] = c2s[c]
        /\ (Answer(c, accepted) /\ To(c, "identify")) \/ (Answer(c, refused) /\ Close(c, "token"))
    BY DEF service_cycle, token_refused, Pc
  <1>2. /\ kind \in ClientKind /\ pos \in 1..Len(ScriptOf(kind, u)) + 1 /\ conn[c].ret = "ok"
    BY <1>1, Conversing
  <1>3. PICK k \in 0..Sent(kind, pos) :
           /\ Heard(kind, u, pos, conn[c].pc, conn[c].ret, c2s[c], s2c[c], k)
           /\ conn[c].pc \in Stage(kind, k)
    BY <1>1, Conversing
  <1>4. /\ Fine(accepted) /\ Told(accepted, "ConnectAppRes") /\ ~Told(accepted, "Start")
        /\ Fine(refused) /\ ~Told(refused, "Start") /\ ~Begun("service_cycle", "ok")
    BY ServiceReplies DEF Begun, Publishing
  <1> HIDE DEF accepted, refused
  <1>5. k = 1 /\ "identify" \in Stage(kind, k)
    <2> HIDE DEF kind, u, pos
    <2>1. Sent(kind, pos) \in Nat
      <3>1. Total(kind) \in Int
        BY DEF Total
      <3> QED
        BY <1>2, <3>1, SentBound
    <2>2. k = 1
      BY <1>1, <1>2, <1>3, <2>1, Stages
    <2>3. kind # "nowhere"
      BY <1>1, <1>3, <2>2 DEF Stage
    <2> QED
      BY <1>2, <2>2, <2>3, EarlyStages
  <1>6. k >= AnswerTo(kind, pos) => Awaits(kind, pos) = "ConnectAppRes"
    <2> HIDE DEF kind, u, pos
    <2>1. pos \in 1..Never - 1 /\ AnswerTo(kind, pos) \in Nat \ {0}
      BY <1>2, AnswerType
    <2>2. AnsweredBy(kind, 1, "ConnectAppRes")
      BY <1>2, AnswersTo
    <2> QED
      BY <1>5, <2>1, <2>2 DEF AnsweredBy
  <1>7. CASE Answer(c, accepted) /\ To(c, "identify")
    <2>1. conn'[c].pc = "identify" /\ conn'[c].ret = "ok" /\ s2c'[c] = s2c[c] \o accepted
      BY <1>2, <1>7, Moves, Exchanges
    <2>2. ~Serving(c)'
      BY <2>1 DEF Serving, Pc
    <2> QED
      BY <1>1, <1>2, <1>3, <1>4, <1>5, <1>6, <2>1, <2>2, GoStep
  <1>8. CASE Answer(c, refused) /\ Close(c, "token")
    <2>1. conn'[c].pc = "closed" /\ conn'[c].ret = "token" /\ s2c'[c] = s2c[c] \o refused
      BY <1>8, Moves, Exchanges
    <2>2. ~Serving(c)'
      BY <2>1 DEF Serving, Pc
    <2> QED
      BY <1>1, <1>2, <1>3, <1>4, <2>1, <2>2, GoStep
  <1> QED
    BY <1>1, <1>7, <1>8

\* Where the client is identified.
LEMMA IdentifiedTalks ==
  ASSUME IInv, AnswerInv, NEW c \in Conn, ServiceOk(c), client' = client,
         conn[c].pc \in {"identify", "identify_create_stream"},
         NEW k \in 0..Sent(client[c].kind, client[c].pos),
         Heard(client[c].kind, client[c].url, client[c].pos, conn[c].pc, conn[c].ret, c2s[c], s2c[c], k),
         c2s[c] # <<>>, c2s'[c] = Tail(c2s[c]), NEW ms, Fine(ms), s2c'[c] = s2c[c] \o ms,
         ~Told(ms, "Start"), NEW type, NEW v, Identified(c, type, v),
         \/ v = None /\ client[c].kind = "nameless"
         \/ /\ v = client[c].url /\ type = Intended(client[c].kind)
            /\ "start" \in Stage(client[c].kind, k + 1)
  PROVE  ServiceOk(c)'
  <1>1. conn[c].pc \notin Publishing \cup {"handshake", "closed", "c2", "playing", "join", "service_cycle", "start"}
    BY DEF Publishing
  <1>2. CASE v = None
    <2>1. UNCHANGED poolVars /\ conn'[c].pc = "closed" /\ conn'[c].ret = "stream"
      BY <1>2, Moves
    <2>2. client[c].url # None
      BY PoolAssumption DEF IInv, ClientSound, ClientType
    <2> QED
      BY <1>1, <1>2, <2>1, <2>2, CloseStep
  <1>3. CASE v # None
    <2>1. /\ request(c, v) /\ conn'[c].pc = "start" /\ conn'[c].type = type /\ conn'[c].ret = conn[c].ret
      BY <1>3, Moves
    <2>2. url'[c] = v
      BY <2>1 DEF request, IInv, PoolSound, PoolTypeOK
    <2>3. ~Begun(conn[c].pc, "ok")
      BY DEF Begun, Publishing
    <2>4. TalkOk(c)' /\ Fine(s2c'[c])
      BY <1>1, <1>3, <2>1, <2>3, AnswerStep
    <2>5. conn'[c].ret # "stream"
      BY <2>1, Conversing
    <2>6. ServeOk(c)'
      BY <1>3, <2>1, <2>2, <2>5 DEF ServeOk, Pc
    <2> QED
      BY <2>4, <2>6 DEF ServiceOk
  <1> QED
    BY <1>2, <1>3

LEMMA IdentifyTalks ==
  ASSUME IInv, AnswerInv, NEW c \in Conn, ServiceOk(c), identify_client(c)
  PROVE  ServiceOk(c)'
  <1> DEFINE kind == client[c].kind
             u == client[c].url
  <1>1. PICK m \in Arrived(c) :
        /\ Received(c, "identify")
        /\ CASE m.name = "createStream" ->
                  Answer(c, <<Result(m.tid, "CreateStreamRes")>>)
                  /\ Stay(c, "identify_create_stream")
             [] m.name \in FMLEStart ->
                  Answer(c, <<Result(m.tid, "FMLEStartRes")>>)
                  /\ Identified(c, "fmle", m.arg)
             [] m.name = "play" -> Silent /\ Identified(c, "play", m.arg)
             [] m.name \in {"_checkbw", "getLength"} ->
                  Answer(c, <<Result(m.tid, "CallRes")>>) /\ Stay(c, "identify")
             [] OTHER -> Silent /\ Stay(c, "identify")
        /\ UNCHANGED <<client, can_publish>>
    BY DEF identify_client
  <1>2. /\ m.name = "createStream" =>
              Answer(c, <<Result(m.tid, "CreateStreamRes")>>) /\ Stay(c, "identify_create_stream")
        /\ m.name = "releaseStream" =>
              Answer(c, <<Result(m.tid, "FMLEStartRes")>>) /\ Identified(c, "fmle", m.arg)
        /\ m.name = "play" => Silent /\ Identified(c, "play", m.arg)
        /\ m.name = "_checkbw" => Answer(c, <<Result(m.tid, "CallRes")>>) /\ Stay(c, "identify")
        /\ m.name = "control" => Silent /\ Stay(c, "identify")
    BY <1>1 DEF FMLEStart
  <1>3. conn[c].pc = "identify" /\ c2s'[c] = Tail(c2s[c]) /\ client' = client
    BY <1>1, Exchanges DEF Received, Pc
  <1>4. PICK k \in 0..Sent(kind, client[c].pos) :
          /\ Heard(kind, u, client[c].pos, conn[c].pc, conn[c].ret, c2s[c], s2c[c], k)
          /\ conn[c].pc \in Stage(kind, k)
          /\ k \in 0..Total(kind) - 1 /\ m = Call(kind, u, k + 1) /\ c2s[c] # <<>>
    BY <1>3, Arrival
  <1>5. kind \in ClientKind
    BY Facts
  <1>6. \/ /\ m = Control \/ m = Msg("_checkbw", 2, None)
           /\ "identify" \in Stage(kind, k + 1) /\ Unanswered(kind, k + 1)
        \/ /\ m \in {Msg("createStream", 2, None), Msg("createStream", 3, None)}
           /\ "identify_create_stream" \in Stage(kind, k + 1)
           /\ AnsweredBy(kind, k + 1, "CreateStreamRes")
        \/ m = Msg("releaseStream", 2, u) /\ kind = "fmle" /\ "start" \in Stage(kind, k + 1)
        \/ m = Msg("play", 0, u) /\ kind = "direct" /\ "start" \in Stage(kind, k + 1)
        \/ m = Msg("play", 0, None) /\ kind = "nameless"
    <2> HIDE DEF kind, u
    <2>1. "identify" \in Stage(kind, k) /\ k \in 0..Total(kind) - 1 /\ m = Call(kind, u, k + 1)
      BY <1>3, <1>4
    <2> QED
      BY <1>5, <2>1, AtIdentify
  <1>7. Control.name = "control" /\ \A n, t, a : Msg(n, t, a).name = n /\ Msg(n, t, a).arg = a
    BY DEF Control, Msg
  <1>8. ASSUME NEW ms, Fine(ms), ~Told(ms, "Start"), s2c'[c] = s2c[c] \o ms, NEW q, Stay(c, q),
               q \in {"identify", "identify_create_stream"}, q \in Stage(kind, k + 1),
               Unanswered(kind, k + 1) \/ \E w : AnsweredBy(kind, k + 1, w) /\ Told(ms, w)
        PROVE  ServiceOk(c)'
    <2>1. UNCHANGED poolVars /\ conn'[c].pc = q /\ conn'[c].ret = conn[c].ret /\ conn'[c].type = conn[c].type
      BY <1>8, Moves DEF Stay
    <2>2. ~Serving(c)' /\ ~Begun(conn[c].pc, "ok")
      BY <1>3, <1>8, <2>1 DEF Serving, Pc, Begun, Publishing
    <2> QED
      BY <1>3, <1>4, <1>8, <2>1, <2>2, TakeStep
  <1>9. /\ \A t, w : Fine(<<Result(t, w)>>) /\ (Told(<<Result(t, w)>>, "Start") <=> w = "Start")
        /\ \A t : Told(<<Result(t, "CreateStreamRes")>>, "CreateStreamRes")
        /\ Fine(<<>>) /\ ~Told(<<>>, "Start")
    BY Replies
  <1>10. CASE m = Control \/ m = Msg("_checkbw", 2, None)
    <2>1. "identify" \in Stage(kind, k + 1) /\ Unanswered(kind, k + 1)
      BY <1>6, <1>7, <1>10
    <2>2. CASE m = Control
      <3>1. Stay(c, "identify") /\ s2c'[c] = s2c[c] \o <<>>
        BY <1>2, <1>7, <2>2, Exchanges
      <3> QED
        BY <1>8, <1>9, <2>1, <3>1
    <2>3. CASE m = Msg("_checkbw", 2, None)
      <3> DEFINE r == <<Result(m.tid, "CallRes")>>
      <3>1. Stay(c, "identify") /\ Answer(c, r) /\ Fine(r) /\ ~Told(r, "Start")
        BY <1>2, <1>7, <1>9, <2>3
      <3> HIDE DEF r
      <3>2. s2c'[c] = s2c[c] \o r
        BY <3>1, Exchanges
      <3> QED
        BY <1>8, <2>1, <3>1, <3>2
    <2> QED
      BY <1>10, <2>2, <2>3
  <1>11. CASE /\ m.name = "createStream"
              /\ "identify_create_stream" \in Stage(kind, k + 1)
              /\ AnsweredBy(kind, k + 1, "CreateStreamRes")
    <2> DEFINE r == <<Result(m.tid, "CreateStreamRes")>>
    <2>1. /\ Stay(c, "identify_create_stream") /\ Answer(c, r)
          /\ Fine(r) /\ ~Told(r, "Start") /\ Told(r, "CreateStreamRes")
      <3>1. Stay(c, "identify_create_stream") /\ Answer(c, r)
        BY <1>2, <1>11
      <3>2. Fine(r) /\ ~Told(r, "Start") /\ Told(r, "CreateStreamRes")
        BY <1>9
      <3> QED
        BY <3>1, <3>2
    <2> HIDE DEF r
    <2>2. s2c'[c] = s2c[c] \o r
      BY <2>1, Exchanges
    <2> QED
      BY <1>8, <1>11, <2>1, <2>2
  <1>12. CASE m.name = "releaseStream" /\ m.arg = u /\ kind = "fmle" /\ "start" \in Stage(kind, k + 1)
    <2> DEFINE r == <<Result(m.tid, "FMLEStartRes")>>
    <2>1. Identified(c, "fmle", u) /\ Answer(c, r) /\ Fine(r) /\ ~Told(r, "Start")
      <3>1. Identified(c, "fmle", u) /\ Answer(c, r)
        BY <1>2, <1>12
      <3>2. Fine(r) /\ ~Told(r, "Start")
        BY <1>9
      <3> QED
        BY <3>1, <3>2
    <2> HIDE DEF r
    <2>2. Intended(kind) = "fmle"
      BY <1>12 DEF Intended
    <2>3. s2c'[c] = s2c[c] \o r
      BY <2>1, Exchanges
    <2> QED
      BY <1>3, <1>4, <1>12, <2>1, <2>2, <2>3, IdentifiedTalks
  <1>13. CASE m.name = "play" /\ ((m.arg = None /\ kind = "nameless") \/ (m.arg = u /\ kind = "direct" /\ "start" \in Stage(kind, k + 1)))
    <2>1. Identified(c, "play", m.arg) /\ s2c'[c] = s2c[c] \o <<>>
      BY <1>2, <1>13, Exchanges
    <2>2. kind = "direct" => Intended(kind) = "play"
      BY DEF Intended
    <2> QED
      BY <1>3, <1>4, <1>9, <1>13, <2>1, <2>2, IdentifiedTalks
  <1> QED
    BY <1>6, <1>7, <1>10, <1>11, <1>12, <1>13

LEMMA IdentifyCreateStreamTalks ==
  ASSUME IInv, AnswerInv, NEW c \in Conn, ServiceOk(c), identify_create_stream_client(c)
  PROVE  ServiceOk(c)'
  <1> DEFINE kind == client[c].kind
             u == client[c].url
  <1>1. PICK m \in Arrived(c) :
        /\ Received(c, "identify_create_stream")
        /\ CASE m.name = "createStream" ->
                  Answer(c, <<Result(m.tid, "CreateStreamRes")>>)
                  /\ Stay(c, "identify_create_stream")
             [] m.name \in FMLEStart ->
                  Answer(c, <<Result(m.tid, "FMLEStartRes")>>)
                  /\ Identified(c, "haivision", m.arg)
             [] m.name = "play" -> Silent /\ Identified(c, "play", m.arg)
             [] m.name = "publish" -> Silent /\ Identified(c, "flash", m.arg)
             [] OTHER -> Silent /\ Stay(c, "identify_create_stream")
        /\ UNCHANGED <<client, can_publish>>
    BY DEF identify_create_stream_client
  <1>2. /\ m.name = "FCPublish" =>
              Answer(c, <<Result(m.tid, "FMLEStartRes")>>) /\ Identified(c, "haivision", m.arg)
        /\ m.name = "play" => Silent /\ Identified(c, "play", m.arg)
        /\ m.name = "publish" => Silent /\ Identified(c, "flash", m.arg)
        /\ m.name = "control" => Silent /\ Stay(c, "identify_create_stream")
    BY <1>1 DEF FMLEStart
  <1>3. conn[c].pc = "identify_create_stream" /\ c2s'[c] = Tail(c2s[c]) /\ client' = client
    BY <1>1, Exchanges DEF Received, Pc
  <1>4. PICK k \in 0..Sent(kind, client[c].pos) :
          /\ Heard(kind, u, client[c].pos, conn[c].pc, conn[c].ret, c2s[c], s2c[c], k)
          /\ conn[c].pc \in Stage(kind, k)
          /\ k \in 0..Total(kind) - 1 /\ m = Call(kind, u, k + 1) /\ c2s[c] # <<>>
    BY <1>3, Arrival
  <1>5. kind \in ClientKind
    BY Facts
  <1>6. \/ /\ m = Control
           /\ "identify_create_stream" \in Stage(kind, k + 1) /\ Unanswered(kind, k + 1)
        \/ m = Msg("play", 0, u) /\ kind = "play" /\ "start" \in Stage(kind, k + 1)
        \/ m = Msg("publish", 0, u) /\ kind = "flash" /\ "start" \in Stage(kind, k + 1)
        \/ m = Msg("FCPublish", 4, u) /\ kind = "haivision" /\ "start" \in Stage(kind, k + 1)
    <2> HIDE DEF kind, u
    <2> QED
      BY <1>3, <1>4, <1>5, AtIdentifyCreateStream
  <1>7. Control.name = "control" /\ \A n, t, a : Msg(n, t, a).name = n /\ Msg(n, t, a).arg = a
    BY DEF Control, Msg
  <1>8. /\ \A t, w : Fine(<<Result(t, w)>>) /\ (Told(<<Result(t, w)>>, "Start") <=> w = "Start")
        /\ Fine(<<>>) /\ ~Told(<<>>, "Start")
    BY Replies
  <1>9. CASE /\ m.name = "control"
             /\ "identify_create_stream" \in Stage(kind, k + 1) /\ Unanswered(kind, k + 1)
    <2>1. Stay(c, "identify_create_stream") /\ s2c'[c] = s2c[c] \o <<>>
      BY <1>2, <1>9, Exchanges
    <2>2. /\ UNCHANGED poolVars /\ conn'[c].pc = "identify_create_stream" /\ conn'[c].ret = conn[c].ret
          /\ conn'[c].type = conn[c].type
      BY <2>1, Moves DEF Stay
    <2>3. ~Serving(c)' /\ ~Begun(conn[c].pc, "ok")
      BY <1>3, <2>2 DEF Serving, Pc, Begun, Publishing
    <2> QED
      BY <1>3, <1>4, <1>8, <1>9, <2>1, <2>2, <2>3, TakeStep
  <1>10. ASSUME NEW type, Intended(kind) = type, Identified(c, type, u), "start" \in Stage(kind, k + 1),
                NEW ms, Fine(ms), ~Told(ms, "Start"), s2c'[c] = s2c[c] \o ms
         PROVE  ServiceOk(c)'
    BY <1>3, <1>4, <1>10, IdentifiedTalks
  <1>11. CASE m.name = "play" /\ m.arg = u /\ kind = "play" /\ "start" \in Stage(kind, k + 1)
    <2>1. Identified(c, "play", u) /\ s2c'[c] = s2c[c] \o <<>> /\ Intended(kind) = "play"
      BY <1>2, <1>11, Exchanges DEF Intended
    <2> QED
      BY <1>8, <1>10, <1>11, <2>1
  <1>12. CASE m.name = "publish" /\ m.arg = u /\ kind = "flash" /\ "start" \in Stage(kind, k + 1)
    <2>1. Identified(c, "flash", u) /\ s2c'[c] = s2c[c] \o <<>> /\ Intended(kind) = "flash"
      BY <1>2, <1>12, Exchanges DEF Intended
    <2> QED
      BY <1>8, <1>10, <1>12, <2>1
  <1>13. CASE m.name = "FCPublish" /\ m.arg = u /\ kind = "haivision" /\ "start" \in Stage(kind, k + 1)
    <2> DEFINE r == <<Result(m.tid, "FMLEStartRes")>>
    <2>1. Identified(c, "haivision", u) /\ Answer(c, r) /\ Fine(r) /\ ~Told(r, "Start")
      <3>1. Identified(c, "haivision", u) /\ Answer(c, r)
        BY <1>2, <1>13
      <3>2. Fine(r) /\ ~Told(r, "Start")
        BY <1>8
      <3> QED
        BY <3>1, <3>2
    <2> HIDE DEF r
    <2>2. s2c'[c] = s2c[c] \o r /\ Intended(kind) = "haivision"
      BY <1>13, <2>1, Exchanges DEF Intended
    <2> QED
      BY <1>10, <1>13, <2>1, <2>2
  <1> QED
    BY <1>6, <1>7, <1>9, <1>11, <1>12, <1>13

\* The service starts.
LEMMA FindTalks ==
  ASSUME IInv, AnswerInv, NEW c \in Conn, ServiceOk(c), find_source(c)
  PROVE  ServiceOk(c)'
  <1>1. /\ conn[c].pc = "start" /\ client' = client /\ conn' = conn /\ c2s' = c2s /\ s2c' = s2c
        /\ url' = url
    BY DEF find_source, sessionVars, fetch_or_create, fetch, assert_absent, insert, Pc
  <1>2. TalkOk(c)' /\ Fine(s2c'[c])
    BY <1>1 DEF ServiceOk, TalkOk
  <1>3. ServeOk(c)'
    BY <1>1 DEF ServiceOk, ServeOk, Serving, Pc, AtEnd, Client, Script
  <1> QED
    BY <1>2, <1>3 DEF ServiceOk

LEMMA StartTalks ==
  ASSUME IInv, AnswerInv, NEW c \in Conn, ServiceOk(c), start(c)
  PROVE  ServiceOk(c)'
  <1> DEFINE kind == client[c].kind
             u == client[c].url
             pos == client[c].pos
  <1>1. /\ conn[c].pc = "start" /\ thread[c] = "serve" /\ client' = client
        /\ UNCHANGED poolVars /\ c2s'[c] = c2s[c]
    BY DEF start, Pc
  <1>2. /\ kind \in ClientKind /\ pos \in 1..Len(ScriptOf(kind, u)) + 1 /\ conn[c].ret = "ok" /\ ServeOk(c)
    BY <1>1, Conversing
  <1>3. PICK k \in 0..Sent(kind, pos) :
           /\ Heard(kind, u, pos, conn[c].pc, conn[c].ret, c2s[c], s2c[c], k)
           /\ conn[c].pc \in Stage(kind, k)
    BY <1>1, Conversing
  <1>4. Serving(c) /\ conn[c].type = Intended(kind) /\ ~Begun("start", "ok")
    BY <1>1, <1>2 DEF ServeOk, Serving, Pc, Begun, Publishing
  <1>5. /\ "start" \in Stage(kind, k) /\ k \in Nat
        /\ AnswerTo(kind, pos) \in Nat /\ pos \in 1..Never - 1
        /\ AnswerTo(kind, pos) >= k /\ (kind \in {"fmle", "haivision"} => AnswerTo(kind, pos) > k)
    <2> HIDE DEF kind, u, pos
    <2>1. Sent(kind, pos) \in Nat
      <3>1. Total(kind) \in Int
        BY DEF Total
      <3> QED
        BY <1>2, <3>1, SentBound
    <2>2. pos \in 1..Never - 1 /\ AnswerTo(kind, pos) \in Nat \ {0}
      BY <1>2, AnswerType
    <2>3. "start" \in Stage(kind, k)
      BY <1>1, <1>3
    <2>4. AnswerTo(kind, pos) >= k /\ (kind \in {"fmle", "haivision"} => AnswerTo(kind, pos) > k)
      BY <1>2, <2>2, <2>3, NotOverdue
    <2> QED
      BY <2>1, <2>2, <2>3, <2>4
  <1>6. /\ kind \in {"play", "direct", "flash", "fmle", "haivision"}
        /\ kind \in {"play", "direct"} => "playing" \in Stage(kind, k) /\ AnsweredBy(kind, k, "Start")
        /\ kind = "flash" => "acquire" \in Stage(kind, k) /\ AnsweredBy(kind, k, "Start")
        /\ kind = "fmle" => "FCPublish" \in Stage(kind, k)
        /\ kind = "haivision" => "publish" \in Stage(kind, k)
    <2> HIDE DEF kind
    <2> QED
      BY <1>2, <1>5, AtStart
  <1>7. k >= AnswerTo(kind, pos) =>
           kind \notin {"fmle", "haivision"} /\ (AnsweredBy(kind, k, "Start") => Awaits(kind, pos) = "Start")
    <2> HIDE DEF kind, pos
    <2> QED
      BY <1>5 DEF AnsweredBy
  <1>8. ASSUME NEW ms, Fine(ms), s2c'[c] = s2c[c] \o ms, NEW q, To(c, q), q \in Stage(kind, k), q # "closed", q # "c2",
               k >= AnswerTo(kind, pos) => Told(ms, Awaits(kind, pos)),
               Told(ms, "Start") => Begun(q, "ok")
        PROVE  ServiceOk(c)'
    <2>1. conn'[c].pc = q /\ conn'[c].ret = "ok" /\ conn'[c].type = conn[c].type
      BY <1>2, <1>8, Moves
    <2> QED
      BY <1>1, <1>2, <1>3, <1>4, <1>8, <2>1, GoStep
  <1>9. CASE conn[c].type = "play" /\ Answer(c, start_play) /\ To(c, "playing")
    <2>1. kind \in {"play", "direct"}
      BY <1>4, <1>6, <1>9 DEF Intended
    <2>2. s2c'[c] = s2c[c] \o start_play /\ Fine(start_play) /\ Told(start_play, "Start") /\ Begun("playing", "ok")
      BY <1>9, Exchanges, Replies DEF Begun
    <2> QED
      BY <1>6, <1>7, <1>8, <1>9, <2>1, <2>2
  <1>10. CASE conn[c].type = "flash" /\ Answer(c, start_flash_publish) /\ To(c, "acquire")
    <2>1. kind = "flash"
      BY <1>4, <1>6, <1>10 DEF Intended
    <2>2. /\ s2c'[c] = s2c[c] \o start_flash_publish /\ Fine(start_flash_publish)
          /\ Told(start_flash_publish, "Start") /\ Begun("acquire", "ok")
      BY <1>10, Exchanges, Replies DEF Begun, Publishing
    <2> QED
      BY <1>6, <1>7, <1>8, <1>10, <2>1, <2>2
  <1>11. CASE conn[c].type = "fmle" /\ Silent /\ To(c, "FCPublish")
    <2>1. kind = "fmle"
      BY <1>4, <1>6, <1>11 DEF Intended
    <2>2. s2c'[c] = s2c[c] \o <<>> /\ Fine(<<>>) /\ ~Told(<<>>, "Start")
      BY <1>11, Exchanges, Replies
    <2> QED
      BY <1>6, <1>7, <1>8, <1>11, <2>1, <2>2
  <1>12. CASE conn[c].type = "haivision" /\ Silent /\ To(c, "publish")
    <2>1. kind = "haivision"
      BY <1>4, <1>6, <1>12 DEF Intended
    <2>2. s2c'[c] = s2c[c] \o <<>> /\ Fine(<<>>) /\ ~Told(<<>>, "Start")
      BY <1>12, Exchanges, Replies
    <2> QED
      BY <1>6, <1>7, <1>8, <1>12, <2>1, <2>2
  <1> QED
    BY <1>9, <1>10, <1>11, <1>12 DEF start

LEMMA AwaitTalks ==
  ASSUME IInv, AnswerInv, NEW c \in Conn, ServiceOk(c),
         await_FCPublish(c) \/ await_createStream(c) \/ await_publish(c)
  PROVE  ServiceOk(c)'
  <1> DEFINE kind == client[c].kind
             u == client[c].url
             pc == conn[c].pc
             started == <<Msg("onFCPublish", 0, None), Status("Start")>>
  <1>1. PICK m \in Arrived(c) :
          /\ pc \in {"FCPublish", "createStream", "publish"} /\ Take(c)
          /\ pc = "FCPublish" /\ m.name = "FCPublish" =>
                Answer(c, <<Result(m.tid, "FMLEStartRes")>>) /\ To(c, "createStream")
          /\ pc = "createStream" /\ m.name = "createStream" =>
                Answer(c, <<Result(m.tid, "CreateStreamRes")>>) /\ To(c, "publish")
          /\ pc = "publish" /\ m.name = "publish" => Answer(c, started) /\ To(c, "acquire")
    BY DEF await_FCPublish, await_createStream, await_publish, Received, Pc, FMLEStart
  <1>2. client' = client /\ UNCHANGED poolVars /\ c2s'[c] = Tail(c2s[c])
    BY <1>1, Exchanges DEF await_FCPublish, await_createStream, await_publish
  <1>3. PICK k \in 0..Sent(kind, client[c].pos) :
          /\ Heard(kind, u, client[c].pos, pc, conn[c].ret, c2s[c], s2c[c], k)
          /\ pc \in Stage(kind, k)
          /\ k \in 0..Total(kind) - 1 /\ m = Call(kind, u, k + 1) /\ c2s[c] # <<>>
    BY <1>1, Arrival
  <1>4. kind \in ClientKind
    BY Facts
  <1>5. /\ pc = "FCPublish" => /\ m.name = "FCPublish"
                               /\ "createStream" \in Stage(kind, k + 1) /\ Unanswered(kind, k + 1)
        /\ pc = "createStream" => /\ m.name = "createStream" /\ "publish" \in Stage(kind, k + 1)
                                  /\ AnsweredBy(kind, k + 1, "CreateStreamRes")
        /\ pc = "publish" => /\ m.name = "publish"
                             /\ "acquire" \in Stage(kind, k + 1) /\ AnsweredBy(kind, k + 1, "Start")
    <2>1. \A n, t, a : Msg(n, t, a).name = n
      BY DEF Msg
    <2> HIDE DEF kind, u, pc
    <2> QED
      BY <1>3, <1>4, <2>1, AtStartPublish
  <1>6. ASSUME NEW ms, Fine(ms), Answer(c, ms), NEW q, To(c, q), q \in Stage(kind, k + 1),
               q \in {"createStream", "publish", "acquire"}, Told(ms, "Start") => q = "acquire",
               Unanswered(kind, k + 1) \/ \E w : AnsweredBy(kind, k + 1, w) /\ Told(ms, w)
        PROVE  ServiceOk(c)'
    <2>1. /\ conn'[c].pc = q /\ conn'[c].ret = conn[c].ret /\ conn'[c].type = conn[c].type
          /\ s2c'[c] = s2c[c] \o ms
      BY <1>6, Moves, Exchanges
    <2>2. Serving(c) /\ ~Begun(pc, "ok") /\ Begun("acquire", "ok")
      BY <1>1 DEF Serving, Pc, Begun, Publishing
    <2> QED
      BY <1>1, <1>2, <1>3, <1>6, <2>1, <2>2, TakeStep
  <1>7. CASE pc = "FCPublish"
    <2> DEFINE r == <<Result(m.tid, "FMLEStartRes")>>
    <2>1. Answer(c, r) /\ To(c, "createStream")
      BY <1>1, <1>5, <1>7
    <2>2. Fine(r) /\ ~Told(r, "Start")
      BY Replies
    <2> HIDE DEF r
    <2> QED
      BY <1>5, <1>6, <1>7, <2>1, <2>2
  <1>8. CASE pc = "createStream"
    <2> DEFINE r == <<Result(m.tid, "CreateStreamRes")>>
    <2>1. Answer(c, r) /\ To(c, "publish")
      BY <1>1, <1>5, <1>8
    <2>2. Fine(r) /\ ~Told(r, "Start") /\ Told(r, "CreateStreamRes")
      BY Replies
    <2> HIDE DEF r
    <2> QED
      BY <1>5, <1>6, <1>8, <2>1, <2>2
  <1>9. CASE pc = "publish"
    <2>1. Answer(c, started) /\ To(c, "acquire")
      BY <1>1, <1>5, <1>9
    <2>2. Fine(started) /\ Told(started, "Start")
      BY Replies
    <2> HIDE DEF started
    <2> QED
      BY <1>5, <1>6, <1>9, <2>1, <2>2
  <1> QED
    BY <1>1, <1>7, <1>8, <1>9

\* The stream is taken, or was.
LEMMA AcquireTalks ==
  ASSUME IInv, AnswerInv, NEW c \in Conn, ServiceOk(c), acquire_publish(c) \/ on_publish(c)
  PROVE  ServiceOk(c)'
  <1> DEFINE kind == client[c].kind
             u == client[c].url
             pos == client[c].pos
             pc == conn[c].pc
  <1>1. /\ client' = client /\ UNCHANGED poolVars /\ c2s'[c] = c2s[c] /\ Silent
        /\ \/ pc = "acquire" /\ (To(c, "on_publish") \/ Close(c, "busy"))
           \/ pc = "on_publish" /\ To(c, "publishing")
    BY DEF acquire_publish, on_publish, Pc, Silent
  <1>2. kind \in ClientKind /\ pos \in 1..Len(ScriptOf(kind, u)) + 1 /\ conn[c].ret = "ok"
    BY <1>1, Conversing
  <1>3. PICK k \in 0..Sent(kind, pos) :
           Heard(kind, u, pos, pc, conn[c].ret, c2s[c], s2c[c], k) /\ pc \in Stage(kind, k)
    BY <1>1, Conversing
  <1>4. k \in Nat /\ (k >= AnswerTo(kind, pos) => Told(s2c[c], Awaits(kind, pos)))
    <2>1. Sent(kind, pos) \in Nat
      <3> HIDE DEF kind, u, pos
      <3>1. Total(kind) \in Int
        BY DEF Total
      <3> QED
        BY <1>2, <3>1, SentBound
    <2> QED
      BY <1>1, <1>3, <2>1 DEF Heard
  <1>5. s2c'[c] = s2c[c] \o <<>> /\ Fine(<<>>) /\ ~Told(<<>>, "Start") /\ Serving(c)
    BY <1>1, Exchanges, Replies DEF Serving, Pc
  <1>6. ASSUME NEW q, To(c, q), q \in {"on_publish", "publishing"}, q \in Stage(kind, k)
        PROVE  ServiceOk(c)'
    <2>1. conn'[c].pc = q /\ conn'[c].ret = "ok" /\ conn'[c].type = conn[c].type
      BY <1>2, <1>6, Moves
    <2>2. Begun(q, "ok")
      BY <1>6 DEF Begun, Publishing
    <2> QED
      BY <1>1, <1>2, <1>3, <1>4, <1>5, <1>6, <2>1, <2>2, GoStep
  <1>7. CASE Close(c, "busy")
    <2>1. conn'[c].pc = "closed" /\ conn'[c].ret = "busy"
      BY <1>7, Moves
    <2>2. Begun("closed", "busy")
      BY DEF Begun
    <2>3. ~Serving(c)'
      BY <2>1 DEF Serving, Pc
    <2> QED
      BY <1>1, <1>2, <1>3, <1>5, <2>1, <2>2, <2>3, GoStep
  <1>8. /\ pc = "acquire" => "on_publish" \in Stage(kind, k)
        /\ pc = "on_publish" => "publishing" \in Stage(kind, k)
    <2> HIDE DEF kind, pc
    <2> QED
      BY <1>2, <1>3, <1>4, PublishingStages
  <1> QED
    BY <1>1, <1>6, <1>7, <1>8

\* A client publishes, or plays.
LEMMA PublishingTalks ==
  ASSUME IInv, AnswerInv, NEW c \in Conn, ServiceOk(c), publishing(c)
  PROVE  ServiceOk(c)'
  <1> DEFINE kind == client[c].kind
             u == client[c].url
  <1>1. PICK m \in Arrived(c) :
          /\ Received(c, "publishing")
          /\ CASE IsCommandName(m.name) /\ conn[c].type = "flash" ->
                    Silent /\ To(c, "join")
               [] m.name \in FMLEStart /\ conn[c].type # "flash" ->
                    Answer(c, fmle_unpublish(m.tid)) /\ To(c, "join")
               [] OTHER -> Silent /\ UNCHANGED conn
    BY DEF publishing
  <1>2. /\ m.name = "media" => Silent /\ conn' = conn
        /\ m.name = "closeStream" /\ conn[c].type = "flash" => Silent /\ To(c, "join")
        /\ m.name = "FCUnpublish" /\ conn[c].type = "fmle" =>
              Answer(c, fmle_unpublish(m.tid)) /\ To(c, "join")
    BY <1>1 DEF IsCommandName, FMLEStart
  <1>3. /\ conn[c].pc = "publishing" /\ c2s'[c] = Tail(c2s[c]) /\ client' = client /\ UNCHANGED poolVars
    BY <1>1, Exchanges DEF publishing, Received, Pc
  <1>4. PICK k \in 0..Sent(kind, client[c].pos) :
          /\ Heard(kind, u, client[c].pos, conn[c].pc, conn[c].ret, c2s[c], s2c[c], k)
          /\ conn[c].pc \in Stage(kind, k)
          /\ k \in 0..Total(kind) - 1 /\ m = Call(kind, u, k + 1) /\ c2s[c] # <<>>
    BY <1>3, Arrival
  <1>5. kind \in ClientKind
    BY Facts
  <1>6. Serving(c) /\ conn[c].type = Intended(kind)
    BY <1>3 DEF ServiceOk, ServeOk, Serving, Pc
  <1>7. /\ Unanswered(kind, k + 1)
        /\ \/ m.name = "media" /\ "publishing" \in Stage(kind, k + 1)
           \/ m.name = "closeStream" /\ conn[c].type = "flash" /\ "join" \in Stage(kind, k + 1)
           \/ m.name = "FCUnpublish" /\ conn[c].type = "fmle" /\ "join" \in Stage(kind, k + 1)
    <2>1. Media.name = "media" /\ \A n, t, a : Msg(n, t, a).name = n
      BY DEF Media, Msg
    <2>2. Intended("flash") = "flash" /\ Intended("fmle") = "fmle"
      BY DEF Intended
    <2> HIDE DEF kind, u
    <2>3. "publishing" \in Stage(kind, k) /\ k \in 0..Total(kind) - 1 /\ m = Call(kind, u, k + 1)
      BY <1>3, <1>4
    <2>4. /\ Unanswered(kind, k + 1)
          /\ \/ m = Media /\ "publishing" \in Stage(kind, k + 1)
             \/ m = Msg("closeStream", 0, None) /\ kind = "flash" /\ "join" \in Stage(kind, k + 1)
             \/ m = Msg("FCUnpublish", 5, u) /\ kind = "fmle" /\ "join" \in Stage(kind, k + 1)
      BY <1>5, <2>3, AtPublishing
    <2> QED
      BY <1>6, <2>1, <2>2, <2>4
  <1>8. ASSUME NEW ms, Fine(ms), s2c'[c] = s2c[c] \o ms, To(c, "join") \/ conn' = conn,
               conn'[c].pc \in Stage(kind, k + 1)
        PROVE  ServiceOk(c)'
    <2>1. /\ conn'[c].pc \in {"publishing", "join"} /\ conn'[c].ret = conn[c].ret
          /\ conn'[c].type = conn[c].type
      BY <1>3, <1>8, Moves
    <2>2. Begun(conn'[c].pc, "ok")
      BY <2>1 DEF Begun, Publishing
    <2> QED
      BY <1>3, <1>4, <1>6, <1>7, <1>8, <2>1, <2>2, TakeStep
  <1>9. Fine(<<>>) /\ Fine(fmle_unpublish(m.tid))
    BY Replies
  <1>10. CASE m.name = "media" /\ "publishing" \in Stage(kind, k + 1)
    <2>1. s2c'[c] = s2c[c] \o <<>> /\ conn' = conn
      BY <1>2, <1>10, Exchanges
    <2> QED
      BY <1>3, <1>8, <1>9, <1>10, <2>1
  <1>11. CASE m.name = "closeStream" /\ conn[c].type = "flash" /\ "join" \in Stage(kind, k + 1)
    <2>1. s2c'[c] = s2c[c] \o <<>> /\ To(c, "join") /\ conn'[c].pc = "join"
      BY <1>2, <1>11, Exchanges, Moves
    <2> QED
      BY <1>8, <1>9, <1>11, <2>1
  <1>12. CASE m.name = "FCUnpublish" /\ conn[c].type = "fmle" /\ "join" \in Stage(kind, k + 1)
    <2>1. Answer(c, fmle_unpublish(m.tid)) /\ To(c, "join")
      BY <1>2, <1>12
    <2>2. s2c'[c] = s2c[c] \o fmle_unpublish(m.tid) /\ conn'[c].pc = "join"
      BY <2>1, Exchanges, Moves
    <2> QED
      BY <1>8, <1>9, <1>12, <2>1, <2>2
  <1> QED
    BY <1>7, <1>10, <1>11, <1>12

LEMMA PlayingTalks ==
  ASSUME IInv, AnswerInv, NEW c \in Conn, ServiceOk(c), playing(c)
  PROVE  ServiceOk(c)'
  <1> DEFINE kind == client[c].kind
             u == client[c].url
  <1>1. PICK m \in Arrived(c) :
          /\ Received(c, "playing")
          /\ CASE m.name = "closeStream" -> Silent /\ To(c, "join")
               [] m.name \in {"_checkbw", "getLength"} ->
                    Answer(c, IF m.tid > 0 THEN <<Result(m.tid, "CallRes")>> ELSE <<>>)
                    /\ UNCHANGED conn
               [] m.name = "pause" ->
                    Answer(c, on_play_client_pause) /\ UNCHANGED conn
               [] OTHER -> Silent /\ UNCHANGED conn
    BY DEF playing
  <1>2. /\ conn[c].pc = "playing" /\ c2s'[c] = Tail(c2s[c]) /\ client' = client /\ UNCHANGED poolVars
    BY <1>1, Exchanges DEF playing, Received, Pc
  <1>3. PICK ms : /\ Fine(ms) /\ s2c'[c] = s2c[c] \o ms
                  /\ IF m.name = "closeStream" THEN To(c, "join") ELSE conn' = conn
    <2> DEFINE r == IF m.tid > 0 THEN <<Result(m.tid, "CallRes")>> ELSE <<>>
    <2>1. Fine(<<>>) /\ Fine(r) /\ Fine(on_play_client_pause)
      BY Replies
    <2>2. \/ m.name = "closeStream" /\ Silent /\ To(c, "join")
          \/ m.name # "closeStream" /\ Answer(c, r) /\ conn' = conn
          \/ m.name # "closeStream" /\ Answer(c, on_play_client_pause) /\ conn' = conn
          \/ m.name # "closeStream" /\ Silent /\ conn' = conn
      BY <1>1
    <2> HIDE DEF r
    <2> QED
      BY <2>1, <2>2, Exchanges
  <1>4. PICK k \in 0..Sent(kind, client[c].pos) :
          /\ Heard(kind, u, client[c].pos, conn[c].pc, conn[c].ret, c2s[c], s2c[c], k)
          /\ conn[c].pc \in Stage(kind, k)
          /\ k \in 0..Total(kind) - 1 /\ m = Call(kind, u, k + 1) /\ c2s[c] # <<>>
    BY <1>2, Arrival
  <1>5. kind \in ClientKind
    BY Facts
  <1>6. /\ Unanswered(kind, k + 1)
        /\ \/ m.name # "closeStream" /\ "playing" \in Stage(kind, k + 1)
           \/ m.name = "closeStream" /\ "join" \in Stage(kind, k + 1)
    <2>1. Control.name = "control" /\ \A n, t, a : Msg(n, t, a).name = n
      BY DEF Control, Msg
    <2> HIDE DEF kind, u
    <2>2. "playing" \in Stage(kind, k) /\ k \in 0..Total(kind) - 1 /\ m = Call(kind, u, k + 1)
      BY <1>2, <1>4
    <2>3. /\ Unanswered(kind, k + 1)
          /\ \/ /\ m \in {Control, Msg("pause", 0, None), Msg("getLength", 9, None)}
                /\ "playing" \in Stage(kind, k + 1)
             \/ m = Msg("closeStream", 0, None) /\ "join" \in Stage(kind, k + 1)
      BY <1>5, <2>2, AtPlaying
    <2> QED
      BY <2>1, <2>3
  <1>7. /\ conn'[c].pc \in {"playing", "join"} /\ conn'[c].pc \in Stage(kind, k + 1)
        /\ conn'[c].ret = conn[c].ret /\ conn'[c].type = conn[c].type
    BY <1>2, <1>3, <1>6, Moves
  <1>8. Begun(conn'[c].pc, "ok") /\ Serving(c)
    BY <1>2, <1>7 DEF Begun, Publishing, Serving, Pc
  <1> QED
    BY <1>2, <1>3, <1>4, <1>6, <1>7, <1>8, TakeStep

\* The read fails: the client has left.
LEMMA RecvTalks ==
  ASSUME IInv, AnswerInv, NEW c \in Conn, ServiceOk(c), recv_failed(c)
  PROVE  ServiceOk(c)'
  <1> DEFINE kind == client[c].kind
             u == client[c].url
             pos == client[c].pos
             pc == conn[c].pc
  <1>1. /\ pc \in Waiting /\ c2s[c] = <<>> /\ Gone(c) /\ Close(c, "recv")
        /\ client' = client /\ c2s'[c] = c2s[c] /\ Silent
    BY DEF recv_failed, Pc, Silent
  <1>2. client[c].state = "left"
    BY <1>1, Facts DEF Gone, Client
  <1>3. conn'[c].pc = "closed" /\ conn'[c].ret = "recv" /\ s2c'[c] = s2c[c] \o <<>> /\ s2c'[c] = s2c[c]
    BY <1>1, Moves, Exchanges
  <1>4. ServeOk(c)'
    BY <1>3 DEF ServeOk, Serving, Pc
  <1>5. TalkOk(c)' /\ Fine(s2c'[c])
    <2>1. CASE pos = 1 /\ Shaking(client[c].state, client[c].schema, pc, conn[c].ret, c2s[c], s2c[c])
      <3>1. s2c[c] = <<>>
        BY <1>2, <2>1 DEF Shaking
      <3> QED
        BY <1>1, <1>2, <1>3, <2>1, <3>1 DEF TalkOk, Shaking, ServiceOk
    <2>2. CASE Talk(kind, u, pos, pc, conn[c].ret, c2s[c], s2c[c])
      <3>1. pc \notin {"handshake", "closed", "c2"}
        <4> HIDE DEF pc
        <4>1. pc \notin {"handshake", "c2"}
          BY <1>1, <2>2, Facts, TalkPlace
        <4> QED
          BY <1>1, <4>1 DEF Waiting
      <3>2. conn[c].ret = "ok"
        BY <3>1, Conversing
      <3>3. PICK k \in 0..Sent(kind, pos) : Heard(kind, u, pos, pc, conn[c].ret, c2s[c], s2c[c], k)
        BY <3>1, Conversing
      <3>4. Fine(<<>>) /\ ~Told(<<>>, "Start") /\ ~Begun(pc, "ok")
        BY <1>1, Replies DEF Begun, Publishing, Waiting
      <3> QED
        BY <1>1, <1>3, <3>1, <3>2, <3>3, <3>4, OnStep
    <2> QED
      BY <2>1, <2>2 DEF ServiceOk, TalkOk
  <1> QED
    BY <1>4, <1>5 DEF ServiceOk

\* A connection of the server steps.
LEMMA ServerServes ==
  ASSUME IInv, AnswerInv, ServiceInv, NEW c \in Conn, ServerNext(c)
  PROVE  ServiceInv'
  <1>1. ServiceOk(c)'
    <2>1. ServiceOk(c)
      BY DEF ServiceInv
    <2> QED
      BY <2>1, ShakeTalks, C2Talks, ShortTalks, ConnectTalks, CycleTalks, IdentifyTalks, IdentifyCreateStreamTalks,
         FindTalks, StartTalks, AwaitTalks, AcquireTalks, PublishingTalks, PlayingTalks, RecvTalks
         DEF ServerNext
  <1>2. ASSUME NEW d \in Conn \ {c} PROVE ServiceOk(d)'
    <2>1. /\ client'[d] = client[d] /\ conn'[d] = conn[d] /\ c2s'[d] = c2s[d] /\ s2c'[d] = s2c[d]
          /\ url'[d] = url[d] /\ thread'[d] = thread[d]
      BY ServerFrame
    <2> QED
      BY <2>1, OtherService DEF ServiceInv
  <1>3. SourceInv'
    BY ServerSources
  <1> QED
    BY <1>1, <1>2, <1>3 DEF ServiceInv

LEMMA InitServes == Init => ServiceInv
  <1> SUFFICES ASSUME Init PROVE ServiceInv
    OBVIOUS
  <1>1. Fine(<<>>)
    BY Replies
  <1>2. ASSUME NEW c \in Conn PROVE ServiceOk(c)
    <2>1. /\ client[c].pos = 1 /\ client[c].state = "c0c1" /\ conn[c].pc = "handshake" /\ conn[c].ret = "ok"
          /\ c2s[c] = <<>> /\ s2c[c] = <<>>
      BY DEF Init
    <2> QED
      BY <1>1, <2>1 DEF ServiceOk, TalkOk, Shaking, ServeOk, Serving, Pc
  <1>3. SourceInv
    BY DEF Init, PoolInit, SourceInv
  <1> QED
    BY <1>2, <1>3 DEF ServiceInv

LEMMA NextServes ==
  ASSUME IInv, AnswerInv, ServiceInv, [Next]_vars
  PROVE  ServiceInv'
  <1>1. CASE UNCHANGED vars
    <2>1. /\ client' = client /\ conn' = conn /\ c2s' = c2s /\ s2c' = s2c /\ can_publish' = can_publish
          /\ pool' = pool /\ url' = url /\ thread' = thread /\ source' = source
      BY <1>1 DEF vars, sessionVars, poolVars
    <2>2. ASSUME NEW d \in Conn PROVE ServiceOk(d)'
      BY <2>1, OtherService DEF ServiceInv
    <2>3. SourceInv'
      BY <2>1 DEF ServiceInv, SourceInv, Publishers
    <2> QED
      BY <2>2, <2>3 DEF ServiceInv
  <1> QED
    BY <1>1, ClientServes, ServerServes DEF Next

LEMMA Served ==
  ASSUME IInv, AnswerInv, ServiceInv
  PROVE  ServedAsAsked
  <1> SUFFICES ASSUME NEW c \in Conn, ToldStart(c) PROVE Serving(c) \/ conn[c].ret = "busy"
    BY DEF ServedAsAsked, ServiceInv, ServiceOk, ServeOk, Client
  <1> DEFINE kind == client[c].kind
             u == client[c].url
             pos == client[c].pos
  <1>1. kind \in ClientKind /\ pos \in Nat
    BY Facts
  <1>2. PICK i \in 1..pos - 1 : ScriptOf(kind, u)[i].op = "expect" /\ ScriptOf(kind, u)[i].what.name = "Start"
    BY DEF ToldStart, Client, Script
  <1>3. Talk(kind, u, pos, conn[c].pc, conn[c].ret, c2s[c], s2c[c])
    <2>1. pos # 1
      BY <1>1, <1>2
    <2> QED
      BY <2>1 DEF ServiceInv, ServiceOk, TalkOk
  <1>4. pos > StartAt(kind)
    <2> HIDE DEF kind, u, pos
    <2>1. pos \in 1..Len(ScriptOf(kind, u)) + 1 /\ Len(ScriptOf(kind, u)) \in Nat
      BY <1>1, <1>3, ScriptLen DEF Talk
    <2>2. i \in 1..Len(ScriptOf(kind, u)) /\ i < pos /\ i \in Nat
      BY <1>1, <1>2, <2>1
    <2>3. i \in Answering(kind) /\ i # Never /\ Awaits(kind, i) = "Start"
      BY <1>1, <1>2, <2>2, OpsAt DEF OpAt, Never
    <2>4. i = StartAt(kind)
      BY <1>1, <2>3, ExpectStep
    <2> QED
      BY <1>1, <2>2, <2>4
  <1>5. Begun(conn[c].pc, conn[c].ret)
    BY <1>3, <1>4 DEF Talk, Heard
  <1> QED
    BY <1>5 DEF Begun, Publishing, Serving, Pc

LEMMA Refused ==
  ASSUME IInv, AnswerInv, ServiceInv
  PROVE  RefusedForReason
  <1> SUFFICES ASSUME NEW c \in Conn
               PROVE  /\ conn[c].ret = "plain" => client[c].schema = Encrypted
                      /\ conn[c].ret = "stream" => client[c].kind = "nameless"
                      /\ conn[c].ret = "busy" => \E d \in Conn \ {c} :
                            url[d] = url[c] /\ conn[d].pc \in {"publishing", "join"}
    BY DEF RefusedForReason, Client, Pc
  <1>1. conn[c].ret = "plain" => client[c].schema = Encrypted
    BY DEF ServiceInv, ServiceOk, TalkOk, Talk, Heard, Shaking
  <1>2. conn[c].ret = "stream" => client[c].kind = "nameless"
    BY DEF ServiceInv, ServiceOk, ServeOk
  <1>3. ASSUME conn[c].ret = "busy"
        PROVE  \E d \in Conn \ {c} : url[d] = url[c] /\ conn[d].pc \in {"publishing", "join"}
    <2>1. conn[c].pc = "closed" /\ thread[c] = "serve" /\ Publishers(source[c]) # {}
      BY <1>3 DEF ServiceInv, SourceInv
    <2>2. PICK d \in Conn : /\ thread[d] = "serve" /\ source[d] = source[c]
                            /\ conn[d].pc \in {"publishing", "join"}
      BY <2>1 DEF Publishers
    <2>3. ASSUME NEW e \in Conn, thread[e] = "serve" PROVE url[source[e]] = url[e]
      BY <2>3 DEF IInv, PoolSound, ServiceInv, SourceInv
    <2> QED
      BY <2>1, <2>2, <2>3
  <1> QED
    BY <1>1, <1>2, <1>3

\* While the server waits for a message, a client that waits for an answer
\* has it on its way.
LEMMA OneSpeaks ==
  ASSUME IInv, AnswerInv, ServiceInv
  PROVE  NeverBothWait
  <1> SUFFICES ASSUME NEW c \in Conn, conn[c].pc \in Waiting, c2s[c] = <<>>,
                      client[c].state = "run", Idle(c), ~AtEnd(c)
               PROVE  FALSE
    BY DEF NeverBothWait, Pc, Client
  <1> DEFINE kind == client[c].kind
             u == client[c].url
             pos == client[c].pos
             pc == conn[c].pc
  <1>1. ServiceOk(c)
    BY DEF ServiceInv
  <1>2. pc \notin {"handshake", "closed", "c2"}
    <2>1. Talk(kind, u, pos, pc, conn[c].ret, c2s[c], s2c[c])
      BY <1>1 DEF ServiceOk, TalkOk, Shaking
    <2> HIDE DEF pc
    <2>2. pc \notin {"handshake", "c2"}
      BY <2>1, Facts, TalkPlace
    <2> QED
      BY <2>2 DEF Waiting, pc
  <1>3. kind \in ClientKind /\ pos \in 1..Len(ScriptOf(kind, u)) + 1
    BY <1>1, <1>2, Conversing
  <1>4. PICK k \in 0..Sent(kind, pos) :
           Heard(kind, u, pos, pc, conn[c].ret, c2s[c], s2c[c], k) /\ pc \in Stage(kind, k)
    BY <1>1, <1>2, Conversing
  <1>5. Op(c).op = "expect" /\ s2c[c] = <<>>
    BY DEF Idle
  <1>6. pos \in 1..Len(ScriptOf(kind, u)) /\ ScriptOf(kind, u)[pos].op = "expect"
    <2>1. Len(ScriptOf(kind, u)) \in Nat
      BY <1>3, ScriptLen
    <2> QED
      BY <1>3, <1>5, <2>1 DEF AtEnd, Op, Script, Client
  <1>7. pc \notin {"closed", "c2", "service_cycle", "start"}
    BY <1>2 DEF Waiting
  <1>8. pos \in Answering(kind) /\ pos # Never
    <2> HIDE DEF kind, u, pos
    <2> QED
      BY <1>3, <1>6, OpsAt DEF OpAt, Never
  <1>9. Sent(kind, pos) \in Nat /\ AnswerTo(kind, pos) <= Sent(kind, pos)
    <2> HIDE DEF kind, pos
    <2> QED
      BY <1>3, <1>8, ExpectStep
  <1>10. k = Sent(kind, pos)
    <2>1. Len(c2s[c]) = 0 + Sent(kind, pos) - k /\ Len(c2s[c]) = 0
      BY <1>4, <1>7 DEF Heard, Pending
    <2> QED
      BY <1>9, <2>1
  <1>11. AnswerTo(kind, pos) \in Nat
    <2> HIDE DEF kind, u, pos
    <2> QED
      BY <1>3, AnswerType
  <1>12. k >= AnswerTo(kind, pos)
    BY <1>9, <1>10, <1>11
  <1>13. Told(s2c[c], Awaits(kind, pos))
    BY <1>4, <1>7, <1>12 DEF Heard
  <1> QED
    BY <1>5, <1>13, Replies

\* However the connections interleave, for clients of every kind: the server
\* serves a client as what it is and with the stream that it named
\* (SrsRtmpServer::identify_client, identify_create_stream_client and the
\* start_* functions), and a client that was told "Start" is served, or found
\* its stream taken (SrsRtmpConn::acquire_publish).
THEOREM ServedAsAskedProved == Spec => []ServedAsAsked
  <1>1. Init => IInv /\ AnswerInv /\ ServiceInv
    BY InitSound, InitAnswers, InitServes
  <1>2. IInv /\ AnswerInv /\ ServiceInv /\ [Next]_vars => IInv' /\ AnswerInv' /\ ServiceInv'
    BY NextSound, NextAnswers, NextServes
  <1>3. IInv /\ AnswerInv /\ ServiceInv => ServedAsAsked
    BY Served
  <1> QED
    BY <1>1, <1>2, <1>3, PTL DEF Spec

\* However the connections interleave, two sources of one stream and short
\* reads included, for clients of every kind: the handshake finds c0 not to be
\* plain text only when it is not, a client is refused for want of a stream
\* only when it names none, and a publisher is turned away only when another
\* connection publishes the stream.
THEOREM RefusedForReasonProved == Spec => []RefusedForReason
  <1>1. Init => IInv /\ AnswerInv /\ ServiceInv
    BY InitSound, InitAnswers, InitServes
  <1>2. IInv /\ AnswerInv /\ ServiceInv /\ [Next]_vars => IInv' /\ AnswerInv' /\ ServiceInv'
    BY NextSound, NextAnswers, NextServes
  <1>3. IInv /\ AnswerInv /\ ServiceInv => RefusedForReason
    BY Refused
  <1> QED
    BY <1>1, <1>2, <1>3, PTL DEF Spec

\* However the connections interleave, for clients of every kind: a thread that
\* waits for a message of its client (expect_message and recv_message in
\* identify_client, start_fmle_publish, ...; no timeout ends the wait) is not
\* waited for by the client, unless that has nothing left to do.
THEOREM NeverBothWaitProved == Spec => []NeverBothWait
  <1>1. Init => IInv /\ AnswerInv /\ ServiceInv
    BY InitSound, InitAnswers, InitServes
  <1>2. IInv /\ AnswerInv /\ ServiceInv /\ [Next]_vars => IInv' /\ AnswerInv' /\ ServiceInv'
    BY NextSound, NextAnswers, NextServes
  <1>3. IInv /\ AnswerInv /\ ServiceInv => NeverBothWait
    BY OneSpeaks
  <1> QED
    BY <1>1, <1>2, <1>3, PTL DEF Spec

-----------------------------------------------------------------------------
(* The handshake of a connection                                           *)

\* What the blocks on their way have to do with each other: c1 is signed, the
\* client will read the s1 that the server remembers, verifies it and answers
\* it.
HelloOk(c) ==
    LET k  == client[c]
        v  == conn[c]
        up == c2s[c]
    IN  /\ v.pc = "handshake" /\ up # <<>> /\ k.schema \in {0, 1} =>
              \E o \in Offsets : up[1].arg.c1 = copy_to(c1_create(k.schema, o, Random(KeySize)), TRUE)
        /\ v.pc = "c2" /\ k.state = "s0s1s2" => s2c[c][1].arg.s1 = v.hello.s1
        /\ v.pc = "c2" /\ k.pos = 1 /\ k.schema \in {0, 1} /\ v.hello.ssl =>
              s1_validate_digest(parse(v.hello.s1, k.schema))
        /\ v.pc = "c2" /\ k.pos = 1 /\ up # <<>> =>
              up[1].arg = ClientAnswer(k.schema \in {0, 1}, k.schema, v.hello.s1)
HelloInv == \A c \in Conn : HelloOk(c)

LEMMA OtherHello ==
  ASSUME NEW d \in Conn, HelloOk(d), client'[d] = client[d], conn'[d] = conn[d],
         c2s'[d] = c2s[d], s2c'[d] = s2c[d]
  PROVE  HelloOk(d)'
  BY DEF HelloOk

\* Nothing is said of a connection whose hands were shaken.
LEMMA NoHello ==
  ASSUME NEW c \in Conn, conn'[c].pc \notin {"handshake", "c2"}
  PROVE  HelloOk(c)'
  BY DEF HelloOk

\* What no script calls.
LEMMA CallNames ==
  ASSUME NEW kind \in ClientKind, NEW u, NEW k \in 1..Total(kind)
  PROVE  Call(kind, u, k).name \notin {"c0c1", "c2"}
  <1> DEFINE Plainly(m) == m.name \notin {"c0c1", "c2"}
  <1>1. /\ Plainly(Control) /\ Plainly(Media)
        /\ \A t, a : /\ Plainly(Msg("connect", t, a)) /\ Plainly(Msg("createStream", t, a))
                     /\ Plainly(Msg("play", t, a)) /\ Plainly(Msg("publish", t, a))
                     /\ Plainly(Msg("pause", t, a)) /\ Plainly(Msg("getLength", t, a))
                     /\ Plainly(Msg("closeStream", t, a)) /\ Plainly(Msg("releaseStream", t, a))
                     /\ Plainly(Msg("FCPublish", t, a)) /\ Plainly(Msg("FCUnpublish", t, a))
                     /\ Plainly(Msg("_checkbw", t, a))
    BY DEF Control, Media, Msg
  <1> SUFFICES Plainly(Call(kind, u, k))
    OBVIOUS
  <1> HIDE DEF Plainly
  <1>2. CASE kind = "play"
    <2>1. k \in 1..9
      BY <1>2 DEF Total
    <2> QED
      BY <1>1, <1>2, <2>1, PlayCalls
  <1>3. CASE kind = "direct"
    <2>1. k \in 1..5
      BY <1>3 DEF Total
    <2> QED
      BY <1>1, <1>3, <2>1, DirectCalls
  <1>4. CASE kind = "flash"
    <2>1. k \in 1..7
      BY <1>4 DEF Total
    <2> QED
      BY <1>1, <1>4, <2>1, FlashCalls
  <1>5. CASE kind = "fmle"
    <2>1. k \in 1..8
      BY <1>5 DEF Total
    <2> QED
      BY <1>1, <1>5, <2>1, FmleCalls
  <1>6. CASE kind = "haivision"
    <2>1. k \in 1..7
      BY <1>6 DEF Total
    <2> QED
      BY <1>1, <1>6, <2>1, HaivisionCalls
  <1>7. CASE kind = "idle"
    <2>1. k \in 1..2
      BY <1>7 DEF Total
    <2> QED
      BY <1>1, <1>7, <2>1, IdleCalls
  <1>8. CASE kind = "nameless"
    <2>1. k \in 1..5
      BY <1>8 DEF Total
    <2> QED
      BY <1>1, <1>8, <2>1, NamelessCalls
  <1>9. CASE kind = "nowhere"
    <2>1. k \in 1..2
      BY <1>9 DEF Total
    <2> QED
      BY <1>1, <1>9, <2>1, NowhereCalls
  <1> QED
    BY <1>2, <1>3, <1>4, <1>5, <1>6, <1>7, <1>8, <1>9 DEF ClientKind

\* The client shakes hands, or goes on to talk.
LEMMA ClientHellos ==
  ASSUME IInv, AnswerInv, ServiceInv, HelloInv, NEW c \in Conn, ClientNext(c) \/ ClientLeave(c)
  PROVE  HelloInv'
  <1>1. PICK A, B : client \in [Conn -> ClientType(A, B)]
    BY DEF IInv, ClientSound
  <1>2. client[c].kind \in ClientKind /\ client[c].pos \in Nat \ {0} /\ \E S : c2s[c] \in Seq(S)
    BY Facts
  <1>3. c2s = [d \in Conn |-> c2s[d]] /\ s2c = [d \in Conn |-> s2c[d]]
    BY DEF IInv, ChannelSound, AnswerInv
  <1>4. HelloOk(c) /\ TalkOk(c) /\ \A d \in Conn : HelloOk(d)
    BY DEF HelloInv, ServiceInv, ServiceOk
  <1>5. conn' = conn
    BY DEF ClientNext, ClientC0C1, ClientC2, ClientReadShort, ClientSend, ClientExpect,
       ClientRefused, ClientLeave
  <1>6. \A d \in Conn \ {c} : c2s'[d] = c2s[d] /\ s2c'[d] = s2c[d] /\ client'[d] = client[d]
    <2>1. CASE ClientC0C1(c)
      BY <1>1, <1>3, <2>1 DEF ClientC0C1
    <2>2. CASE ClientC2(c)
      BY <1>1, <1>3, <2>2 DEF ClientC2
    <2>3. CASE ClientSend(c)
      BY <1>1, <1>3, <2>3 DEF ClientSend
    <2>4. CASE ClientExpect(c)
      BY <1>1, <1>3, <2>4 DEF ClientExpect
    <2>5. CASE ClientRefused(c) \/ ClientLeave(c) \/ ClientReadShort(c)
      BY <1>1, <1>3, <2>5 DEF ClientRefused, ClientLeave, ClientReadShort
    <2> QED
      BY <2>1, <2>2, <2>3, <2>4, <2>5 DEF ClientNext
  <1>7. ASSUME NEW d \in Conn \ {c} PROVE HelloOk(d)'
    BY <1>4, <1>5, <1>6, OtherHello
  <1>8. SUFFICES HelloOk(c)'
    BY <1>7 DEF HelloInv
  <1>9. CASE ClientC0C1(c)
    <2>1. PICK schema \in Schemas[c], o \in Offsets :
            /\ c2s' = [c2s EXCEPT ![c] = Append(@, Bytes("c0c1",
                   [ClientHello(schema \in {0, 1}, schema, o) EXCEPT
                       !.plain = IF schema = Encrypted THEN 6 ELSE @]))]
            /\ client' = [client EXCEPT ![c].state = "s0s1s2", ![c].schema = schema]
      BY <1>9 DEF ClientC0C1
    <2>2. client[c].state = "c0c1"
      BY <1>9 DEF ClientC0C1, Client
    <2>3. c2s[c] = <<>> /\ conn[c].pc = "handshake"
      BY <1>4, <2>2 DEF TalkOk, Shaking
    <2> DEFINE hello == ClientHello(schema \in {0, 1}, schema, o)
               m == Bytes("c0c1", [hello EXCEPT !.plain = IF schema = Encrypted THEN 6 ELSE @])
               c1 == copy_to(c1_create(schema, o, Random(KeySize)), TRUE)
    <2>4. schema \in {0, 1} => m.arg.c1 = c1
      <3> HIDE DEF c1
      <3>1. schema \in {0, 1} => hello = [plain |-> Plain, c1 |-> c1]
        BY DEF ClientHello, c1
      <3> HIDE DEF hello
      <3> QED
        BY <3>1 DEF Bytes
    <2>5. c2s'[c] = Append(c2s[c], m)
      BY <1>3, <2>1
    <2> HIDE DEF m, c1
    <2>6. c2s'[c][1] = m
      BY <2>3, <2>5
    <2>7. client'[c].schema = schema
      BY <1>1, <2>1 DEF ClientType
    <2> QED
      BY <1>5, <2>3, <2>4, <2>6, <2>7 DEF HelloOk, c1
  <1>10. CASE ClientC2(c)
    <2> DEFINE a == ClientAnswer(Signs(c), client[c].schema, Head(s2c[c]).arg.s1)
    <2>1. /\ client[c].state = "s0s1s2" /\ s2c[c] # <<>>
          /\ c2s' = [c2s EXCEPT ![c] = Append(@, Bytes("c2", a))]
          /\ client' = [client EXCEPT ![c].state = "run"]
      BY <1>10 DEF ClientC2, Client
    <2>2. conn[c].pc = "c2" /\ c2s[c] = <<>> /\ s2c[c] # <<>> /\ client[c].pos = 1
      BY <1>4, <2>1 DEF TalkOk, Shaking
    <2>3. Head(s2c[c]) = s2c[c][1]
      <3>1. PICK S : s2c[c] \in Seq(S)
        BY Facts
      <3> QED
        BY <2>2, <3>1
    <2>4. a = ClientAnswer(client[c].schema \in {0, 1}, client[c].schema, conn[c].hello.s1)
      BY <1>4, <2>1, <2>2, <2>3 DEF HelloOk, Signs, Client
    <2> HIDE DEF a
    <2>5. Bytes("c2", a).arg = a
      BY DEF Bytes
    <2>6. c2s'[c][1] = Bytes("c2", a)
      BY <1>3, <2>1, <2>2
    <2>7. client'[c].schema = client[c].schema /\ client'[c].state = "run" /\ client'[c].pos = client[c].pos
      BY <1>1, <2>1 DEF ClientType
    <2> QED
      BY <1>4, <1>5, <2>2, <2>4, <2>5, <2>6, <2>7 DEF HelloOk
  <1>11. ASSUME client[c].state = "run" PROVE conn[c].pc # "handshake"
    BY <1>2, <1>4, <1>11, TalkPlace DEF TalkOk, Shaking
  <1>12. CASE ClientSend(c)
    <2>1. client[c].state = "run" /\ client'[c].pos = client[c].pos + 1 /\ client'[c].state = client[c].state
      BY <1>1, <1>12 DEF ClientSend, ClientType, Client
    <2>2. client'[c].state # "s0s1s2" /\ client'[c].pos # 1
      BY <1>2, <2>1
    <2>3. conn'[c].pc # "handshake"
      BY <1>5, <1>11, <2>1
    <2> QED
      BY <2>2, <2>3 DEF HelloOk
  <1>13. CASE ClientExpect(c)
    <2>1. client[c].state = "run" /\ c2s' = c2s
      BY <1>13 DEF ClientExpect, Client
    <2>2. \/ client' = [client EXCEPT ![c].pos = @ + 1]
          \/ client' = [client EXCEPT ![c].state = "failed"]
          \/ client' = client
      BY <1>13 DEF ClientExpect
    <2>3. /\ client'[c].state # "s0s1s2" /\ client'[c].schema = client[c].schema
          /\ client'[c].pos = 1 => client[c].pos = 1
      BY <1>1, <1>2, <2>1, <2>2 DEF ClientType
    <2> QED
      BY <1>4, <1>5, <1>11, <2>1, <2>3 DEF HelloOk
  <1>14. CASE ClientRefused(c)
    <2>1. c2s' = c2s /\ client' = [client EXCEPT ![c].state = "refused"]
      BY <1>14 DEF ClientRefused
    <2>2. client'[c].state = "refused" /\ client'[c].schema = client[c].schema /\ client'[c].pos = client[c].pos
      BY <1>1, <2>1 DEF ClientType
    <2> QED
      BY <1>4, <1>5, <2>1, <2>2 DEF HelloOk
  <1>15. CASE ClientLeave(c)
    <2>1. client[c].state = "run" /\ c2s' = c2s /\ client' = [client EXCEPT ![c].state = "left"]
      BY <1>15 DEF ClientLeave, Client
    <2>2. client'[c].state = "left" /\ client'[c].schema = client[c].schema /\ client'[c].pos = client[c].pos
      BY <1>1, <2>1 DEF ClientType
    <2> QED
      BY <1>4, <1>5, <2>1, <2>2 DEF HelloOk
  <1>16. CASE ClientReadShort(c)
    <2>1. c2s' = c2s /\ client' = [client EXCEPT ![c].state = "left"]
      BY <1>16 DEF ClientReadShort
    <2>2. client'[c].state = "left" /\ client'[c].schema = client[c].schema /\ client'[c].pos = client[c].pos
      BY <1>1, <2>1 DEF ClientType
    <2> QED
      BY <1>4, <1>5, <2>1, <2>2 DEF HelloOk
  <1> QED
    BY <1>9, <1>10, <1>12, <1>13, <1>14, <1>15, <1>16 DEF ClientNext

\* The server answers c0c1.
LEMMA ShakeHellos ==
  ASSUME IInv, AnswerInv, NEW c \in Conn, ServiceOk(c), HelloOk(c), handshake(c)
  PROVE  HelloOk(c)'
  <1>1. PICK m \in Arrived(c), ssl \in Ssl, o \in Offsets :
          /\ Received(c, "handshake")
          /\ \E answer \in {ServerAnswer(ssl, m.arg, o)} :
                IF answer.ok
                THEN /\ Answer(c, <<Bytes("s0s1s2", answer)>>)
                     /\ conn' = [conn EXCEPT ![c].pc = "c2",
                                  ![c].hello = [ssl |-> ssl, s1 |-> answer.s1]]
                ELSE Close(c, "plain") /\ Silent
    BY DEF handshake
  <1> DEFINE a == ServerAnswer(ssl, m.arg, o)
  <1>2. client' = client
    BY DEF handshake
  <1>3. /\ conn[c].pc = "handshake" /\ c2s'[c] = Tail(c2s[c]) /\ c2s[c] # <<>> /\ m = Head(c2s[c])
    BY <1>1, Exchanges DEF Received, Pc
  <1>4. Len(c2s[c]) = 1 /\ s2c[c] = <<>>
    <2>1. ~Talk(client[c].kind, client[c].url, client[c].pos, conn[c].pc, conn[c].ret, c2s[c], s2c[c])
      BY <1>3, Facts, TalkPlace
    <2> QED
      BY <1>3, <2>1 DEF ServiceOk, TalkOk, Shaking
  <1>5. c2s'[c] = <<>> /\ m = c2s[c][1]
    <2>1. PICK S : c2s[c] \in Seq(S)
      BY Facts
    <2>2. PICK up : up = c2s[c]
      OBVIOUS
    <2>3. Tail(up) \in Seq(S) /\ Len(Tail(up)) = 0 /\ Head(up) = up[1]
      BY <1>3, <1>4, <2>1, <2>2
    <2>4. Tail(up) = <<>>
      BY <2>3, EmptySeq
    <2> QED
      BY <1>3, <2>2, <2>3, <2>4
  <1>6. CASE ~a.ok
    <2>1. Close(c, "plain")
      BY <1>1, <1>6
    <2>2. conn'[c].pc = "closed"
      BY <2>1, Moves
    <2> QED
      BY <2>2, NoHello
  <1>7. CASE a.ok
    <2>1. /\ Answer(c, <<Bytes("s0s1s2", a)>>)
          /\ conn' = [conn EXCEPT ![c].pc = "c2", ![c].hello = [ssl |-> ssl, s1 |-> a.s1]]
      <3> HIDE DEF a
      <3>1. \E answer \in {a} :
                IF answer.ok
                THEN /\ Answer(c, <<Bytes("s0s1s2", answer)>>)
                     /\ conn' = [conn EXCEPT ![c].pc = "c2",
                                  ![c].hello = [ssl |-> ssl, s1 |-> answer.s1]]
                ELSE Close(c, "plain") /\ Silent
        BY <1>1 DEF a
      <3> QED
        BY <1>7, <3>1
    <2>2. client[c].schema \in {0, 1} /\ ssl => s1_validate_digest(parse(a.s1, client[c].schema))
      <3> SUFFICES ASSUME client[c].schema \in {0, 1}, ssl
                   PROVE  s1_validate_digest(parse(a.s1, client[c].schema))
        OBVIOUS
      <3>1. PICK q \in Offsets :
              m.arg.c1 = copy_to(c1_create(client[c].schema, q, Random(KeySize)), TRUE)
        BY <1>3, <1>5 DEF HelloOk
      <3>2. o \in Nat \X Nat /\ q \in Nat \X Nat /\ ssl = TRUE
        BY SessionAssumption
      <3> QED
        BY <3>1, <3>2, SignedHello
    <2> HIDE DEF a
    <2>3. conn'[c].pc = "c2" /\ conn'[c].hello = [ssl |-> ssl, s1 |-> a.s1]
      <3>1. PICK S, H : conn \in [Conn -> ConnType(S, H)]
        BY DEF AnswerInv, ConnSound
      <3> QED
        BY <2>1, <3>1 DEF ConnType
    <2>4. s2c'[c][1].arg = a
      <3>1. s2c'[c] = <<>> \o <<Bytes("s0s1s2", a)>>
        BY <1>4, <2>1, Exchanges
      <3>2. Bytes("s0s1s2", a).arg = a
        BY DEF Bytes
      <3> QED
        BY <3>1, <3>2
    <2> QED
      BY <1>2, <1>5, <2>2, <2>3, <2>4 DEF HelloOk
  <1> QED
    BY <1>6, <1>7

\* Nothing leads back to the handshake.
LEMMA ShakenOnce ==
  ASSUME IInv, AnswerInv, NEW c \in Conn, ServerNext(c), ~handshake(c)
  PROVE  conn'[c].pc \notin {"handshake", "c2"}
  <1> DEFINE Rest(q) == q \notin {"handshake", "c2"}
  <1>1. /\ \A q : To(c, q) => conn'[c].pc = q
        /\ \A r : Close(c, r) => Rest(conn'[c].pc)
        /\ \A t, v : Identified(c, t, v) => Rest(conn'[c].pc)
        /\ \A q, h : Shake(c, q, h) => conn'[c].pc = q
    BY Moves
  <1>2. conn' = conn => conn'[c].pc = conn[c].pc
    OBVIOUS
  <1> HIDE DEF Rest
  <1>3. /\ Rest("connect_app") /\ Rest("service_cycle") /\ Rest("identify") /\ Rest("identify_create_stream")
        /\ Rest("start") /\ Rest("FCPublish") /\ Rest("createStream") /\ Rest("publish") /\ Rest("playing")
        /\ Rest("acquire") /\ Rest("on_publish") /\ Rest("publishing") /\ Rest("join")
    BY DEF Rest
  <1>4. CASE read_c2(c)
    <2>1. Shake(c, "connect_app", None)
      BY <1>4 DEF read_c2, Shake
    <2> QED
      BY <1>1, <1>3, <2>1 DEF Rest
  <1>5. CASE server_connect_app(c) \/ service_cycle(c) \/ token_refused(c)
    BY <1>1, <1>2, <1>3, <1>5 DEF server_connect_app, service_cycle, token_refused, Received, Pc, Rest
  <1>6. CASE identify_client(c) \/ identify_create_stream_client(c)
    BY <1>1, <1>3, <1>6 DEF identify_client, identify_create_stream_client, Stay, Rest
  <1>7. CASE find_source(c) \/ start(c)
    BY <1>1, <1>2, <1>3, <1>7 DEF find_source, start, sessionVars, Pc, Rest
  <1>8. CASE await_FCPublish(c) \/ await_createStream(c) \/ await_publish(c)
    BY <1>1, <1>2, <1>3, <1>8 DEF await_FCPublish, await_createStream, await_publish, Received, Pc, Rest
  <1>9. CASE acquire_publish(c) \/ on_publish(c)
    BY <1>1, <1>3, <1>9 DEF acquire_publish, on_publish, Rest
  <1>10. CASE publishing(c) \/ playing(c)
    BY <1>1, <1>2, <1>3, <1>10 DEF publishing, playing, Received, Pc, Rest
  <1>11. CASE recv_failed(c) \/ read_short(c)
    BY <1>1, <1>11 DEF recv_failed, read_short, Rest
  <1> QED
    BY <1>4, <1>5, <1>6, <1>7, <1>8, <1>9, <1>10, <1>11 DEF ServerNext

LEMMA ServerHellos ==
  ASSUME IInv, AnswerInv, ServiceInv, HelloInv, NEW c \in Conn, ServerNext(c)
  PROVE  HelloInv'
  <1>1. ServiceOk(c) /\ \A d \in Conn : HelloOk(d)
    BY DEF ServiceInv, HelloInv
  <1>2. HelloOk(c)'
    BY <1>1, ShakeHellos, ShakenOnce, NoHello
  <1>3. ASSUME NEW d \in Conn \ {c} PROVE HelloOk(d)'
    <2>1. client'[d] = client[d] /\ conn'[d] = conn[d] /\ c2s'[d] = c2s[d] /\ s2c'[d] = s2c[d]
      BY ServerFrame
    <2> QED
      BY <1>1, <2>1, OtherHello
  <1> QED
    BY <1>2, <1>3 DEF HelloInv

LEMMA NextHellos ==
  ASSUME IInv, AnswerInv, ServiceInv, HelloInv, [Next]_vars
  PROVE  HelloInv'
  <1>1. CASE UNCHANGED vars
    <2>1. client' = client /\ conn' = conn /\ c2s' = c2s /\ s2c' = s2c
      BY <1>1 DEF vars, sessionVars
    <2> QED
      BY <2>1, OtherHello DEF HelloInv
  <1> QED
    BY <1>1, ClientHellos, ServerHellos DEF Next

\* The invariant says what the ends agreed on.
LEMMA Agreed ==
  ASSUME IInv, AnswerInv, ServiceInv, HelloInv
  PROVE  HandshakeAgreed
  <1> SUFFICES ASSUME NEW c \in Conn
               PROVE  /\ conn[c].pc = "c2" /\ c2s[c] # <<>> /\ client[c].pos = 1 =>
                            LET m  == Head(c2s[c])
                                s1 == parse(conn[c].hello.s1, client[c].schema)
                            IN  /\ m.name = "c2"
                                /\ IF ~Signs(c) THEN m.arg = conn[c].hello.s1
                                   ELSE /\ c2s2_validate(m.arg, s1, ClientKey)
                                        /\ conn[c].hello.ssl => s1_validate_digest(s1)
                      /\ conn[c].pc \notin {"handshake", "c2"} =>
                            \A i \in DOMAIN c2s[c] : c2s[c][i].name \notin {"c0c1", "c2"}
    BY DEF HandshakeAgreed, Client, Pc
  <1> DEFINE kind == client[c].kind
             u == client[c].url
             pos == client[c].pos
             pc == conn[c].pc
             up == c2s[c]
  <1>1. TalkOk(c) /\ HelloOk(c) /\ kind \in ClientKind
    BY Facts DEF ServiceInv, ServiceOk, HelloInv
  <1>2. PICK S : up \in Seq(S)
    BY Facts
  <1>3. ASSUME pc = "c2", up # <<>>, pos = 1
        PROVE  LET m  == Head(up)
                   s1 == parse(conn[c].hello.s1, client[c].schema)
               IN  /\ m.name = "c2"
                   /\ IF ~Signs(c) THEN m.arg = conn[c].hello.s1
                      ELSE /\ c2s2_validate(m.arg, s1, ClientKey)
                           /\ conn[c].hello.ssl => s1_validate_digest(s1)
    <2> DEFINE h1 == conn[c].hello.s1
               s1 == parse(h1, client[c].schema)
    <2>1. Head(up) = up[1]
      BY <1>2, <1>3
    <2>2. up[1].name = "c2"
      BY <1>1, <1>3 DEF TalkOk, Shaking, Talk, Heard, Pending
    <2>3. /\ up[1].arg = ClientAnswer(Signs(c), client[c].schema, h1)
          /\ Signs(c) /\ conn[c].hello.ssl => s1_validate_digest(s1)
      BY <1>1, <1>3 DEF HelloOk, Signs, Client
    <2>4. c2s2_validate(c2_create(s1), s1, ClientKey)
      BY SignedAnswer DEF c2_create
    <2>5. ClientAnswer(Signs(c), client[c].schema, h1) = IF Signs(c) THEN c2_create(s1) ELSE h1
      BY DEF ClientAnswer
    <2> QED
      BY <2>1, <2>2, <2>3, <2>4, <2>5
  <1>4. ASSUME pc \notin {"handshake", "c2"}, NEW i \in DOMAIN up
        PROVE  up[i].name \notin {"c0c1", "c2"}
    <2>1. i \in 1..Len(up) /\ Len(up) \in Nat
      BY <1>2
    <2>2. CASE Shaking(client[c].state, client[c].schema, conn[c].pc, conn[c].ret, c2s[c], s2c[c])
      <3>1. up = <<>>
        BY <1>4, <2>2 DEF Shaking
      <3> QED
        BY <2>1, <3>1
    <2>3. CASE Talk(kind, u, pos, pc, conn[c].ret, up, s2c[c])
      <3>1. PICK k \in 0..Sent(kind, pos) : Pending(kind, u, pos, pc, up, k)
        BY <2>3 DEF Talk, Heard
      <3>2. Sent(kind, pos) \in 0..Total(kind) /\ Total(kind) \in Nat
        <4>1. Total(kind) \in Nat
          BY DEF Total
        <4> QED
          BY <1>1, <2>3, <4>1, SentBound DEF Talk
      <3>3. /\ Len(up) = 0 + Sent(kind, pos) - k
            /\ \A j \in 1..Sent(kind, pos) - k : up[0 + j] = Call(kind, u, k + j)
        BY <1>4, <3>1 DEF Pending
      <3> HIDE DEF kind, u, pos, pc, up
      <3>4. i \in 1..Sent(kind, pos) - k /\ 0 + i = i /\ k + i \in 1..Total(kind)
        BY <2>1, <3>2, <3>3
      <3>5. up[i] = Call(kind, u, k + i)
        BY <3>3, <3>4
      <3> QED
        BY <1>1, <3>4, <3>5, CallNames
    <2> QED
      BY <1>1, <2>2, <2>3 DEF TalkOk
  <1> QED
    BY <1>3, <1>4

\* Whatever the offsets and the sizes of the blocks, and however connections
\* interleave: a client and a server that both sign end the handshake with s1
\* and c2 that verify in the schema that the client chose
\* (SrsComplexHandshake::handshake_with_client, c1s1::parse, c2s2), any other
\* pair falls back to the c0c1 already read
\* (SrsSimpleHandshake::handshake_with_client), and nothing of the handshake
\* is left for the messages that follow.
THEOREM HandshakeAgreedProved == Spec => []HandshakeAgreed
  <1>1. Init => IInv /\ AnswerInv /\ ServiceInv /\ HelloInv
    <2>1. Init => HelloInv
      BY DEF Init, HelloInv, HelloOk
    <2> QED
      BY <2>1, InitSound, InitAnswers, InitServes
  <1>2. IInv /\ AnswerInv /\ ServiceInv /\ HelloInv /\ [Next]_vars
            => IInv' /\ AnswerInv' /\ ServiceInv' /\ HelloInv'
    BY NextSound, NextAnswers, NextServes, NextHellos
  <1>3. IInv /\ AnswerInv /\ ServiceInv /\ HelloInv => HandshakeAgreed
    BY Agreed
  <1> QED
    BY <1>1, <1>2, <1>3, PTL DEF Spec

=============================================================================
