-------------------------- MODULE FastVectorProofs --------------------------
(***************************************************************************)
(* One operation at a time, the array under a queue is never written past  *)
(* its end, for every initial capacity and every sequence of pushes,       *)
(* overflows and dumps.                                                    *)
(***************************************************************************)
EXTENDS FastVector, SequenceTheorems, FiniteSetTheorems, TLAPS

\* A set of indices that is not empty has a least and a greatest member.
LEMMA IndexBounds ==
    ASSUME NEW n \in Nat, NEW I \in SUBSET (1..n), I # {}
    PROVE  /\ Min(I) \in I /\ \A i \in I : Min(I) <= i
           /\ Max(I) \in I /\ \A i \in I : i <= Max(I)
<1> DEFINE Up == {1..i : i \in I}
           Down == {i..n : i \in I}
           R == StrictSubsetOrdering(1..n)
           F == FiniteSubsetsOf(1..n)
<1>1. IsWellFoundedOn(R, F)
  BY FS_StrictSubsetOrderingWellFounded
<1>2. IsFiniteSet(1..n)
  BY FS_Interval
<1>3. \A i \in I : (1..i) \in F /\ (i..n) \in F
  BY <1>2, FS_Subset DEF FiniteSubsetsOf
<1>4. Up \subseteq F /\ Up # {} /\ Down \subseteq F /\ Down # {}
  BY <1>3
<1>5. \E i \in I : \A j \in I : i <= j
  <2>1. PICK X \in Up : \A Y \in Up : <<Y, X>> \notin R
    BY <1>1, <1>4, WFMin, Zenon
  <2>2. PICK i \in I : X = 1..i
    OBVIOUS
  <2>3. ASSUME NEW j \in I, j < i PROVE FALSE
    <3>1. (1..j) \subseteq (1..i) /\ i \in (1..i) /\ i \notin (1..j)
      BY <2>3
    <3>2. <<1..j, X>> \in R
      BY <3>1, <2>2, <1>3 DEF StrictSubsetOrdering, FiniteSubsetsOf
    <3> QED BY <2>1, <3>2
  <2> QED BY <2>3
<1>6. \E i \in I : \A j \in I : i >= j
  <2>1. PICK X \in Down : \A Y \in Down : <<Y, X>> \notin R
    BY <1>1, <1>4, WFMin, Zenon
  <2>2. PICK i \in I : X = i..n
    OBVIOUS
  <2>3. ASSUME NEW j \in I, j > i PROVE FALSE
    <3>1. (j..n) \subseteq (i..n) /\ i \in (i..n) /\ i \notin (j..n)
      BY <2>3
    <3>2. <<j..n, X>> \in R
      BY <3>1, <2>2, <1>3 DEF StrictSubsetOrdering, FiniteSubsetsOf
    <3> QED BY <2>1, <3>2
  <2> QED BY <2>3
<1> QED BY <1>5, <1>6 DEF Min, Max

\* One operation at a time, and there is always room for one message.
OneInside ==
    /\ push.pc = "idle" \/ dump.pc = "idle"
    /\ nb_msgs > 0

\* msgs[count++] = msg has room for the message.
RoomToPush ==
    /\ push.pc = "load" => count < nb_msgs
    /\ push.pc = "store" => push.i = count /\ count < nb_msgs

\* shrink looks at the messages that are there.
LooksInside ==
    /\ push.pc = "test" => push.i <= count
    /\ push.pc = "at" => push.i < count

\* A dump takes out no more than there is.
DumpCounts == dump.pc \in {"erase", "count"} => Len(dump.got) <= count

IInv == VectorTypeOK /\ OneInside /\ RoomToPush /\ LooksInside /\ DumpCounts

-----------------------------------------------------------------------------
\* What an action leaves of the invariant when it says of each field of the
\* threads what becomes of it.
LEMMA PushPreserves ==
  ASSUME IInv, dump.pc = "idle", UNCHANGED <<dump, out>>,
         nb_msgs' \in Nat \ {0}, msgs' \in [0..nb_msgs' - 1 -> Nat], count' \in 0..nb_msgs',
         push' \in PushType, pushed' \in Nat,
         RoomToPush', LooksInside'
  PROVE  IInv'
  <1>1. VectorTypeOK'
    BY DEF IInv, VectorTypeOK
  <1>2. OneInside' /\ DumpCounts'
    BY DEF OneInside, DumpCounts
  <1> QED
    BY <1>1, <1>2 DEF IInv

LEMMA EnlargedTyped ==
  ASSUME IInv
  PROVE  /\ Capacity \in Nat \ {0} /\ count < Capacity /\ nb_msgs <= Capacity
         /\ Enlarged \in [0..Capacity - 1 -> Nat]
  <1>1. nb_msgs \in Nat \ {0} /\ count \in 0..nb_msgs
    BY DEF IInv, VectorTypeOK, OneInside
  <1>2. Capacity \in Nat \ {0} /\ count < Capacity /\ nb_msgs <= Capacity
    BY <1>1 DEF Capacity
  <1>3. ASSUME NEW i \in 0..Capacity - 1 PROVE (IF i < nb_msgs THEN msgs[i] ELSE 0) \in Nat
    BY <1>1, <1>2 DEF IInv, VectorTypeOK
  <1> QED
    BY <1>2, <1>3 DEF Enlarged

LEMMA InitInv == VectorInit => IInv
  <1> USE VectorAssumption
  <1>1. << >> \in Seq(Nat)
    BY EmptySeq
  <1>2. ASSUME VectorInit PROVE VectorTypeOK
    BY <1>1, <1>2 DEF VectorInit, VectorTypeOK, Idle, NoDump, PushType, DumpType, PushStep, DumpStep
  <1>3. VectorInit => OneInside /\ RoomToPush /\ LooksInside /\ DumpCounts
    BY DEF VectorInit, OneInside, RoomToPush, LooksInside, DumpCounts, Idle, NoDump
  <1> QED
    BY <1>2, <1>3 DEF IInv

LEMMA PushInv ==
  ASSUME IInv, dump.pc = "idle", PushNext
  PROVE  IInv'
  <1>1. /\ nb_msgs \in Nat \ {0} /\ count \in 0..nb_msgs /\ count \in Nat
        /\ msgs \in [0..nb_msgs - 1 -> Nat] /\ push \in PushType /\ pushed \in Nat
    BY DEF IInv, VectorTypeOK, OneInside
  <1>2. Idle \in PushType
    BY DEF Idle, PushType, PushStep
  <1>3. CASE push_back
    <2>1. push' \in PushType /\ push'.pc = "load" /\ pushed' \in Nat
      <3>1. pushed' = pushed + 1 /\ push' = [Idle EXCEPT !.pc = "load", !.msg = pushed + 1]
        BY <1>3 DEF push_back
      <3>2. push' = [pc |-> "load", msg |-> pushed + 1, i |-> 0, video_sh |-> 0, audio_sh |-> 0]
        BY <3>1 DEF Idle
      <3> QED
        BY <1>1, <3>1, <3>2 DEF PushType, PushStep
    <2>2. nb_msgs' = Capacity /\ msgs' = Enlarged /\ count' = count /\ UNCHANGED <<dump, out>>
      BY <1>3 DEF push_back
    <2>3. RoomToPush' /\ LooksInside'
      BY <1>1, <2>1, <2>2, EnlargedTyped DEF RoomToPush, LooksInside
    <2> QED
      BY <1>1, <2>1, <2>2, <2>3, EnlargedTyped, PushPreserves
  <1>4. CASE load_count
    <2>1. push' \in PushType /\ push'.pc = "store" /\ push'.i = count
      BY <1>1, <1>4 DEF load_count, PushType, PushStep
    <2>2. count < nb_msgs
      BY <1>4 DEF load_count, IInv, RoomToPush
    <2>3. UNCHANGED <<msgs, count, nb_msgs, dump, pushed, out>>
      BY <1>4 DEF load_count
    <2> QED
      BY <1>1, <2>1, <2>2, <2>3, PushPreserves DEF RoomToPush, LooksInside
  <1>5. ASSUME NEW n \in {"test", "return"}, store(n) PROVE IInv'
    <2>1. push' \in PushType /\ push'.pc \in {"idle", "test"} /\ push'.i = 0
      BY <1>2, <1>5 DEF store, Idle, PushType, PushStep
    <2>2. push.i = count /\ count < nb_msgs /\ push.msg \in Nat
      BY <1>1, <1>5 DEF store, IInv, RoomToPush, PushType
    <2>3. msgs' \in [0..nb_msgs - 1 -> Nat]
      BY <1>1, <1>5, <2>2 DEF store
    <2>4. count' = count + 1 /\ UNCHANGED <<nb_msgs, dump, pushed, out>>
      BY <1>5, <2>2 DEF store
    <2> QED
      BY <1>1, <2>1, <2>2, <2>3, <2>4, PushPreserves DEF RoomToPush, LooksInside
  <1>6. CASE shrink_test
    <2>1. push' \in PushType /\ push'.i = push.i /\ push'.pc = IF push.i < count THEN "at" ELSE "clear"
      BY <1>1, <1>6 DEF shrink_test, PushType, PushStep
    <2>2. UNCHANGED <<msgs, count, nb_msgs, dump, pushed, out>>
      BY <1>6 DEF shrink_test
    <2> QED
      BY <1>1, <2>1, <2>2, PushPreserves DEF RoomToPush, LooksInside
  <1>7. CASE shrink_at
    <2>1. push.i \in Nat /\ push.i < count
      BY <1>1, <1>7 DEF shrink_at, IInv, LooksInside, PushType
    <2>2. msgs[push.i] \in Nat
      BY <1>1, <2>1
    <2>3. push' \in PushType /\ push'.pc = "test" /\ push'.i = push.i + 1
      <3> DEFINE m == msgs[push.i]
                 v == IF m \in VideoHeaders THEN m ELSE push.video_sh
                 a == IF m \in AudioHeaders THEN m ELSE push.audio_sh
      <3>1. v \in Nat /\ a \in Nat
        BY <1>1, <2>2 DEF PushType
      <3>2. push' = [push EXCEPT !.pc = "test", !.i = push.i + 1, !.video_sh = v, !.audio_sh = a]
        BY <1>1, <1>7 DEF shrink_at, PushType
      <3> HIDE DEF m, v, a
      <3>3. push' = [pc |-> "test", msg |-> push.msg, i |-> push.i + 1, video_sh |-> v, audio_sh |-> a]
        BY <1>1, <3>2 DEF PushType
      <3>4. push.msg \in Nat
        BY <1>1 DEF PushType
      <3> QED
        BY <2>1, <3>1, <3>3, <3>4 DEF PushType, PushStep
    <2>4. UNCHANGED <<msgs, count, nb_msgs, dump, pushed, out>>
      BY <1>7 DEF shrink_at
    <2> QED
      BY <1>1, <2>1, <2>3, <2>4, PushPreserves DEF RoomToPush, LooksInside
  <1>8. CASE shrink_clear
    <2>1. push' \in PushType /\ push'.pc = "video"
      BY <1>1, <1>8 DEF shrink_clear, PushType, PushStep
    <2>2. count' = 0 /\ UNCHANGED <<msgs, nb_msgs, dump, pushed, out>>
      BY <1>8 DEF shrink_clear
    <2> QED
      BY <1>1, <2>1, <2>2, PushPreserves DEF RoomToPush, LooksInside
  <1>9. ASSUME NEW from, NEW header \in Nat, NEW after \in PushType, after.pc \in {"idle", "audio"},
               reinsert(from, header, after)
        PROVE  IInv'
    <2>1. push' = after /\ UNCHANGED <<dump, pushed, out>>
      BY <1>9 DEF reinsert
    <2>2. RoomToPush' /\ LooksInside'
      BY <1>9, <2>1 DEF RoomToPush, LooksInside
    <2>3. CASE header = 0
      BY <1>1, <1>9, <2>1, <2>2, <2>3, PushPreserves DEF reinsert
    <2>4. CASE header # 0
      <3>1. nb_msgs' = Capacity /\ msgs' = [Enlarged EXCEPT ![count] = header] /\ count' = count + 1
        BY <1>9, <2>4 DEF reinsert
      <3>2. msgs' \in [0..nb_msgs' - 1 -> Nat]
        BY <1>9, <3>1, EnlargedTyped
      <3> QED
        BY <1>1, <1>9, <2>1, <2>2, <3>1, <3>2, EnlargedTyped, PushPreserves
    <2> QED
      BY <2>3, <2>4
  <1>10. CASE shrink_video
    <2>1. push.video_sh \in Nat /\ [push EXCEPT !.pc = "audio"] \in PushType
      BY <1>1 DEF PushType, PushStep
    <2>2. [push EXCEPT !.pc = "audio"].pc = "audio"
      BY <1>1 DEF PushType
    <2> QED
      BY <1>9, <1>10, <2>1, <2>2 DEF shrink_video
  <1>11. CASE shrink_audio
    <2>1. push.audio_sh \in Nat /\ Idle.pc = "idle"
      BY <1>1 DEF PushType, Idle
    <2> QED
      BY <1>2, <1>9, <1>11, <2>1 DEF shrink_audio
  <1> QED
    BY <1>3, <1>4, <1>5, <1>6, <1>7, <1>8, <1>10, <1>11 DEF PushNext

LEMMA DumpInv ==
  ASSUME IInv, push.pc = "idle", DumpNext
  PROVE  IInv'
  <1>1. /\ nb_msgs \in Nat \ {0} /\ count \in 0..nb_msgs /\ count \in Nat
        /\ msgs \in [0..nb_msgs - 1 -> Nat] /\ dump \in DumpType /\ out \in Seq(Nat)
    BY DEF IInv, VectorTypeOK, OneInside
  <1>2. NoDump \in DumpType /\ NoDump.pc = "idle"
    BY EmptySeq DEF NoDump, DumpType, DumpStep
  <1>3. ASSUME UNCHANGED <<push, pushed, nb_msgs>>, msgs' \in [0..nb_msgs - 1 -> Nat], count' \in 0..nb_msgs,
               dump' \in DumpType, out' \in Seq(Nat), DumpCounts'
        PROVE  IInv'
    BY <1>3 DEF IInv, VectorTypeOK, OneInside, RoomToPush, LooksInside
  <1>4. ASSUME NEW max \in 1..MaxPushed, dump_copy(max) PROVE IInv'
    <2> DEFINE n == IF max < count THEN max ELSE count
    <2>1. n \in Nat /\ n <= count
      BY <1>1, VectorAssumption
    <2>2. Prefix(n) \in Seq(Nat) /\ Len(Prefix(n)) = n
      <3>1. \A k \in 1..n : msgs[k - 1] \in Nat
        BY <1>1, <2>1
      <3> QED
        BY <2>1, <3>1 DEF Prefix
    <2>3. dump'.got = Prefix(n) /\ dump' \in DumpType
      BY <1>4, <2>2 DEF dump_copy, DumpType, DumpStep
    <2>4. UNCHANGED <<msgs, count, nb_msgs, push, pushed, out>>
      BY <1>4 DEF dump_copy
    <2> QED
      BY <1>1, <1>3, <2>1, <2>2, <2>3, <2>4 DEF DumpCounts
  <1>5. CASE dump_clear
    <2>1. out' \in Seq(Nat)
      BY <1>1, <1>5 DEF dump_clear, DumpType
    <2> QED
      BY <1>1, <1>2, <1>3, <1>5, <2>1 DEF dump_clear, DumpCounts
  <1>6. CASE erase_move
    <2>1. dump' \in DumpType /\ dump'.got = dump.got /\ dump'.pc = "count"
      BY <1>1, <1>6 DEF erase_move, DumpType, DumpStep
    <2>2. Len(dump.got) \in Nat /\ Len(dump.got) <= count
      BY <1>1, <1>6 DEF erase_move, IInv, DumpCounts, DumpType
    <2>3. msgs' \in [0..nb_msgs - 1 -> Nat]
      BY <1>1, <1>6, <2>2 DEF erase_move
    <2>4. UNCHANGED <<count, nb_msgs, push, pushed, out>>
      BY <1>6 DEF erase_move
    <2> QED
      BY <1>1, <1>3, <2>1, <2>2, <2>3, <2>4 DEF DumpCounts
  <1>7. CASE erase_count
    <2>1. out' \in Seq(Nat)
      BY <1>1, <1>7 DEF erase_count, DumpType
    <2>2. Len(dump.got) \in Nat /\ Len(dump.got) <= count
      BY <1>1, <1>7 DEF erase_count, IInv, DumpCounts, DumpType
    <2>3. count' \in 0..nb_msgs /\ dump' = NoDump /\ UNCHANGED <<msgs, nb_msgs, push, pushed>>
      BY <1>1, <1>7, <2>2 DEF erase_count
    <2> QED
      BY <1>1, <1>2, <1>3, <2>1, <2>3 DEF DumpCounts
  <1> QED
    BY <1>4, <1>5, <1>6, <1>7 DEF DumpNext

LEMMA Inductive == SerialSpec => []IInv
  <1>1. IInv /\ UNCHANGED vectorVars => IInv'
    BY DEF IInv, VectorTypeOK, OneInside, RoomToPush, LooksInside, DumpCounts, vectorVars
  <1>2. IInv /\ [SerialNext]_vectorVars => IInv'
    BY <1>1, PushInv, DumpInv DEF SerialNext
  <1> QED
    BY InitInv, <1>2, PTL DEF SerialSpec

\* The array, its capacity and the locals of both threads keep their types:
\* the array has exactly the cells its capacity says.
THEOREM TypeCorrect == SerialSpec => []VectorTypeOK
  <1>1. IInv => VectorTypeOK
    BY DEF IInv
  <1> QED
    BY <1>1, Inductive, PTL

\* SrsFastVector never writes past the end of its array, whether push_back
\* has doubled it or not, and the assertion of at() never fails in shrink.
THEOREM InBoundsProved == SerialSpec => []InBounds
  <1>1. IInv => InBounds
    BY DEF IInv, VectorTypeOK, RoomToPush, LooksInside, InBounds
  <1> QED
    BY <1>1, Inductive, PTL

-----------------------------------------------------------------------------
(* The array implements the queue. *)

\* h is the last of the first n messages that is in H, 0 if none is.
Latest(h, H, n) ==
    IF h = 0 THEN \A k \in 0..n - 1 : msgs[k] \notin H
    ELSE \E k \in 0..n - 1 : /\ msgs[k] = h /\ h \in H
                             /\ \A j \in k + 1..n - 1 : msgs[j] \notin H

\* The message on its way into the array is one of the publisher's.
Numbered ==
    /\ pushed <= MaxPushed
    /\ push.pc \in {"load", "store"} => push.msg \in 1..MaxPushed

\* shrink has found the latest headers of what it has looked at, and what it
\* has looked at when it is done is everything.
Scanned ==
    /\ push.pc \in {"test", "at"} =>
           /\ Latest(push.video_sh, VideoHeaders, push.i)
           /\ Latest(push.audio_sh, AudioHeaders, push.i)
    /\ push.pc = "clear" =>
           /\ Latest(push.video_sh, VideoHeaders, count)
           /\ Latest(push.audio_sh, AudioHeaders, count)
    /\ push.pc = "video" => count = 0

\* What a dump has copied is what it is about to remove.
Copied ==
    /\ dump.pc \in {"clear", "erase"} => dump.got = Contents(Len(dump.got))
    /\ dump.pc \in {"clear", "erase", "count"} => Len(dump.got) > 0
    /\ dump.pc = "clear" => Len(dump.got) = count

FInv == Numbered /\ Scanned /\ Copied

\* What a step has to do: keep the invariant, and be a step of the queue or
\* none.
Simulates == FInv' /\ [Fifo!FifoNext]_(Fifo!vars)

LEMMA ContentsTyped ==
  ASSUME IInv, NEW n \in Nat, n <= count
  PROVE  Contents(n) \in Seq(Nat) /\ Len(Contents(n)) = n /\ \A k \in 1..n : Contents(n)[k] = msgs[k - 1]
  <1>1. \A k \in 1..n : msgs[k - 1] \in Nat
    BY DEF IInv, VectorTypeOK
  <1> QED
    BY <1>1 DEF Contents

\* The latest header of the contents is the one the scan has found.
LEMMA LatestFound ==
  ASSUME IInv, NEW h \in Nat, NEW H, 0 \notin H, Latest(h, H, count)
  PROVE  LET I == {i \in 1..Len(Contents(count)) : Contents(count)[i] \in H}
             last == IF I # {} THEN Max(I) ELSE 0
         IN  Kept(h) = IF last = 0 THEN <<>> ELSE <<Contents(count)[last]>>
  <1> DEFINE c == Contents(count)
             I == {i \in 1..Len(c) : c[i] \in H}
             last == IF I # {} THEN Max(I) ELSE 0
  <1>1. count \in Nat /\ Len(c) = count /\ \A k \in 1..count : c[k] = msgs[k - 1]
    BY ContentsTyped DEF IInv, VectorTypeOK
  <1> HIDE DEF c
  <1>2. CASE h = 0
    <2>1. \A k \in 0..count - 1 : msgs[k] \notin H
      BY <1>2 DEF Latest
    <2>2. I = {}
      BY <1>1, <2>1
    <2> QED
      BY <1>2, <2>2 DEF Kept, c
  <1>3. CASE h # 0
    <2>1. PICK k \in 0..count - 1 : /\ msgs[k] = h /\ h \in H
                                    /\ \A j \in k + 1..count - 1 : msgs[j] \notin H
      BY <1>3 DEF Latest
    <2>2. k + 1 \in I
      BY <1>1, <2>1
    <2>3. \A i \in I : i <= k + 1
      <3> SUFFICES ASSUME NEW i \in I, i > k + 1 PROVE FALSE
        BY <1>1, <2>1
      <3>1. i - 1 \in k + 1..count - 1 /\ msgs[i - 1] \in H
        BY <1>1, <2>1
      <3> QED
        BY <2>1, <3>1
    <2>4. I \in SUBSET (1..count)
      BY <1>1
    <2> HIDE DEF I
    <2>5. Max(I) \in I /\ \A i \in I : i <= Max(I)
      BY <1>1, <2>2, <2>4, IndexBounds
    <2>6. Max(I) = k + 1
      <3>1. Max(I) <= k + 1 /\ k + 1 <= Max(I)
        BY <2>2, <2>3, <2>5
      <3>2. Max(I) \in 1..count
        BY <2>4, <2>5
      <3> QED
        BY <1>1, <3>1, <3>2
    <2>7. last = k + 1 /\ last # 0 /\ c[last] = h
      BY <1>1, <2>1, <2>2, <2>6
    <2> QED
      BY <1>3, <2>7 DEF Kept, c, I
  <1> QED
    BY <1>2, <1>3

LEMMA SameMax == \A S : Fifo!Max(S) = Max(S)
  BY Zenon DEF Fifo!Max, Max

\* One message further, the latest header is that message or the one before.
LEMMA LatestNext ==
  ASSUME NEW h, NEW H, 0 \notin H, NEW i \in Nat, Latest(h, H, i)
  PROVE  Latest(IF msgs[i] \in H THEN msgs[i] ELSE h, H, i + 1)
  <1>1. CASE msgs[i] \in H
    <2>1. i \in 0..(i + 1) - 1 /\ \A j \in i + 1..(i + 1) - 1 : msgs[j] \notin H
      OBVIOUS
    <2> QED
      BY <1>1, <2>1 DEF Latest
  <1>2. CASE msgs[i] \notin H /\ h = 0
    <2>1. \A k \in 0..(i + 1) - 1 : k \in 0..i - 1 \/ k = i
      OBVIOUS
    <2> QED
      BY <1>2, <2>1 DEF Latest
  <1>3. CASE msgs[i] \notin H /\ h # 0
    <2>1. PICK k \in 0..i - 1 : msgs[k] = h /\ h \in H /\ \A j \in k + 1..i - 1 : msgs[j] \notin H
      BY <1>3 DEF Latest
    <2>2. \A j \in k + 1..(i + 1) - 1 : j \in k + 1..i - 1 \/ j = i
      OBVIOUS
    <2>3. k \in 0..(i + 1) - 1
      OBVIOUS
    <2> QED
      BY <1>3, <2>1, <2>2, <2>3 DEF Latest
  <1> QED
    BY <1>1, <1>2, <1>3

\* Every step of the publisher's thread is one of the queue's or none: store
\* pushes, clearing the array is the overflow.
LEMMA PushSimulates ==
  ASSUME IInv, IInv', FInv, dump.pc = "idle", PushNext
  PROVE  Simulates
  <1>1. /\ nb_msgs \in Nat \ {0} /\ count \in 0..nb_msgs /\ count \in Nat
        /\ msgs \in [0..nb_msgs - 1 -> Nat] /\ push \in PushType /\ pushed \in Nat
    BY DEF IInv, VectorTypeOK, OneInside
  <1>2. UNCHANGED <<dump, out>> /\ dump.pc = "idle" /\ Copied'
    <2>1. UNCHANGED <<dump, out>>
      BY DEF PushNext, push_back, load_count, store, shrink_test, shrink_at, shrink_clear, shrink_video,
             shrink_audio, reinsert
    <2> QED
      BY <2>1 DEF Copied
  <1>3. ASSUME AbstractQueue' = AbstractQueue, Numbered', Scanned' PROVE Simulates
    BY <1>2, <1>3 DEF Simulates, FInv, Fifo!vars
  <1>4. CASE push_back
    <2>1. push' = [pc |-> "load", msg |-> pushed + 1, i |-> 0, video_sh |-> 0, audio_sh |-> 0]
      BY <1>4 DEF push_back, Idle
    <2>2. pushed' = pushed + 1 /\ pushed < MaxPushed /\ count' = count /\ msgs' = Enlarged
      BY <1>4 DEF push_back
    <2>3. Numbered' /\ Scanned'
      BY <1>1, <2>1, <2>2, VectorAssumption DEF Numbered, Scanned
    <2>4. Contents(count)' = Contents(count)
      <3>1. \A k \in 1..count : msgs'[k - 1] = msgs[k - 1]
        BY <1>1, <2>2, EnlargedTyped DEF Enlarged
      <3> QED
        BY <2>2, <3>1 DEF Contents
    <2>5. push.pc = "idle"
      BY <1>4 DEF push_back
    <2> QED
      BY <1>2, <1>3, <2>1, <2>3, <2>4, <2>5 DEF AbstractQueue
  <1>5. CASE load_count
    <2>1. push.pc = "load" /\ push'.pc = "store" /\ push'.msg = push.msg
          /\ UNCHANGED <<msgs, count, nb_msgs, pushed>>
      BY <1>1, <1>5 DEF load_count, PushType
    <2>2. Numbered' /\ Scanned'
      BY <1>1, <2>1 DEF FInv, Numbered, Scanned
    <2> QED
      BY <1>2, <1>3, <2>1, <2>2 DEF AbstractQueue, Contents
  <1>6. ASSUME NEW next \in {"test", "return"}, store(next) PROVE Simulates
    <2>1. push.pc = "store" /\ push.i = count /\ count < nb_msgs /\ push.msg \in 1..MaxPushed
      BY <1>6 DEF store, IInv, RoomToPush, FInv, Numbered
    <2>2. msgs' = [msgs EXCEPT ![count] = push.msg] /\ count' = count + 1 /\ UNCHANGED <<nb_msgs, pushed>>
      BY <1>6, <2>1 DEF store
    <2>3. push'.pc \in {"idle", "test"} /\ push'.i = 0 /\ push'.video_sh = 0 /\ push'.audio_sh = 0
      BY <1>6 DEF store, Idle
    <2>4. Numbered' /\ Scanned'
      BY <2>2, <2>3 DEF FInv, Numbered, Scanned, Latest
    <2>5. AbstractQueue = Contents(count) /\ AbstractQueue' = Contents(count)'
      BY <1>2, <2>1, <2>2, <2>3 DEF AbstractQueue, Contents
    <2>6. Contents(count)' = Append(Contents(count), push.msg)
      <3> DEFINE s == Contents(count)'
                 t == Append(Contents(count), push.msg)
      <3>1. Contents(count) \in Seq(Nat) /\ Len(Contents(count)) = count
            /\ \A k \in 1..count : Contents(count)[k] = msgs[k - 1]
        BY <1>1, ContentsTyped
      <3>2. t \in Seq(Nat) /\ Len(t) = count + 1
            /\ \A k \in 1..count + 1 : t[k] = IF k = count + 1 THEN push.msg ELSE Contents(count)[k]
        BY <1>1, <2>1, <3>1, VectorAssumption
      <3>3. s = [k \in 1..count + 1 |-> msgs'[k - 1]]
        BY <2>2 DEF Contents
      <3>4. \A k \in 1..count + 1 : msgs'[k - 1] \in Nat /\ msgs'[k - 1] = IF k = count + 1 THEN push.msg ELSE msgs[k - 1]
        BY <1>1, <2>1, <2>2, VectorAssumption
      <3>5. s \in Seq(Nat) /\ Len(s) = count + 1 /\ \A k \in 1..count + 1 : s[k] = msgs'[k - 1]
        BY <1>1, <3>3, <3>4
      <3> HIDE DEF s, t
      <3>6. ASSUME NEW k \in 1..count + 1 PROVE s[k] = t[k]
        <4>1. k = count + 1 \/ k \in 1..count
          BY <1>1
        <4> QED
          BY <3>1, <3>2, <3>4, <3>5, <4>1
      <3>7. s = t
        BY <3>2, <3>5, <3>6, SeqEqual
      <3> QED
        BY <3>7 DEF s, t
    <2>7. Fifo!Push(push.msg)
      BY <1>2, <2>5, <2>6 DEF Fifo!Push
    <2> QED
      BY <1>2, <2>1, <2>4, <2>7 DEF Simulates, FInv, Fifo!FifoNext
  <1>7. CASE shrink_test
    <2>1. push.pc = "test" /\ push'.pc = (IF push.i < count THEN "at" ELSE "clear") /\ push'.i = push.i
          /\ push'.video_sh = push.video_sh /\ push'.audio_sh = push.audio_sh
          /\ UNCHANGED <<msgs, count, nb_msgs, pushed>>
      BY <1>1, <1>7 DEF shrink_test, PushType
    <2>2. push.i \in Nat /\ push.i <= count
      BY <1>1, <2>1 DEF IInv, LooksInside, PushType
    <2>3. ~(push.i < count) => push.i = count
      BY <1>1, <2>2
    <2>4. Numbered' /\ Scanned'
      BY <1>1, <2>1, <2>3 DEF FInv, Numbered, Scanned, Latest
    <2> QED
      BY <1>2, <1>3, <2>1, <2>4 DEF AbstractQueue, Contents
  <1>8. CASE shrink_at
    <2> DEFINE m == msgs[push.i]
               v == IF m \in VideoHeaders THEN m ELSE push.video_sh
               a == IF m \in AudioHeaders THEN m ELSE push.audio_sh
    <2>1. push.pc = "at" /\ push.i \in Nat
      BY <1>1, <1>8 DEF shrink_at, PushType
    <2>2. push'.pc = "test" /\ push'.i = push.i + 1 /\ push'.video_sh = v /\ push'.audio_sh = a
      BY <1>1, <1>8 DEF shrink_at, PushType
    <2>3. UNCHANGED <<msgs, count, nb_msgs, pushed>>
      BY <1>8 DEF shrink_at
    <2>4. Latest(v, VideoHeaders, push.i + 1) /\ Latest(a, AudioHeaders, push.i + 1)
      <3>1. Latest(push.video_sh, VideoHeaders, push.i) /\ Latest(push.audio_sh, AudioHeaders, push.i)
        BY <2>1 DEF FInv, Scanned
      <3>2. 0 \notin VideoHeaders /\ 0 \notin AudioHeaders
        BY VectorAssumption
      <3> QED
        BY <2>1, <3>1, <3>2, LatestNext
    <2> HIDE DEF v, a
    <2>5. Numbered' /\ Scanned'
      BY <2>2, <2>3, <2>4 DEF FInv, Numbered, Scanned, Latest
    <2> QED
      BY <1>2, <1>3, <2>1, <2>2, <2>3, <2>5 DEF AbstractQueue, Contents
  <1>9. CASE shrink_clear
    <2>1. push.pc = "clear" /\ push'.pc = "video" /\ count' = 0 /\ UNCHANGED <<msgs, nb_msgs, pushed>>
          /\ push'.video_sh = push.video_sh /\ push'.audio_sh = push.audio_sh
          /\ push.video_sh \in Nat /\ push.audio_sh \in Nat
      BY <1>1, <1>9 DEF shrink_clear, PushType
    <2>2. Numbered' /\ Scanned'
      BY <2>1 DEF FInv, Numbered, Scanned
    <2>3. AbstractQueue = Contents(count) /\ AbstractQueue' = Kept(push.video_sh) \o Kept(push.audio_sh)
      BY <1>2, <2>1 DEF AbstractQueue, Kept
    <2>4. Latest(push.video_sh, VideoHeaders, count) /\ Latest(push.audio_sh, AudioHeaders, count)
      BY <2>1 DEF FInv, Scanned
    <2>5. 0 \notin VideoHeaders /\ 0 \notin AudioHeaders
      BY VectorAssumption
    <2>6. Kept(push.video_sh) = Fifo!LatestHeader(1)
      BY <2>1, <2>3, <2>4, <2>5, LatestFound, SameMax DEF Fifo!LatestHeader, Fifo!SelectLastInSeq
    <2>7. Kept(push.audio_sh) = Fifo!LatestHeader(2)
      BY <2>1, <2>3, <2>4, <2>5, LatestFound, SameMax DEF Fifo!LatestHeader, Fifo!SelectLastInSeq
    <2>8. Fifo!Overflow
      BY <1>2, <2>3, <2>6, <2>7 DEF Fifo!Overflow
    <2> QED
      BY <1>2, <2>2, <2>8 DEF Simulates, FInv, Fifo!FifoNext
  <1>10. ASSUME NEW from, NEW header \in Nat, NEW after, reinsert(from, header, after)
         PROVE  Contents(count)' = Contents(count) \o Kept(header) /\ push.pc = from /\ push' = after /\ pushed' = pushed
    <2>1. push.pc = from /\ push' = after /\ pushed' = pushed
      BY <1>10 DEF reinsert
    <2>2. Contents(count) \in Seq(Nat) /\ Len(Contents(count)) = count
          /\ \A k \in 1..count : Contents(count)[k] = msgs[k - 1]
      BY <1>1, ContentsTyped
    <2>3. CASE header = 0
      <3>1. Contents(count)' = Contents(count)
        BY <1>10, <2>3 DEF reinsert, Contents
      <3> QED
        BY <2>1, <2>2, <2>3, <3>1 DEF Kept
    <2>4. CASE header # 0
      <3> DEFINE s == Contents(count)'
                 t == Contents(count) \o <<header>>
      <3>1. msgs' = [Enlarged EXCEPT ![count] = header] /\ count' = count + 1
        BY <1>10, <2>4 DEF reinsert
      <3>2. \A k \in 1..count + 1 : msgs'[k - 1] \in Nat /\ msgs'[k - 1] = IF k = count + 1 THEN header ELSE msgs[k - 1]
        BY <1>1, <1>10, <3>1, EnlargedTyped DEF Enlarged
      <3>3. s = [k \in 1..count + 1 |-> msgs'[k - 1]]
        BY <3>1 DEF Contents
      <3>4. s \in Seq(Nat) /\ Len(s) = count + 1 /\ \A k \in 1..count + 1 : s[k] = msgs'[k - 1]
        BY <1>1, <3>2, <3>3
      <3>5. t \in Seq(Nat) /\ Len(t) = count + 1
            /\ \A k \in 1..count + 1 : t[k] = IF k = count + 1 THEN header ELSE Contents(count)[k]
        BY <1>1, <1>10, <2>2
      <3> HIDE DEF s, t
      <3>6. ASSUME NEW k \in 1..count + 1 PROVE s[k] = t[k]
        <4>1. k = count + 1 \/ k \in 1..count
          BY <1>1
        <4> QED
          BY <2>2, <3>2, <3>4, <3>5, <4>1
      <3>7. s = t
        BY <3>4, <3>5, <3>6, SeqEqual
      <3> QED
        BY <2>1, <2>4, <3>7 DEF Kept, s, t
    <2> QED
      BY <2>3, <2>4
  <1>11. CASE shrink_video
    <2>1. push.video_sh \in Nat /\ push.audio_sh \in Nat
      BY <1>1 DEF PushType
    <2>2. Contents(count)' = Contents(count) \o Kept(push.video_sh) /\ push.pc = "video"
          /\ push' = [push EXCEPT !.pc = "audio"] /\ pushed' = pushed
      BY <1>10, <1>11, <2>1 DEF shrink_video
    <2>3. count = 0
      BY <2>2 DEF FInv, Scanned
    <2>4. Contents(count)' = Kept(push.video_sh)
      <3>1. Contents(count) = <<>>
        BY <2>3, ContentsTyped
      <3> QED
        BY <2>1, <2>2, <3>1 DEF Kept
    <2>5. push'.pc = "audio" /\ push'.audio_sh = push.audio_sh
      BY <1>1, <2>2 DEF PushType
    <2>6. Numbered' /\ Scanned'
      BY <2>2, <2>5 DEF FInv, Numbered, Scanned
    <2>7. AbstractQueue' = AbstractQueue
      BY <2>2, <2>4, <2>5 DEF AbstractQueue
    <2> QED
      BY <1>3, <2>6, <2>7
  <1>12. CASE shrink_audio
    <2>1. push.audio_sh \in Nat
      BY <1>1 DEF PushType
    <2>2. Contents(count)' = Contents(count) \o Kept(push.audio_sh) /\ push.pc = "audio"
          /\ push' = Idle /\ pushed' = pushed
      BY <1>10, <1>12, <2>1 DEF shrink_audio
    <2>3. push'.pc = "idle"
      BY <2>2 DEF Idle
    <2>4. Numbered' /\ Scanned'
      BY <2>2, <2>3 DEF FInv, Numbered, Scanned
    <2>5. AbstractQueue' = AbstractQueue
      BY <1>2, <2>2, <2>3 DEF AbstractQueue
    <2> QED
      BY <1>3, <2>4, <2>5
  <1> QED
    BY <1>4, <1>5, <1>6, <1>7, <1>8, <1>9, <1>11, <1>12 DEF PushNext

LEMMA ConcatThenRest ==
  ASSUME NEW S, NEW s \in Seq(S), NEW t \in Seq(S)
  PROVE  SubSeq(s \o t, Len(s) + 1, Len(s \o t)) = t
  <1> DEFINE u == s \o t
             r == SubSeq(u, Len(s) + 1, Len(u))
  <1>1. u \in Seq(S) /\ Len(u) = Len(s) + Len(t) /\ \A i \in 1..Len(t) : u[Len(s) + i] = t[i]
    OBVIOUS
  <1>2. Len(s) \in Nat /\ Len(t) \in Nat
    OBVIOUS
  <1> HIDE DEF u
  <1>3. r \in Seq(S) /\ Len(r) = Len(t) /\ \A i \in 1..Len(t) : r[i] = u[Len(s) + i]
    BY <1>1, <1>2
  <1> HIDE DEF r
  <1>4. r = t
    BY <1>1, <1>3, SeqEqual
  <1> QED
    BY <1>4 DEF r, u

\* Every step of the player's thread is one of the queue's or none: the step
\* that counts down hands out what was copied.
LEMMA DumpSimulates ==
  ASSUME IInv, IInv', FInv, push.pc = "idle", DumpNext
  PROVE  Simulates
  <1>1. /\ nb_msgs \in Nat \ {0} /\ count \in 0..nb_msgs /\ count \in Nat
        /\ msgs \in [0..nb_msgs - 1 -> Nat] /\ dump \in DumpType /\ out \in Seq(Nat)
        /\ dump.got \in Seq(Nat) /\ Len(dump.got) \in Nat
    BY DEF IInv, VectorTypeOK, OneInside, DumpType
  <1>2. UNCHANGED <<push, pushed, nb_msgs>> /\ Numbered' /\ Scanned'
    <2>1. UNCHANGED <<push, pushed, nb_msgs>>
      BY DEF DumpNext, dump_copy, dump_clear, erase_move, erase_count
    <2> QED
      BY <2>1 DEF FInv, Numbered, Scanned
  <1>3. ASSUME AbstractQueue' = AbstractQueue, out' = out, Copied' PROVE Simulates
    BY <1>2, <1>3 DEF Simulates, FInv, Fifo!vars
  <1>4. ASSUME NEW n \in 1..Len(AbstractQueue), Fifo!Dump(n), Copied' PROVE Simulates
    BY <1>2, <1>4 DEF Simulates, FInv, Fifo!FifoNext
  <1>5. NoDump.pc = "idle"
    BY DEF NoDump
  <1>6. ASSUME NEW max \in 1..MaxPushed, dump_copy(max) PROVE Simulates
    <2> DEFINE n == IF max < count THEN max ELSE count
    <2>1. n \in Nat /\ n <= count /\ n > 0 /\ (n >= count => n = count)
      BY <1>1, <1>6, VectorAssumption DEF dump_copy
    <2>2. dump' = [pc |-> IF n >= count THEN "clear" ELSE "erase", got |-> Contents(n)] /\ dump.pc = "idle"
          /\ UNCHANGED <<msgs, count, nb_msgs, out>>
      BY <1>6 DEF dump_copy, Prefix, Contents
    <2> HIDE DEF n
    <2>3. Len(Contents(n)) = n
      BY <2>1, ContentsTyped
    <2>4. Contents(count)' = Contents(count)
      BY <2>2 DEF Contents
    <2>5. dump'.got = Contents(n) /\ dump'.pc \in {"clear", "erase"} /\ (dump'.pc = "clear" => n = count)
      BY <2>1, <2>2
    <2>6. Copied'
      <3>1. Contents(n) = [k \in 1..n |-> msgs'[k - 1]]
        BY <2>2 DEF Contents
      <3>2. Contents(Len(dump.got))' = [k \in 1..n |-> msgs'[k - 1]]
        BY <2>3, <2>5 DEF Contents
      <3> QED
        BY <2>1, <2>2, <2>3, <2>5, <3>1, <3>2 DEF Copied
    <2> QED
      BY <1>2, <1>3, <2>2, <2>4, <2>5, <2>6 DEF AbstractQueue
  <1>7. CASE dump_clear
    <2>1. dump.pc = "clear" /\ count' = 0 /\ out' = out \o dump.got /\ dump' = NoDump
      BY <1>7 DEF dump_clear
    <2>2. Len(dump.got) = count /\ count > 0 /\ dump.got = Contents(count)
      BY <2>1 DEF FInv, Copied
    <2>3. AbstractQueue = Contents(count) /\ AbstractQueue' = Contents(count)'
      BY <1>2, <1>5, <2>1 DEF AbstractQueue
    <2>4. Contents(count)' = <<>>
      BY <2>1 DEF Contents
    <2>5. Fifo!Dump(count) /\ count \in 1..Len(AbstractQueue)
      <3>1. SubSeq(AbstractQueue, 1, count) = dump.got /\ SubSeq(AbstractQueue, count + 1, Len(AbstractQueue)) = <<>>
        BY <1>1, <2>2, <2>3
      <3>2. Len(AbstractQueue) = count /\ count \in 1..Len(AbstractQueue) /\ count <= Len(AbstractQueue)
        BY <1>1, <2>2, <2>3
      <3>3. out' = out \o SubSeq(AbstractQueue, 1, count)
        BY <2>1, <3>1
      <3>4. AbstractQueue' = SubSeq(AbstractQueue, count + 1, Len(AbstractQueue))
        BY <2>3, <2>4, <3>1
      <3> QED
        BY <3>2, <3>3, <3>4 DEF Fifo!Dump
    <2>6. Copied'
      BY <1>5, <2>1 DEF Copied
    <2> QED
      BY <1>4, <2>5, <2>6
  <1>8. CASE erase_move
    <2> DEFINE n == Len(dump.got)
    <2>1. dump.pc = "erase" /\ dump'.pc = "count" /\ dump'.got = dump.got /\ UNCHANGED <<count, nb_msgs, out>>
          /\ msgs' = [i \in DOMAIN msgs |-> IF i + n < count THEN msgs[i + n] ELSE msgs[i]]
      BY <1>1, <1>8 DEF erase_move, DumpType
    <2>2. n <= count /\ n > 0 /\ dump.got = Contents(n) /\ n \in Nat
      BY <1>1, <2>1 DEF FInv, Copied, IInv, DumpCounts
    <2>3. Contents(count) \in Seq(Nat) /\ Len(Contents(count)) = count
          /\ \A k \in 1..count : Contents(count)[k] = msgs[k - 1]
      BY <1>1, ContentsTyped
    <2>4. \A k \in 1..n : dump.got[k] = msgs[k - 1]
      BY <2>2, ContentsTyped
    <2> DEFINE t == [k \in 1..count - n |-> msgs'[k - 1]]
    <2>5. ASSUME NEW k \in 1..count - n PROVE msgs'[k - 1] = msgs[k + n - 1] /\ msgs[k + n - 1] \in Nat
      <3>1. k - 1 \in 0..nb_msgs - 1 /\ (k - 1) + n = k + n - 1 /\ k + n - 1 < count /\ k + n - 1 \in 0..nb_msgs - 1
        BY <1>1, <2>2
      <3>2. DOMAIN msgs = 0..nb_msgs - 1
        BY <1>1
      <3>3. msgs'[k - 1] = IF (k - 1) + n < count THEN msgs[(k - 1) + n] ELSE msgs[k - 1]
        BY <2>1, <3>1, <3>2
      <3> QED
        BY <1>1, <3>1, <3>3
    <2>6. t \in Seq(Nat) /\ Len(t) = count - n /\ \A k \in 1..count - n : t[k] = msgs[k + n - 1]
      <3>1. count - n \in Nat
        BY <1>1, <2>2
      <3> QED
        BY <2>5, <3>1
    <2>7. AbstractQueue = Contents(count) /\ AbstractQueue' = dump.got \o t
      BY <1>2, <2>1 DEF AbstractQueue, Contents
    <2> HIDE DEF t
    <2>8. dump.got \o t \in Seq(Nat) /\ Len(dump.got \o t) = count
          /\ \A k \in 1..count : (dump.got \o t)[k] = IF k <= n THEN dump.got[k] ELSE t[k - n]
      BY <1>1, <2>2, <2>6
    <2>9. ASSUME NEW k \in 1..count PROVE (dump.got \o t)[k] = Contents(count)[k]
      <3> HIDE DEF n
      <3>1. CASE k <= n
        <4>1. (dump.got \o t)[k] = dump.got[k]
          BY <2>8, <3>1
        <4>2. k \in 1..n
          BY <1>1, <2>2, <3>1
        <4> QED
          BY <2>3, <2>4, <4>1, <4>2
      <3>2. CASE k > n
        <4>1. k - n \in 1..count - n /\ (k - n) + n - 1 = k - 1
          BY <1>1, <2>2, <3>2
        <4>2. (dump.got \o t)[k] = t[k - n]
          <5>1. ~(k <= n)
            BY <1>1, <2>2, <3>2
          <5> QED
            BY <2>8, <5>1
        <4>3. t[k - n] = msgs[k - 1]
          <5>1. t[k - n] = msgs[(k - n) + n - 1]
            BY <2>6, <4>1
          <5> QED
            BY <4>1, <5>1
        <4> QED
          BY <2>3, <4>2, <4>3
      <3>3. k <= n \/ k > n
        BY <1>1, <2>2
      <3> QED
        BY <3>1, <3>2, <3>3
    <2>10. dump.got \o t = Contents(count)
      BY <2>3, <2>8, <2>9, SeqEqual
    <2>11. Copied'
      BY <2>1, <2>2 DEF Copied
    <2> QED
      BY <1>3, <2>1, <2>7, <2>10, <2>11
  <1>9. CASE erase_count
    <2> DEFINE n == Len(dump.got)
               rest == Contents(count - n)
    <2>1. dump.pc = "count" /\ count' = count - n /\ out' = out \o dump.got /\ dump' = NoDump /\ msgs' = msgs
      BY <1>9 DEF erase_count
    <2>2. n <= count /\ n > 0 /\ n \in Nat /\ count - n \in Nat /\ count - n <= count
      BY <1>1, <2>1 DEF FInv, Copied, IInv, DumpCounts
    <2>3. AbstractQueue = dump.got \o rest /\ AbstractQueue' = rest
      BY <1>2, <1>5, <2>1 DEF AbstractQueue, Contents
    <2>4. rest \in Seq(Nat)
      BY <2>2, ContentsTyped
    <2> HIDE DEF rest
    <2>5. SubSeq(dump.got \o rest, 1, n) = dump.got
      BY <1>1, <2>4
    <2>6. SubSeq(dump.got \o rest, n + 1, Len(dump.got \o rest)) = rest
      BY <1>1, <2>4, ConcatThenRest
    <2>7. Fifo!Dump(n) /\ n \in 1..Len(AbstractQueue)
      <3>1. n \in 1..Len(AbstractQueue) /\ n <= Len(AbstractQueue)
        BY <1>1, <2>2, <2>3, <2>4
      <3>2. out' = out \o SubSeq(AbstractQueue, 1, n)
        BY <2>1, <2>3, <2>5
      <3>3. AbstractQueue' = SubSeq(AbstractQueue, n + 1, Len(AbstractQueue))
        BY <2>3, <2>6
      <3> QED
        BY <3>1, <3>2, <3>3 DEF Fifo!Dump
    <2>8. Copied'
      BY <1>5, <2>1 DEF Copied
    <2> QED
      BY <1>4, <2>7, <2>8
  <1> QED
    BY <1>6, <1>7, <1>8, <1>9 DEF DumpNext

\* One operation at a time, SrsFastVector is the queue it stands for, whatever
\* its first capacity: however push_back doubles it, erase moves its messages
\* and shrink clears it, messages leave in the order in which they came, each
\* once, and an overflow keeps exactly the latest sequence header of each
\* medium.
THEOREM ImplementsFifoProved == SerialSpec => ImplementsFifo
  <1>1. VectorInit => FInv /\ Fifo!FifoInit
    <2> SUFFICES ASSUME VectorInit PROVE FInv /\ Fifo!FifoInit
      OBVIOUS
    <2>1. push.pc = "idle" /\ dump.pc = "idle" /\ pushed = 0 /\ count = 0 /\ out = <<>>
      BY DEF VectorInit, Idle, NoDump
    <2>2. FInv
      BY <2>1, VectorAssumption DEF FInv, Numbered, Scanned, Copied
    <2> QED
      BY <2>1, <2>2 DEF Fifo!FifoInit, AbstractQueue, Contents
  <1>2. ASSUME IInv, IInv', FInv, [SerialNext]_vectorVars PROVE Simulates
    <2>1. CASE SerialNext
      BY <1>2, <2>1, PushSimulates, DumpSimulates DEF SerialNext
    <2>2. CASE UNCHANGED vectorVars
      BY <1>2, <2>2 DEF vectorVars, Simulates, FInv, Numbered, Scanned, Copied, Latest, Contents, AbstractQueue, Fifo!vars
    <2> QED
      BY <1>2, <2>1, <2>2
  <1>3. IInv /\ IInv' /\ FInv /\ [SerialNext]_vectorVars => FInv' /\ [Fifo!FifoNext]_(Fifo!vars)
    BY <1>2 DEF Simulates
  <1> QED
    BY <1>1, <1>3, Inductive, PTL DEF SerialSpec, ImplementsFifo, Fifo!FifoSpec
=============================================================================
