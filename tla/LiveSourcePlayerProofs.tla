----------------------- MODULE LiveSourcePlayerProofs -----------------------
(***************************************************************************)
(* Theorems of LiveSource about what its players are sent, for any number  *)
(* of them: when a player's queue is shrunk, and the sequence headers it   *)
(* holds.                                                                  *)
(***************************************************************************)
EXTENDS LiveSourceProofs

-----------------------------------------------------------------------------
(* A queue is shrunk when it is full. *)

\* The time jitter is corrected, and the step granted to a packet that jumps
\* (DEFAULT_FRAME_TIME_MS, 10) is no more than the step tolerated
\* (CONST_MAX_JITTER_MS, 250).
FullJitter == Jitter = "FULL" /\ FrameMs <= MaxJitterMs

\* A queue without metadata, and the corrector before it: what waits is in
\* steps of at most MaxJitterMs from the start of the queue to the time the
\* corrector is at.
QueueOk(j, q) ==
    LET s == q.msgs
        start == q.av_start_time
        last == j.last_pkt_correct_time
    IN  /\ \A i \in 1..Len(s) : is_av(s[i]) /\ s[i].ts >= 0
        /\ \A i \in 1..Len(s) - 1 : s[i + 1].ts - s[i].ts <= MaxJitterMs
        /\ start = -1 => s = <<>>
        /\ start # -1 => last >= 0 /\ start >= 0
        /\ start # -1 /\ s = <<>> => start = last
        /\ start # -1 /\ s # <<>> =>
              s[1].ts - start <= MaxJitterMs /\ s[Len(s)].ts = last

QueuesOk ==
    ~atc /\ meta.data = NoMessage =>
        \A c \in Consumer : QueueOk(consumer[c].jitter, consumer[c].queue)

\* One step of the FULL algorithm.
LEMMA FullStep ==
    ASSUME FullJitter, NEW j \in JitterType, NEW m \in Message, is_av(m)
    PROVE  LET a == JitterAfter(j, m, Jitter)
               n == Corrected(j, m, Jitter)
           IN  /\ a.last_pkt_correct_time = n.ts
               /\ is_av(n) /\ n.ts >= 0
               /\ j.last_pkt_correct_time >= 0 =>
                     n.ts - j.last_pkt_correct_time <= MaxJitterMs
<1> DEFINE d == JitterDelta(j, m.ts)
           last == j.last_pkt_correct_time
           t == srs_max(0, last + d)
<1>1. m.ts \in Int /\ last \in Int /\ j.last_pkt_time \in Int
  BY MessageTs DEF JitterType
<1>2. d \in Int /\ d <= MaxJitterMs
  BY <1>1, QueueAssumption DEF JitterDelta, FullJitter
<1>3. JitterAfter(j, m, Jitter) = [last_pkt_time |-> m.ts, last_pkt_correct_time |-> t]
  BY DEF JitterAfter, FullJitter
<1>4. Corrected(j, m, Jitter) = [m EXCEPT !.ts = t]
  BY <1>3 DEF Corrected, FullJitter
<1>5. t \in Int /\ t >= 0 /\ (last >= 0 => t - last <= MaxJitterMs)
  <2> HIDE DEF d, last
  <2> QED BY <1>1, <1>2, QueueAssumption DEF srs_max
<1>6. [m EXCEPT !.ts = t].ts = t /\ [m EXCEPT !.ts = t].type = m.type
  BY DEF Message
<1>7. is_av([m EXCEPT !.ts = t])
  BY <1>6 DEF is_av
<1> HIDE DEF t
<1> QED BY <1>3, <1>4, <1>5, <1>6, <1>7

\* What shrink keeps has the time of the end, and is audio or video.
LEMMA LatestHeaderTimes ==
    ASSUME NEW msgs \in Seq(Message), NEW type, NEW t \in Int
    PROVE  LET h == LatestHeader(msgs, type, t)
           IN  /\ h \in Seq(Message) /\ Len(h) \in {0, 1}
               /\ \A i \in 1..Len(h) : is_av(h[i]) /\ h[i].ts = t
<1> DEFINE I == {i \in 1..Len(msgs) : sh(msgs[i]) /\ msgs[i].type = type}
           h == LatestHeader(msgs, type, t)
<1>1. h \in Seq(Message)
  BY LatestHeaderType
<1>2. CASE I = {}
  BY <1>2 DEF LatestHeader
<1>3. CASE I # {}
  <2>1. I \in SUBSET (1..Len(msgs)) /\ Len(msgs) \in Nat
    OBVIOUS
  <2>2. Max(I) \in I
    <3> HIDE DEF I
    <3> QED BY <1>3, <2>1, IndexBounds
  <2> DEFINE m == msgs[Max(I)]
  <2>3. m \in Message /\ is_av(m)
    BY <2>2 DEF sh
  <2> DEFINE e == [m EXCEPT !.ts = t]
  <2>4. h = <<e>>
    BY <1>3 DEF LatestHeader
  <2> HIDE DEF m, I, h
  <2>5. e.ts = t /\ e.type = m.type
    BY <2>3 DEF Message
  <2> HIDE DEF e
  <2>6. is_av(e)
    BY <2>3, <2>5 DEF is_av
  <2>7. Len(h) = 1 /\ h[1] = e
    BY <2>4
  <2>8. \A i \in 1..Len(h) : is_av(h[i]) /\ h[i].ts = t
    BY <2>5, <2>6, <2>7
  <2> QED BY <1>1, <2>7, <2>8 DEF h
<1> QED BY <1>1, <1>2, <1>3

\* The message goes in one step after the last.
LEMMA PushedOk ==
    ASSUME NEW j \in JitterType, NEW q \in QueueType, QueueOk(j, q),
           NEW m \in Message, is_av(m), m.ts >= 0,
           j.last_pkt_correct_time >= 0 =>
               m.ts - j.last_pkt_correct_time <= MaxJitterMs,
           NEW a \in JitterType, a.last_pkt_correct_time = m.ts
    PROVE  /\ Pushed(q, m) \in QueueType
           /\ QueueOk(a, Pushed(q, m))
           /\ Pushed(q, m).msgs = Append(q.msgs, m)
           /\ Pushed(q, m).av_end_time = m.ts
           /\ Pushed(q, m).av_start_time >= 0
           /\ Append(q.msgs, m)[1].ts - Pushed(q, m).av_start_time <= MaxJitterMs
<1> DEFINE s == q.msgs
           n == Len(s)
           z == Append(s, m)
           p == Pushed(q, m)
<1>1. /\ s \in Seq(Message) /\ n \in Nat /\ q.av_start_time \in Int
      /\ m.ts \in Int /\ j.last_pkt_correct_time \in Int
  BY MessageTs DEF QueueType, JitterType
<1>2. p \in QueueType
  BY MessageTs DEF Pushed, QueueType
<1>3. /\ p.msgs = z /\ p.av_end_time = m.ts
      /\ p.av_start_time = IF q.av_start_time = -1 THEN m.ts ELSE q.av_start_time
  BY DEF Pushed
<1>4. /\ z \in Seq(Message) /\ Len(z) = n + 1 /\ z[n + 1] = m
      /\ \A i \in 1..n : z[i] = s[i]
      /\ z # <<>>
  <2> HIDE DEF s
  <2> QED BY <1>1
<1>5. \A i \in 1..n : s[i] \in Message /\ s[i].ts \in Int
  BY <1>1, MessageTs
<1>6. /\ \A i \in 1..n : is_av(s[i]) /\ s[i].ts >= 0
      /\ \A i \in 1..n - 1 : s[i + 1].ts - s[i].ts <= MaxJitterMs
      /\ q.av_start_time = -1 => n = 0
      /\ q.av_start_time # -1 => j.last_pkt_correct_time >= 0 /\ q.av_start_time >= 0
      /\ q.av_start_time # -1 /\ n = 0 => q.av_start_time = j.last_pkt_correct_time
      /\ n > 0 => /\ q.av_start_time # -1
                 /\ s[1].ts - q.av_start_time <= MaxJitterMs
                 /\ s[n].ts = j.last_pkt_correct_time
  BY <1>1 DEF QueueOk
<1> HIDE DEF s, n, z, p
<1>7. \A i \in 1..n + 1 : is_av(z[i]) /\ z[i].ts >= 0
  BY <1>1, <1>4, <1>6
<1>8. ASSUME NEW i \in 1..n PROVE z[i + 1].ts - z[i].ts <= MaxJitterMs
  <2>1. CASE i < n
    <3>1. z[i + 1] = s[i + 1] /\ z[i] = s[i] /\ i \in 1..n - 1
      BY <1>1, <1>4, <2>1
    <3> QED BY <1>6, <3>1
  <2>2. CASE i = n
    <3>1. z[i + 1] = m /\ z[i] = s[n] /\ n > 0
      BY <1>1, <1>4, <2>2
    <3> QED BY <1>1, <1>6, <3>1
  <2> QED BY <1>1, <2>1, <2>2
<1>9. p.av_start_time >= 0 /\ p.av_start_time \in Int
  BY <1>1, <1>3, <1>6
<1>10. z[1].ts - p.av_start_time <= MaxJitterMs
  <2>1. CASE n = 0
    <3>1. z[1] = m
      BY <1>4, <2>1
    <3> QED BY <1>1, <1>3, <1>6, <2>1, <3>1, QueueAssumption
  <2>2. CASE n > 0
    <3>1. z[1] = s[1]
      BY <1>1, <1>4, <2>2
    <3> QED BY <1>3, <1>6, <2>2, <3>1
  <2> QED BY <1>1, <2>1, <2>2
<1>11. QueueOk(a, p)
  <2>1. Len(p.msgs) = n + 1 /\ Len(p.msgs) - 1 = n /\ p.msgs[Len(p.msgs)] = m
    BY <1>1, <1>3, <1>4
  <2>2. p.av_start_time # -1
    BY <1>9
  <2> QED BY <1>1, <1>3, <1>4, <1>7, <1>8, <1>9, <1>10, <2>1, <2>2 DEF QueueOk
<1> QED BY <1>2, <1>3, <1>9, <1>10, <1>11 DEF p, z, s

LEMMA EnqueueOk ==
    ASSUME NEW j \in JitterType, NEW q \in QueueType, QueueOk(j, q),
           NEW m \in Message, is_av(m), m.ts >= 0,
           j.last_pkt_correct_time >= 0 =>
               m.ts - j.last_pkt_correct_time <= MaxJitterMs,
           NEW a \in JitterType, a.last_pkt_correct_time = m.ts
    PROVE  QueueOk(a, enqueue(q, m))
<1> DEFINE p == Pushed(q, m)
           v == LatestHeader(p.msgs, "video", m.ts)
           u == LatestHeader(p.msgs, "audio", m.ts)
           z == v \o u
<1>1. p \in QueueType /\ QueueOk(a, p) /\ p.av_end_time = m.ts
  BY PushedOk
<1>2. m.ts \in Int /\ p.msgs \in Seq(Message)
  BY <1>1, MessageTs DEF QueueType
<1>3. /\ v \in Seq(Message) /\ Len(v) \in {0, 1} /\ u \in Seq(Message) /\ Len(u) \in {0, 1}
      /\ \A i \in 1..Len(v) : is_av(v[i]) /\ v[i].ts = m.ts
      /\ \A i \in 1..Len(u) : is_av(u[i]) /\ u[i].ts = m.ts
  <2> HIDE DEF p
  <2> QED BY <1>2, LatestHeaderTimes
<1>4. shrink(p) = [msgs |-> z, av_start_time |-> m.ts, av_end_time |-> m.ts,
                   queue_size_ms |-> p.queue_size_ms]
  BY <1>1 DEF shrink
<1> HIDE DEF p, v, u
<1>5. z \in Seq(Message) /\ \A i \in 1..Len(z) : is_av(z[i]) /\ z[i].ts = m.ts
  BY <1>3
<1> HIDE DEF z
<1>6. QueueOk(a, shrink(p))
  <2>1. /\ shrink(p).msgs = z /\ shrink(p).av_start_time = m.ts /\ m.ts # -1
        /\ Len(z) \in Nat /\ (z # <<>> => 1 \in 1..Len(z) /\ Len(z) \in 1..Len(z))
    BY <1>2, <1>4, <1>5
  <2>2. \A i \in 1..Len(z) - 1 : i \in 1..Len(z) /\ i + 1 \in 1..Len(z)
    BY <2>1
  <2>3. m.ts - m.ts <= MaxJitterMs
    BY <1>2, QueueAssumption
  <2> QED BY <1>2, <1>5, <2>1, <2>2, <2>3 DEF QueueOk
<1> QED BY <1>1, <1>6 DEF enqueue, p

\* What is left after a dump starts where the part handed over ended.
LEMMA DumpOk ==
    ASSUME NEW j \in JitterType, NEW q \in QueueType, QueueOk(j, q),
           NEW max \in Nat \ {0}
    PROVE  QueueOk(j, AfterDump(q, max))
<1>1. CASE q.msgs = <<>>
  BY <1>1 DEF AfterDump
<1>2. CASE q.msgs # <<>>
  <2> DEFINE s == q.msgs
             n == Len(s)
             d == DumpCount(q, max)
             z == SubSeq(s, d + 1, n)
             p == AfterDump(q, max)
  <2>1. /\ s \in Seq(Message) /\ n \in Nat /\ n > 0 /\ d \in 1..n
        /\ q.av_start_time \in Int /\ q.av_start_time # -1
    BY <1>2 DEF DumpCount, QueueType, QueueOk
  <2>2. \A i \in 1..n : s[i] \in Message /\ s[i].ts \in Int
    BY <2>1, MessageTs
  <2>3. p.msgs = z /\ p.av_start_time = s[d].ts
    BY <1>2 DEF AfterDump, QueueType
  <2>4. /\ \A i \in 1..n : is_av(s[i]) /\ s[i].ts >= 0
        /\ \A i \in 1..n - 1 : s[i + 1].ts - s[i].ts <= MaxJitterMs
        /\ j.last_pkt_correct_time >= 0 /\ s[n].ts = j.last_pkt_correct_time
    BY <1>2, <2>1 DEF QueueOk
  <2> HIDE DEF s, n, d
  <2>5. /\ z \in Seq(Message) /\ Len(z) = n - d
        /\ \A i \in 1..n - d : z[i] = s[i + d]
    BY <2>1 DEF n
  <2> HIDE DEF z, p
  <2>6. \A i \in 1..n - d : is_av(z[i]) /\ z[i].ts >= 0
    BY <2>1, <2>4, <2>5
  <2>7. ASSUME NEW i \in 1..n - d - 1 PROVE z[i + 1].ts - z[i].ts <= MaxJitterMs
    <3>1. z[i] = s[i + d] /\ z[i + 1] = s[(i + d) + 1] /\ i + d \in 1..n - 1
      BY <2>1, <2>5
    <3> QED BY <2>4, <3>1
  <2>8. s[d].ts >= 0 /\ s[d].ts # -1
    BY <2>1, <2>2, <2>4
  <2>9. ASSUME d = n PROVE QueueOk(j, p)
    <3>1. z = <<>>
      BY <2>1, <2>5, <2>9
    <3>2. /\ p.msgs = <<>> /\ Len(p.msgs) = 0
          /\ p.av_start_time = j.last_pkt_correct_time
      BY <2>3, <2>4, <2>9, <3>1
    <3> QED BY <2>4, <2>8, <2>9, <3>2 DEF QueueOk
  <2>10. ASSUME d < n PROVE QueueOk(j, p)
    <3>1. z[1] = s[d + 1] /\ z[n - d] = s[n] /\ d \in 1..n - 1 /\ Len(z) \in Nat
      BY <2>1, <2>5, <2>10
    <3>2. z[1].ts - s[d].ts <= MaxJitterMs
      BY <2>4, <3>1
    <3>3. /\ Len(p.msgs) = n - d /\ p.msgs # <<>>
          /\ Len(p.msgs) - 1 = n - d - 1
          /\ p.msgs[1].ts - p.av_start_time <= MaxJitterMs
          /\ p.msgs[n - d].ts = j.last_pkt_correct_time
      BY <2>1, <2>3, <2>4, <2>5, <2>10, <3>1, <3>2
    <3>4. p.av_start_time >= 0 /\ p.av_start_time # -1
      BY <2>3, <2>8
    <3>5. /\ \A i \in 1..n - d : is_av(p.msgs[i]) /\ p.msgs[i].ts >= 0
          /\ \A i \in 1..n - d - 1 : p.msgs[i + 1].ts - p.msgs[i].ts <= MaxJitterMs
      BY <2>3, <2>6, <2>7
    <3> QED BY <2>4, <3>3, <3>4, <3>5 DEF QueueOk
  <2> QED BY <2>1, <2>9, <2>10 DEF p
<1> QED BY <1>1, <1>2

\* Its length has no part in what the queue holds.
LEMMA SizedOk ==
    ASSUME NEW j \in JitterType, NEW q \in QueueType, QueueOk(j, q)
    PROVE  QueueOk(j, [q EXCEPT !.queue_size_ms = QueueMs])
<1>1. /\ [q EXCEPT !.queue_size_ms = QueueMs].msgs = q.msgs
      /\ [q EXCEPT !.queue_size_ms = QueueMs].av_start_time = q.av_start_time
      /\ [q EXCEPT !.queue_size_ms = QueueMs].av_end_time = q.av_end_time
  BY DEF QueueType
<1> QED BY <1>1 DEF QueueOk

LEMMA NewConsumerOk == QueueOk(NewConsumer.jitter, NewConsumer.queue)
  BY DEF QueueOk, NewConsumer, NewJitter, NewQueue

\* The fields of a consumer that is changed.
LEMMA ConsumerFields ==
    ASSUME NEW k \in ConsumerType, NEW j \in JitterType, NEW q \in QueueType,
           NEW b \in BOOLEAN
    PROVE  /\ [k EXCEPT !.jitter = j, !.queue = q].jitter = j
           /\ [k EXCEPT !.jitter = j, !.queue = q].queue = q
           /\ [k EXCEPT !.should_update_source_id = b].jitter = k.jitter
           /\ [k EXCEPT !.should_update_source_id = b].queue = k.queue
           /\ [k EXCEPT !.should_update_source_id = b, !.queue = q].jitter = k.jitter
           /\ [k EXCEPT !.should_update_source_id = b, !.queue = q].queue = q
           /\ [k EXCEPT !.paused = b].jitter = k.jitter
           /\ [k EXCEPT !.paused = b].queue = k.queue
  BY DEF ConsumerType

LEMMA EnqueuedFields ==
    ASSUME NEW k \in ConsumerType, NEW m \in Message
    PROVE  LET j == IF atc THEN k.jitter ELSE JitterAfter(k.jitter, m, Jitter)
               n == IF atc THEN m ELSE Corrected(k.jitter, m, Jitter)
           IN  /\ j \in JitterType /\ n \in Message
               /\ Enqueued(k, m).jitter = j
               /\ Enqueued(k, m).queue = enqueue(k.queue, n)
<1> DEFINE j == IF atc THEN k.jitter ELSE JitterAfter(k.jitter, m, Jitter)
           n == IF atc THEN m ELSE Corrected(k.jitter, m, Jitter)
<1>1. k.jitter \in JitterType /\ k.queue \in QueueType
  BY DEF ConsumerType
<1>2. j \in JitterType /\ n \in Message
  BY <1>1, JitterTypes, SourceAssumption
<1>3. enqueue(k.queue, n) \in QueueType
  BY <1>1, <1>2, QueueTypes
<1>4. Enqueued(k, m) = [k EXCEPT !.jitter = j, !.queue = enqueue(k.queue, n)]
  BY DEF Enqueued
<1>5. TRUE \in BOOLEAN
  OBVIOUS
<1>6. \A q \in QueueType : /\ [k EXCEPT !.jitter = j, !.queue = q].jitter = j
                           /\ [k EXCEPT !.jitter = j, !.queue = q].queue = q
  <2> HIDE DEF j
  <2> QED BY <1>2, <1>5, ConsumerFields
<1>7. Enqueued(k, m).jitter = j /\ Enqueued(k, m).queue = enqueue(k.queue, n)
  <2> HIDE DEF j, n
  <2> QED BY <1>3, <1>4, <1>6, Zenon
<1> QED BY <1>2, <1>7, Zenon

\* SrsConsumer::enqueue of audio or video.
LEMMA EnqueuedOk ==
    ASSUME FullJitter, ~atc, NEW k \in ConsumerType, QueueOk(k.jitter, k.queue),
           NEW m \in Message, is_av(m)
    PROVE  QueueOk(Enqueued(k, m).jitter, Enqueued(k, m).queue)
<1> DEFINE j == JitterAfter(k.jitter, m, Jitter)
           n == Corrected(k.jitter, m, Jitter)
<1>1. k.jitter \in JitterType /\ k.queue \in QueueType
  BY DEF ConsumerType
<1>2. /\ j \in JitterType /\ n \in Message
      /\ Enqueued(k, m).jitter = j
      /\ Enqueued(k, m).queue = enqueue(k.queue, n)
  BY EnqueuedFields, Zenon
<1>3. /\ j.last_pkt_correct_time = n.ts /\ is_av(n) /\ n.ts >= 0
      /\ k.jitter.last_pkt_correct_time >= 0 =>
            n.ts - k.jitter.last_pkt_correct_time <= MaxJitterMs
  BY <1>1, FullStep
<1> HIDE DEF j, n
<1>4. QueueOk(j, enqueue(k.queue, n))
  BY <1>1, <1>2, <1>3, EnqueueOk
<1> QED BY <1>2, <1>4

\* When the queue is full, what waits and the packet cover the duration but
\* for one step.
LEMMA OverflowSpan ==
    ASSUME NEW j \in JitterType, NEW q \in QueueType, QueueOk(j, q),
           NEW m \in Message, is_av(m), m.ts >= 0,
           j.last_pkt_correct_time >= 0 =>
               m.ts - j.last_pkt_correct_time <= MaxJitterMs,
           q.queue_size_ms = QueueMs, Overflows(q, m)
    PROVE  Span(Append(q.msgs, m)) + MaxJitterMs > QueueMs
<1> DEFINE z == Append(q.msgs, m)
           n == Len(z)
           p == Pushed(q, m)
           a == [last_pkt_time |-> 0, last_pkt_correct_time |-> m.ts]
           I == {i \in DOMAIN z : is_av(z[i])}
           f == [i \in I |-> z[i].ts]
           S == {f[i] : i \in I}
<1>1. m.ts \in Int /\ q.msgs \in Seq(Message)
  BY MessageTs DEF QueueType
<1>2. a \in JitterType /\ a.last_pkt_correct_time = m.ts
  BY <1>1 DEF JitterType
<1>3. /\ p \in QueueType /\ QueueOk(a, p) /\ p.msgs = z /\ p.av_end_time = m.ts
      /\ z[1].ts - p.av_start_time <= MaxJitterMs
  <2> HIDE DEF a
  <2> QED BY <1>2, PushedOk
<1>4. m.ts - p.av_start_time > QueueMs
  BY <1>3 DEF Overflows, duration
<1>5. /\ z \in Seq(Message) /\ n \in Nat /\ n >= 1 /\ z[n] = m
      /\ DOMAIN z = 1..n /\ z[1] \in Message
  BY <1>1
<1>6. p.av_start_time \in Int /\ z[1].ts \in Int
  BY <1>3, <1>5, MessageTs DEF QueueType
<1>7. \A i \in 1..n : is_av(z[i]) /\ z[i].ts \in Int
  BY <1>3, <1>5, MessageTs DEF QueueOk
<1> HIDE DEF z, n, p
<1>8. I = 1..n
  BY <1>5, <1>7
<1>9. S = {z[i].ts : i \in I} /\ z[1].ts \in S /\ m.ts \in S /\ S # {}
  <2>1. 1 \in I /\ n \in I
    BY <1>5, <1>8
  <2> HIDE DEF I
  <2> QED BY <2>1, <1>5
<1>10. /\ Min(S) \in S /\ \A x \in S : Min(S) <= x
       /\ Max(S) \in S /\ \A x \in S : x <= Max(S)
  <2>1. I \in SUBSET (1..n) /\ I # {} /\ \A i \in I : f[i] \in Int
    BY <1>5, <1>7, <1>8
  <2>2. n \in Nat /\ S = {f[i] : i \in I}
    BY <1>5
  <2> HIDE DEF I, f, S
  <2> QED BY <2>1, <2>2, ValueBounds, Zenon
<1>11. S \subseteq Int
  BY <1>7, <1>8
<1>12. Span(z) = Max(S) - Min(S)
  <2> HIDE DEF f
  <2> QED BY <1>9 DEF Span
<1> HIDE DEF I, S
<1>13. /\ Max(S) \in Int /\ Min(S) \in Int
       /\ m.ts <= Max(S) /\ Min(S) <= z[1].ts
  BY <1>9, <1>10, <1>11
<1>14. Span(z) + MaxJitterMs > QueueMs
  <2> DEFINE x == Max(S)
             y == Min(S)
             u == z[1].ts
             v == p.av_start_time
  <2> HIDE DEF x, y, u, v
  <2>1. /\ x \in Int /\ y \in Int /\ m.ts \in Int /\ u \in Int /\ v \in Int
        /\ m.ts <= x /\ y <= u /\ u - v <= MaxJitterMs /\ m.ts - v > QueueMs
    BY <1>1, <1>3, <1>4, <1>6, <1>13 DEF x, y, u, v
  <2>2. x - y + MaxJitterMs > QueueMs
    BY <2>1, QueueAssumption
  <2> QED BY <1>12, <2>2 DEF x, y
<1> QED BY <1>14 DEF z

\* What a step does to the queue of a player: nothing that the queue shows, a
\* new one, a message more, or a dump.
QueueStep(c) ==
    \/ /\ consumer'[c].jitter = consumer[c].jitter
       /\ consumer'[c].queue = consumer[c].queue
    \/ /\ consumer'[c].jitter = consumer[c].jitter
       /\ consumer'[c].queue = [consumer[c].queue EXCEPT !.queue_size_ms = QueueMs]
    \/ consumer'[c] = NewConsumer
    \/ \E m \in Message : is_av(m) /\ consumer'[c] = Enqueued(consumer[c], m)
    \/ /\ consumer'[c].jitter = consumer[c].jitter
       /\ \E max \in Nat \ {0} :
             consumer'[c].queue = AfterDump(consumer[c].queue, max)

\* While the stream is without atc and without metadata, it has been so, and
\* what is enqueued is audio and video.
LEMMA NextQueueStep ==
    ASSUME IInv, MediaInv, [Next]_vars, ~atc', meta'.data = NoMessage
    PROVE  ~atc /\ meta.data = NoMessage /\ \A c \in Consumer : QueueStep(c)
<1>1. /\ consumer \in [Consumer -> ConsumerType] /\ gop_cache \in GopType
      /\ meta.data \in Message \cup {NoMessage} /\ meta.video \in Message \cup {NoMessage}
      /\ meta.audio \in Message \cup {NoMessage} /\ meta \in MetaType
      /\ consumers \in Seq(Consumer)
      /\ player \in [Consumer -> [pc : PlayerStep, next : Nat]]
  BY DEF IInv, TypeOK, MetaType
<1>2. ASSUME UNCHANGED <<atc, meta>>, consumer' = consumer
      PROVE  ~atc /\ meta.data = NoMessage /\ \A c \in Consumer : QueueStep(c)
  BY <1>2 DEF QueueStep
<1>3. ASSUME NEW c \in Consumer, NEW k, consumer' = [consumer EXCEPT ![c] = k],
             \/ k = NewConsumer
             \/ \E m \in Message : is_av(m) /\ k = Enqueued(consumer[c], m)
             \/ k.jitter = consumer[c].jitter /\ k.queue = consumer[c].queue
             \/ /\ k.jitter = consumer[c].jitter
                /\ k.queue = [consumer[c].queue EXCEPT !.queue_size_ms = QueueMs]
             \/ /\ k.jitter = consumer[c].jitter
                /\ \E max \in Nat \ {0} : k.queue = AfterDump(consumer[c].queue, max)
      PROVE  \A d \in Consumer : QueueStep(d)
  <2>1. consumer'[c] = k /\ \A d \in Consumer \ {c} : consumer'[d] = consumer[d]
    BY <1>1, <1>3
  <2> QED BY <1>3, <2>1, Zenon DEF QueueStep
<1>4. CASE PublisherNext
  <2>1. ASSUME NEW p \in Publisher, on_publish(p)
        PROVE  ~atc /\ meta.data = NoMessage /\ \A c \in Consumer : QueueStep(c)
    <3>1. ASSUME NEW c \in Consumer PROVE QueueStep(c)
      <4>1. consumer'[c] \in {consumer[c], [consumer[c] EXCEPT !.should_update_source_id = TRUE]}
        BY <2>1, <3>1 DEF on_publish
      <4>2. consumer[c] \in ConsumerType /\ TRUE \in BOOLEAN
        BY <1>1, <3>1
      <4>3. /\ consumer'[c].jitter = consumer[c].jitter
            /\ consumer'[c].queue = consumer[c].queue
        BY <4>1, <4>2 DEF ConsumerType
      <4> QED BY <4>3 DEF QueueStep
    <3> QED BY <2>1, <3>1 DEF on_publish
  <2>2. ASSUME NEW m \in Message, on_av(m)
        PROVE  UNCHANGED consumer /\ atc' = atc /\ meta'.data = meta.data
    <3>1. \A n : BeginImp(n) => meta'.data = meta.data
      BY <1>1 DEF BeginImp, MetaType
    <3> QED BY <2>2, <3>1 DEF on_av
  <2>3. ASSUME NEW m \in Message, on_meta_data(m) PROVE FALSE
    <3>1. meta'.data = m
      BY <1>1, <2>3 DEF on_meta_data, MetaType
    <3> QED BY <3>1, NoMessageIsNone
  <2>4. CASE Receive
    <3>1. UNCHANGED consumer /\ atc' = atc /\ meta'.data = meta.data
      BY <2>2, <2>3, <2>4, ReceivedMessage
    <3> QED BY <3>1 DEF QueueStep
  <2>5. CASE DispatchOne
    <3>1. atc' = atc /\ meta' = meta
      BY <2>5 DEF DispatchOne, sourceVars
    <3> DEFINE c == consumers[publisher.next]
    <3>2. is_av(publisher.msg) /\ publisher.msg \in Message /\ c \in Consumer
      BY <1>1, <2>5, <3>1, NoMessageIsNone
         DEF DispatchOne, IInv, HandlersSound, TypeOK
    <3>3. consumer' = [consumer EXCEPT ![c] = Enqueued(consumer[c], publisher.msg)]
      BY <2>5, <3>2 DEF DispatchOne
    <3> QED BY <1>3, <3>1, <3>2, <3>3
  <2>6. CASE DispatchEnd
    <3> DEFINE m == publisher.msg
    <3>1. m \in Message /\ m.ts \in Int
      BY <2>6, MessageTs DEF DispatchEnd, IInv, HandlersSound
    <3>2. meta'.data \in {meta.data, Retimed(meta.data, m.ts)}
      BY <2>6 DEF DispatchEnd, MetaAfterDispatch
    <3>3. meta.data = NoMessage
      BY <1>1, <3>1, <3>2, RetimedKeeps
    <3> QED BY <2>6, <3>3 DEF DispatchEnd, QueueStep
  <2>7. CASE on_unpublish
    BY <1>2, <2>7 DEF on_unpublish
  <2> QED BY <1>4, <2>1, <2>4, <2>5, <2>6, <2>7 DEF PublisherNext
<1>5. ASSUME NEW c \in Consumer, PlayerNext(c)
      PROVE  ~atc /\ meta.data = NoMessage /\ \A d \in Consumer : QueueStep(d)
  <2>1. consumer[c] \in ConsumerType /\ consumer[c].queue \in QueueType
        /\ consumer[c].jitter \in JitterType
    BY <1>1 DEF ConsumerType
  <2>2. CASE create_consumer(c)
    <3>1. consumer' = [consumer EXCEPT ![c] = NewConsumer] /\ UNCHANGED <<atc, meta>>
      BY <2>2 DEF create_consumer, sourceVars
    <3> QED BY <1>3, <3>1
  <2>3. CASE DumpMeta(c)
    <3> DEFINE t == GopStartTime(gop_cache)
    <3>1. t \in Int
      BY <1>1, GopStartTimeType
    <3>2. atc' = atc /\ meta'.data \in {meta.data, Retimed(meta.data, t)}
      BY <2>3 DEF DumpMeta
    <3> HIDE DEF t
    <3>3. meta.data = NoMessage
      BY <1>1, <3>1, <3>2, RetimedKeeps
    <3>4. consumer' = consumer
      BY <2>3, <3>3 DEF DumpMeta
    <3> QED BY <3>2, <3>3, <3>4 DEF QueueStep
  <2>4. ASSUME NEW from, NEW to, NEW m \in Message \cup {NoMessage},
               m # NoMessage => is_av(m), DumpHeader(c, from, to, m)
        PROVE  ~atc /\ meta.data = NoMessage /\ \A d \in Consumer : QueueStep(d)
    <3>1. UNCHANGED <<atc, meta>>
      BY <2>4 DEF DumpHeader, sourceVars
    <3>2. CASE m = NoMessage
      BY <1>2, <2>4, <3>1, <3>2 DEF DumpHeader
    <3>3. CASE m # NoMessage
      <4>1. consumer' = [consumer EXCEPT ![c] = Enqueued(consumer[c], m)]
        BY <2>4, <3>3 DEF DumpHeader
      <4> QED BY <1>3, <2>4, <3>1, <3>3, <4>1
    <3> QED BY <3>2, <3>3
  <2>5. CASE DumpAsh(c)
    BY <1>1, <2>4, <2>5 DEF DumpAsh, MediaInv, is_av, is_audio
  <2>6. CASE DumpVsh(c)
    BY <1>1, <2>4, <2>6 DEF DumpVsh, MediaInv, is_av, is_video
  <2>7. CASE DumpGop(c)
    <3>1. UNCHANGED <<atc, meta>>
      BY <2>7 DEF DumpGop, sourceVars
    <3>2. CASE player[c].next <= Len(gop_cache.msgs)
      <4> DEFINE m == gop_cache.msgs[player[c].next]
      <4>1. m \in AvMessage
        <5>1. player[c].next \in Nat /\ player[c].next >= 1
          BY <1>1, <2>7 DEF DumpGop, At, IInv, HandlersSound
        <5>2. gop_cache.msgs \in Seq(AvMessage)
          BY DEF MediaInv
        <5> QED BY <3>2, <5>1, <5>2
      <4>2. consumer' = [consumer EXCEPT ![c] = Enqueued(consumer[c], m)]
        BY <2>7, <3>2 DEF DumpGop
      <4>3. m \in Message /\ is_av(m)
        BY <4>1 DEF AvMessage
      <4> HIDE DEF m
      <4> QED BY <1>3, <3>1, <4>2, <4>3
    <3>3. CASE ~(player[c].next <= Len(gop_cache.msgs))
      BY <1>2, <2>7, <3>1, <3>3 DEF DumpGop
    <3> QED BY <3>2, <3>3
  <2>8. ASSUME NEW max \in 1..MwMsgs, dump_packets(c, max)
        PROVE  ~atc /\ meta.data = NoMessage /\ \A d \in Consumer : QueueStep(d)
    <3>1. UNCHANGED <<atc, meta>> /\ max \in Nat \ {0}
      BY <2>8, SourceAssumption DEF dump_packets, sourceVars
    <3> DEFINE k == consumer[c]
               q == IF k.paused THEN k.queue ELSE AfterDump(k.queue, max)
               e == [k EXCEPT !.should_update_source_id = FALSE, !.queue = q]
    <3>2. consumer' = [consumer EXCEPT ![c] = e]
      BY <1>1, <2>8 DEF dump_packets
    <3>3. q \in QueueType /\ q \in {k.queue, AfterDump(k.queue, max)}
      BY <2>1, <3>1, QueueTypes
    <3>4. FALSE \in BOOLEAN
      OBVIOUS
    <3>5. e.jitter = k.jitter /\ e.queue = q
      <4> HIDE DEF q
      <4> QED BY <2>1, <3>3, <3>4, ConsumerFields
    <3>6. /\ e.jitter = k.jitter
          /\ e.queue = k.queue \/ e.queue = AfterDump(k.queue, max)
      <4> HIDE DEF q, e
      <4> QED BY <3>3, <3>5
    <3> HIDE DEF e, q
    <3> QED BY <1>3, <3>1, <3>2, <3>6
  <2>9. ASSUME NEW b \in BOOLEAN, on_play_client_pause(c, b)
        PROVE  ~atc /\ meta.data = NoMessage /\ \A d \in Consumer : QueueStep(d)
    <3> DEFINE e == [consumer[c] EXCEPT !.paused = b]
    <3>1. UNCHANGED <<atc, meta>> /\ consumer' = [consumer EXCEPT ![c] = e]
      BY <2>9 DEF on_play_client_pause, sourceVars
    <3>2. e.jitter = consumer[c].jitter /\ e.queue = consumer[c].queue
      BY <2>1, ConsumerFields
    <3> HIDE DEF e
    <3> QED BY <1>3, <3>1, <3>2
  <2>10. CASE on_consumer_destroy(c)
    <3>1. consumer' = [consumer EXCEPT ![c] = NewConsumer] /\ UNCHANGED <<atc, meta>>
      BY <2>10 DEF on_consumer_destroy, sourceVars
    <3> QED BY <1>3, <3>1
  <2>11. CASE set_queue_size(c)
    <3> DEFINE q == [consumer[c].queue EXCEPT !.queue_size_ms = QueueMs]
               k == [consumer[c] EXCEPT !.queue = q]
    <3>1. consumer' = [consumer EXCEPT ![c] = k] /\ UNCHANGED <<atc, meta>>
      BY <1>1, <2>11 DEF set_queue_size, sourceVars
    <3>2. q \in QueueType
      BY <2>1, QueueAssumption DEF QueueType
    <3>3. k.jitter = consumer[c].jitter /\ k.queue = q
      BY <2>1, <3>2 DEF ConsumerType
    <3> HIDE DEF k
    <3> QED BY <1>3, <3>1, <3>3
  <2> QED BY <1>5, <2>2, <2>3, <2>5, <2>6, <2>7, <2>8, <2>9, <2>10, <2>11 DEF PlayerNext
<1>6. ASSUME NEW v \in GopCacheConf, set_cache(v)
      PROVE  ~atc /\ meta.data = NoMessage /\ \A c \in Consumer : QueueStep(c)
  BY <1>2, <1>6 DEF set_cache
<1>7. CASE UNCHANGED vars
  BY <1>2, <1>7 DEF vars, sourceVars
<1> QED BY <1>4, <1>5, <1>6, <1>7 DEF Next

LEMMA NextQueuesOk ==
    ASSUME FullJitter
    PROVE  IInv /\ MediaInv /\ QueuesOk /\ [Next]_vars => QueuesOk'
<1> SUFFICES ASSUME IInv, MediaInv, QueuesOk, [Next]_vars,
                    ~atc', meta'.data = NoMessage, NEW c \in Consumer
             PROVE  QueueOk(consumer'[c].jitter, consumer'[c].queue)
  BY DEF QueuesOk
<1>1. ~atc /\ QueueStep(c) /\ QueueOk(consumer[c].jitter, consumer[c].queue)
  BY NextQueueStep DEF QueuesOk
<1>2. /\ consumer[c] \in ConsumerType
      /\ consumer[c].jitter \in JitterType /\ consumer[c].queue \in QueueType
  BY DEF IInv, TypeOK, ConsumerType
<1> QED BY <1>1, <1>2, EnqueuedOk, DumpOk, SizedOk, NewConsumerOk DEF QueueStep

\* A player that is past set_queue_size has a queue of the length of the vhost.
SizesSet == \A c \in Consumer : Sized(c) => consumer[c].queue.queue_size_ms = QueueMs

LEMMA NextSizesSet == IInv /\ SizesSet /\ [Next]_vars => SizesSet'
<1> SUFFICES ASSUME IInv, SizesSet, [Next]_vars PROVE SizesSet'
  OBVIOUS
<1>1. /\ consumer \in [Consumer -> ConsumerType] /\ gop_cache \in GopType
      /\ meta \in MetaType /\ consumers \in Seq(Consumer)
      /\ player \in [Consumer -> [pc : PlayerStep, next : Nat]]
  BY DEF IInv, TypeOK
<1>2. ASSUME NEW k \in ConsumerType, NEW m \in Message
      PROVE  Enqueued(k, m).queue.queue_size_ms = k.queue.queue_size_ms
  <2> DEFINE n == IF atc THEN m ELSE Corrected(k.jitter, m, Jitter)
  <2>1. enqueue(k.queue, n).queue_size_ms = k.queue.queue_size_ms
    <3> HIDE DEF n
    <3> QED BY DEF enqueue, shrink, Pushed
  <2>2. Enqueued(k, m).queue = enqueue(k.queue, n)
    BY EnqueuedFields, Zenon
  <2> HIDE DEF n
  <2> QED BY <2>1, <2>2
<1>3. ASSUME NEW q \in QueueType, NEW max \in Nat \ {0}
      PROVE  AfterDump(q, max).queue_size_ms = q.queue_size_ms
  BY DEF AfterDump, QueueType
<1>4. ASSUME player' = player,
             \A c \in Consumer : consumer'[c].queue = consumer[c].queue
      PROVE  SizesSet'
  BY <1>4 DEF SizesSet, Sized
<1>5. ASSUME NEW c \in Consumer, NEW k, consumer' = [consumer EXCEPT ![c] = k],
             \A d \in Consumer \ {c} : player'[d] = player[d],
             Sized(c)' => k.queue.queue_size_ms = QueueMs
      PROVE  SizesSet'
  <2>1. consumer'[c] = k /\ \A d \in Consumer \ {c} : consumer'[d] = consumer[d]
    BY <1>1, <1>5
  <2> QED BY <1>5, <2>1 DEF SizesSet, Sized
<1>6. CASE PublisherNext
  <2>1. ASSUME NEW p \in Publisher, on_publish(p) PROVE SizesSet'
    <3>1. ASSUME NEW c \in Consumer PROVE consumer'[c].queue = consumer[c].queue
      <4>1. consumer'[c] \in {consumer[c], [consumer[c] EXCEPT !.should_update_source_id = TRUE]}
        BY <2>1, <3>1 DEF on_publish
      <4> QED BY <1>1, <4>1 DEF ConsumerType
    <3> QED BY <1>4, <2>1, <3>1 DEF on_publish
  <2>2. CASE DispatchOne
    <3>1. /\ consumers[publisher.next] \in Consumer
          /\ is_av(publisher.msg) => publisher.msg \in Message
          /\ ~is_av(publisher.msg) => meta.data \in Message
      BY <1>1, <2>2 DEF DispatchOne, IInv, HandlersSound, TypeOK
    <3>2. PICK c \in Consumer, m \in Message :
             consumer' = [consumer EXCEPT ![c] = Enqueued(consumer[c], m)]
      BY <2>2, <3>1 DEF DispatchOne
    <3>3. player' = player
      BY <2>2 DEF DispatchOne
    <3>4. Enqueued(consumer[c], m).queue.queue_size_ms = consumer[c].queue.queue_size_ms
      BY <1>1, <1>2
    <3>5. ASSUME Sized(c)' PROVE Enqueued(consumer[c], m).queue.queue_size_ms = QueueMs
      BY <3>3, <3>4, <3>5 DEF SizesSet, Sized
    <3> QED BY <1>5, <3>2, <3>3, <3>5
  <2>3. CASE Receive \/ DispatchEnd \/ on_unpublish
    <3>1. Receive => consumer' = consumer /\ player' = player
      BY DEF Receive, on_av, on_meta_data
    <3>2. DispatchEnd \/ on_unpublish => consumer' = consumer /\ player' = player
      BY DEF DispatchEnd, on_unpublish
    <3> QED BY <1>4, <2>3, <3>1, <3>2
  <2> QED BY <1>6, <2>1, <2>2, <2>3 DEF PublisherNext
<1>7. ASSUME NEW c \in Consumer, PlayerNext(c) PROVE SizesSet'
  <2>1. /\ consumer[c] \in ConsumerType /\ consumer[c].queue \in QueueType
        /\ Sized(c) => consumer[c].queue.queue_size_ms = QueueMs
    BY <1>1 DEF ConsumerType, SizesSet
  <2>2. ASSUME NEW pc, Goto(c, pc)
        PROVE  player'[c].pc = pc /\ \A d \in Consumer \ {c} : player'[d] = player[d]
    BY <1>1, <2>2 DEF Goto
  <2>3. ASSUME NEW m \in Message, consumer' = [consumer EXCEPT ![c] = Enqueued(consumer[c], m)],
               Sized(c), \A d \in Consumer \ {c} : player'[d] = player[d]
        PROVE  SizesSet'
    <3>1. Enqueued(consumer[c], m).queue.queue_size_ms = QueueMs
      BY <1>2, <2>1, <2>3
    <3> HIDE DEF Enqueued
    <3> QED BY <1>5, <2>3, <3>1
  <2>4. ASSUME consumer' = consumer, Sized(c), \A d \in Consumer \ {c} : player'[d] = player[d]
        PROVE  SizesSet'
    BY <2>1, <2>4 DEF SizesSet, Sized
  <2>5. CASE create_consumer(c) \/ on_consumer_destroy(c)
    <3>1. consumer' = [consumer EXCEPT ![c] = NewConsumer]
      BY <2>5 DEF create_consumer, on_consumer_destroy
    <3>2. player'[c].pc \in {"size", "gone"} /\ \A d \in Consumer \ {c} : player'[d] = player[d]
      BY <2>2, <2>5 DEF create_consumer, on_consumer_destroy
    <3> QED BY <1>5, <3>1, <3>2 DEF Sized
  <2>6. CASE set_queue_size(c)
    <3> DEFINE q == [consumer[c].queue EXCEPT !.queue_size_ms = QueueMs]
               k == [consumer[c] EXCEPT !.queue = q]
    <3>1. consumer' = [consumer EXCEPT ![c] = k]
      BY <1>1, <2>6 DEF set_queue_size
    <3>2. q \in QueueType /\ q.queue_size_ms = QueueMs
      BY <2>1, QueueAssumption DEF QueueType
    <3>3. k.queue = q
      BY <2>1, <3>2 DEF ConsumerType
    <3>4. \A d \in Consumer \ {c} : player'[d] = player[d]
      BY <2>2, <2>6 DEF set_queue_size
    <3> HIDE DEF k, q
    <3> QED BY <1>5, <3>1, <3>2, <3>3, <3>4
  <2>7. CASE DumpMeta(c)
    <3>1. Sized(c) /\ \A d \in Consumer \ {c} : player'[d] = player[d]
      BY <2>2, <2>7 DEF DumpMeta, At, Sized
    <3>2. CASE meta.data = NoMessage
      BY <2>4, <2>7, <3>1, <3>2 DEF DumpMeta
    <3>3. CASE meta.data # NoMessage
      <4>1. GopStartTime(gop_cache) \in Int /\ meta.data \in Message
        BY <1>1, <3>3, GopStartTimeType DEF MetaType
      <4>2. meta'.data \in {meta.data, Retimed(meta.data, GopStartTime(gop_cache))}
        BY <2>7 DEF DumpMeta
      <4>3. meta'.data \in Message
        BY <4>1, <4>2, RetimedType DEF Retimed
      <4>4. consumer' = [consumer EXCEPT ![c] = Enqueued(consumer[c], meta'.data)]
        BY <2>7, <3>3 DEF DumpMeta
      <4> QED BY <2>3, <3>1, <4>3, <4>4
    <3> QED BY <3>2, <3>3
  <2>8. ASSUME NEW from \in {"audio", "video"}, NEW to, NEW m \in Message \cup {NoMessage},
               DumpHeader(c, from, to, m)
        PROVE  SizesSet'
    <3>1. Sized(c) /\ \A d \in Consumer \ {c} : player'[d] = player[d]
      BY <2>2, <2>8 DEF DumpHeader, At, Sized
    <3>2. CASE m = NoMessage
      BY <2>4, <2>8, <3>1, <3>2 DEF DumpHeader
    <3>3. CASE m # NoMessage
      <4>1. consumer' = [consumer EXCEPT ![c] = Enqueued(consumer[c], m)]
        BY <2>8, <3>3 DEF DumpHeader
      <4> QED BY <2>3, <3>1, <3>3, <4>1
    <3> QED BY <3>2, <3>3
  <2>9. CASE DumpAsh(c) \/ DumpVsh(c)
    BY <1>1, <2>8, <2>9 DEF DumpAsh, DumpVsh, MetaType
  <2>10. CASE DumpGop(c)
    <3>1. Sized(c) /\ \A d \in Consumer \ {c} : player'[d] = player[d]
      BY <1>1, <2>2, <2>10 DEF DumpGop, At, Sized
    <3>2. CASE player[c].next <= Len(gop_cache.msgs)
      <4>1. gop_cache.msgs[player[c].next] \in Message
        <5>1. player[c].next \in Nat /\ player[c].next >= 1
          BY <1>1, <2>10 DEF DumpGop, At, IInv, HandlersSound
        <5>2. gop_cache.msgs \in Seq(Message)
          BY <1>1 DEF GopType
        <5> QED BY <3>2, <5>1, <5>2
      <4>2. consumer' = [consumer EXCEPT ![c] = Enqueued(consumer[c], gop_cache.msgs[player[c].next])]
        BY <2>10, <3>2 DEF DumpGop
      <4> QED BY <2>3, <3>1, <4>1, <4>2
    <3>3. CASE ~(player[c].next <= Len(gop_cache.msgs))
      BY <2>4, <2>10, <3>1, <3>3 DEF DumpGop
    <3> QED BY <3>2, <3>3
  <2>11. ASSUME NEW max \in 1..MwMsgs, dump_packets(c, max) PROVE SizesSet'
    <3> DEFINE k == consumer[c]
               q == IF k.paused THEN k.queue ELSE AfterDump(k.queue, max)
               e == [k EXCEPT !.should_update_source_id = FALSE, !.queue = q]
    <3>1. consumer' = [consumer EXCEPT ![c] = e] /\ player' = player /\ Sized(c)
      BY <1>1, <2>11 DEF dump_packets, At, Sized
    <3>2. max \in Nat \ {0} /\ FALSE \in BOOLEAN
      BY SourceAssumption
    <3>3. q \in QueueType /\ q.queue_size_ms = QueueMs
      BY <1>3, <2>1, <3>1, <3>2, QueueTypes
    <3>4. e.queue = q
      <4> HIDE DEF q
      <4> QED BY <2>1, <3>2, <3>3 DEF ConsumerType
    <3> HIDE DEF e, q
    <3> QED BY <1>5, <3>1, <3>3, <3>4
  <2>12. ASSUME NEW b \in BOOLEAN, on_play_client_pause(c, b) PROVE SizesSet'
    <3>1. \A d \in Consumer : consumer'[d].queue = consumer[d].queue
      <4>1. [consumer[c] EXCEPT !.paused = b].queue = consumer[c].queue
        BY <2>1 DEF ConsumerType
      <4> QED BY <1>1, <2>12, <4>1 DEF on_play_client_pause
    <3> QED BY <1>4, <2>12, <3>1 DEF on_play_client_pause
  <2> QED BY <1>7, <2>5, <2>6, <2>7, <2>9, <2>10, <2>11, <2>12 DEF PlayerNext
<1>8. ASSUME NEW v \in GopCacheConf, set_cache(v) PROVE SizesSet'
  BY <1>4, <1>8 DEF set_cache
<1>9. CASE UNCHANGED vars
  BY <1>4, <1>9 DEF vars
<1> QED BY <1>6, <1>7, <1>8, <1>9 DEF Next

LEMMA QueuesShrinkFull ==
    ASSUME FullJitter
    PROVE  IInv /\ SizesSet /\ QueuesOk => ShrinkOnlyWhenFull
<1> SUFFICES ASSUME IInv, SizesSet, QueuesOk, publisher.pc = "dispatch",
                    publisher.next <= Len(consumers), ~atc, meta.data = NoMessage,
                    Sized(consumers[publisher.next])
             PROVE  LET k == consumer[consumers[publisher.next]]
                        m == Corrected(k.jitter, publisher.msg, Jitter)
                    IN  Overflows(k.queue, m) =>
                           Span(Append(k.queue.msgs, m)) + MaxJitterMs > QueueMs
  BY DEF ShrinkOnlyWhenFull
<1> DEFINE c == consumers[publisher.next]
           k == consumer[c]
           m == Corrected(k.jitter, publisher.msg, Jitter)
<1>1. publisher.msg \in Message /\ is_av(publisher.msg) /\ c \in Consumer
  BY NoMessageIsNone DEF IInv, TypeOK, HandlersSound
<1>2. /\ k.jitter \in JitterType /\ k.queue \in QueueType /\ QueueOk(k.jitter, k.queue)
      /\ k.queue.queue_size_ms = QueueMs
  BY <1>1 DEF IInv, TypeOK, ConsumerType, QueuesOk, SizesSet
<1>3. m \in Message
  BY <1>1, <1>2, JitterTypes, SourceAssumption
<1>4. /\ is_av(m) /\ m.ts >= 0
      /\ k.jitter.last_pkt_correct_time >= 0 =>
            m.ts - k.jitter.last_pkt_correct_time <= MaxJitterMs
  BY <1>1, <1>2, FullStep
<1> HIDE DEF m, k
<1>5. Overflows(k.queue, m) => Span(Append(k.queue.msgs, m)) + MaxJitterMs > QueueMs
  BY <1>2, <1>3, <1>4, OverflowSpan
<1> QED BY <1>5 DEF k, m

\* With time_jitter full and the code's order of its two constants, for every
\* queue length and whatever the threads interleave, the queue of a player that
\* has been given its length (create_consumer, past set_queue_size) is only shrunk
\* when what waits and the packet that came cover the configured duration, one
\* jitter step granted (SrsMessageQueue::enqueue after SrsRtmpJitter::correct,
\* over any sequence of dumps).
THEOREM ShrinkOnlyWhenFullProved ==
    ASSUME FullJitter
    PROVE  Spec => []ShrinkOnlyWhenFull
<1>1. Init => IInv /\ MediaInv /\ SizesSet /\ QueuesOk
  <2>1. Init => SizesSet /\ QueuesOk
    BY NewConsumerOk DEF Init, SizesSet, Sized, QueuesOk
  <2> QED BY <2>1, InitIInv, InitMediaInv
<1>2. IInv /\ MediaInv /\ SizesSet /\ QueuesOk /\ [Next]_vars
         => IInv' /\ MediaInv' /\ SizesSet' /\ QueuesOk'
  BY NextIInv, NextMediaInv, NextSizesSet, NextQueuesOk
<1>3. IInv /\ SizesSet /\ QueuesOk => ShrinkOnlyWhenFull
  BY QueuesShrinkFull
<1> QED BY <1>1, <1>2, <1>3, PTL DEF Spec

-----------------------------------------------------------------------------
(* The last header of a medium in a sequence. *)

IsHeader(m, type) == sh(m) /\ m.type = type

\* The last header of h's medium in s has the payload of h.
LastOf(s, h) ==
    \E i \in 1..Len(s) :
        /\ sh(s[i]) /\ SamePayload(s[i], h)
        /\ \A j \in 1..Len(s) : j > i => ~IsHeader(s[j], h.type)

Without(s, type) == \A j \in 1..Len(s) : ~IsHeader(s[j], type)

LEMMA LastOfConcat ==
    ASSUME NEW r \in Seq(Message), NEW s \in Seq(Message), NEW h
    PROVE  LastOf(r \o s, h) <=>
             LastOf(s, h) \/ (Without(s, h.type) /\ LastOf(r, h))
<1> DEFINE z == r \o s
           a == Len(r)
           b == Len(s)
<1>1. /\ a \in Nat /\ b \in Nat /\ Len(z) = a + b
      /\ \A i \in 1..a : z[i] = r[i]
      /\ \A i \in 1..b : z[a + i] = s[i]
  OBVIOUS
<1> HIDE DEF z, a, b
<1>2. \A k \in 1..a + b : k \in 1..a \/ \E i \in 1..b : k = a + i
  <2> SUFFICES ASSUME NEW k \in 1..a + b, k > a PROVE \E i \in 1..b : k = a + i
    BY <1>1
  <2>1. k - a \in 1..b /\ k = a + (k - a)
    BY <1>1
  <2> QED BY <2>1
<1>3. ASSUME LastOf(s, h) PROVE LastOf(z, h)
  <2>1. PICK i \in 1..b : /\ sh(s[i]) /\ SamePayload(s[i], h)
                          /\ \A j \in 1..b : j > i => ~IsHeader(s[j], h.type)
    BY <1>3 DEF LastOf, b
  <2>2. a + i \in 1..a + b /\ z[a + i] = s[i]
    BY <1>1
  <2>3. ASSUME NEW k \in 1..a + b, k > a + i PROVE ~IsHeader(z[k], h.type)
    <3>1. PICK j \in 1..b : k = a + j
      BY <1>1, <1>2, <2>3
    <3>2. j > i /\ z[k] = s[j]
      BY <1>1, <2>3, <3>1
    <3> QED BY <2>1, <3>2
  <2> QED BY <1>1, <2>1, <2>2, <2>3 DEF LastOf
<1>4. ASSUME Without(s, h.type), LastOf(r, h) PROVE LastOf(z, h)
  <2>1. PICK i \in 1..a : /\ sh(r[i]) /\ SamePayload(r[i], h)
                          /\ \A j \in 1..a : j > i => ~IsHeader(r[j], h.type)
    BY <1>4 DEF LastOf, a
  <2>2. i \in 1..a + b /\ z[i] = r[i]
    BY <1>1
  <2>3. ASSUME NEW k \in 1..a + b, k > i PROVE ~IsHeader(z[k], h.type)
    <3>1. CASE k \in 1..a
      BY <1>1, <2>1, <2>3, <3>1
    <3>2. CASE \E j \in 1..b : k = a + j
      BY <1>1, <1>4, <3>2 DEF Without, b
    <3> QED BY <1>2, <3>1, <3>2
  <2> QED BY <1>1, <2>1, <2>2, <2>3 DEF LastOf
<1>5. ASSUME LastOf(z, h)
      PROVE  LastOf(s, h) \/ (Without(s, h.type) /\ LastOf(r, h))
  <2>1. PICK k \in 1..a + b : /\ sh(z[k]) /\ SamePayload(z[k], h)
                              /\ \A j \in 1..a + b : j > k => ~IsHeader(z[j], h.type)
    BY <1>1, <1>5 DEF LastOf
  <2>2. CASE k \in 1..a
    <3>1. ASSUME NEW j \in 1..b PROVE ~IsHeader(s[j], h.type)
      <4>1. a + j \in 1..a + b /\ a + j > k /\ z[a + j] = s[j]
        BY <1>1, <2>2
      <4> QED BY <2>1, <4>1
    <3>2. ASSUME NEW j \in 1..a, j > k PROVE ~IsHeader(r[j], h.type)
      <4>1. j \in 1..a + b /\ z[j] = r[j]
        BY <1>1
      <4> QED BY <2>1, <3>2, <4>1
    <3>3. z[k] = r[k]
      BY <1>1, <2>2
    <3>4. LastOf(r, h)
      BY <2>1, <2>2, <3>2, <3>3 DEF LastOf, a
    <3> QED BY <3>1, <3>4 DEF Without, b
  <2>3. ASSUME NEW i \in 1..b, k = a + i PROVE LastOf(s, h)
    <3>1. z[k] = s[i]
      BY <1>1, <2>3
    <3>2. ASSUME NEW j \in 1..b, j > i PROVE ~IsHeader(s[j], h.type)
      <4>1. a + j \in 1..a + b /\ a + j > a + i
        BY <1>1, <3>2
      <4>2. z[a + j] = s[j]
        BY <1>1
      <4> QED BY <2>1, <2>3, <4>1, <4>2
    <3> QED BY <2>1, <3>1, <3>2 DEF LastOf, b
  <2> QED BY <1>2, <2>2, <2>3
<1> QED BY <1>3, <1>4, <1>5 DEF z

\* One message: it is the last header, or it is none.
LEMMA LastOfOne ==
    ASSUME NEW m, NEW h
    PROVE  /\ sh(m) /\ SamePayload(m, h) => LastOf(<<m>>, h)
           /\ ~IsHeader(m, h.type) => Without(<<m>>, h.type)
<1>1. Len(<<m>>) = 1 /\ <<m>>[1] = m
  OBVIOUS
<1>2. \A j \in 1..Len(<<m>>) : j = 1
  BY <1>1
<1>3. ASSUME sh(m), SamePayload(m, h) PROVE LastOf(<<m>>, h)
  <2>1. 1 \in 1..Len(<<m>>) /\ \A j \in 1..Len(<<m>>) : ~(j > 1)
    BY <1>1
  <2> QED BY <1>1, <1>3, <2>1 DEF LastOf
<1>4. ASSUME ~IsHeader(m, h.type) PROVE Without(<<m>>, h.type)
  BY <1>1, <1>2, <1>4 DEF Without
<1> QED BY <1>3, <1>4

\* What shrink keeps of one medium.
LEMMA LatestKeeps ==
    ASSUME NEW p \in Seq(Message), NEW type, NEW t \in Int, NEW h
    PROVE  LET l == LatestHeader(p, type, t)
           IN  /\ h.type = type /\ LastOf(p, h) => LastOf(l, h)
               /\ Without(p, h.type) => Without(l, h.type)
               /\ h.type # type => Without(l, h.type)
<1> DEFINE I == {i \in 1..Len(p) : sh(p[i]) /\ p[i].type = type}
           l == LatestHeader(p, type, t)
           e == [p[Max(I)] EXCEPT !.ts = t]
<1>1. CASE I = {}
  <2>1. l = <<>>
    BY <1>1 DEF LatestHeader
  <2>2. Without(<<>>, h.type)
    BY DEF Without
  <2>3. ~(h.type = type /\ LastOf(p, h))
    BY <1>1 DEF LastOf, SamePayload
  <2> QED BY <2>1, <2>2, <2>3
<1>2. CASE I # {}
  <2>1. I \in SUBSET (1..Len(p)) /\ Len(p) \in Nat
    OBVIOUS
  <2>2. Max(I) \in I /\ \A i \in I : i <= Max(I)
    <3> HIDE DEF I
    <3> QED BY <1>2, <2>1, IndexBounds
  <2>3. l = <<e>>
    BY <1>2 DEF LatestHeader
  <2> DEFINE k == Max(I)
             m == p[k]
  <2>4. k \in 1..Len(p) /\ m \in Message /\ sh(m) /\ m.type = type
    BY <2>2
  <2>5. /\ [m EXCEPT !.ts = t].type = m.type /\ [m EXCEPT !.ts = t].kind = m.kind
        /\ [m EXCEPT !.ts = t].id = m.id
    <3> HIDE DEF m
    <3> QED BY <2>4 DEF Message
  <2>6. sh(e) /\ SamePayload(e, m) /\ e.type = type
    <3> HIDE DEF k
    <3> QED BY <2>4, <2>5 DEF sh, is_av, SamePayload, k
  <2>7. ASSUME h.type = type, LastOf(p, h) PROVE LastOf(l, h)
    <3>1. PICK i \in 1..Len(p) : /\ sh(p[i]) /\ SamePayload(p[i], h)
                                 /\ \A j \in 1..Len(p) : j > i => ~IsHeader(p[j], h.type)
      BY <2>7 DEF LastOf
    <3>2. i \in I
      BY <2>7, <3>1 DEF SamePayload
    <3>3. i <= k /\ ~(k > i)
      BY <2>2, <2>4, <2>7, <3>1, <3>2 DEF IsHeader
    <3>4. i = k
      BY <2>4, <3>3
    <3>5. SamePayload(e, h)
      <4> HIDE DEF e, k
      <4> QED BY <2>6, <3>1, <3>4 DEF SamePayload
    <3> HIDE DEF e, l
    <3> QED BY <2>3, <2>6, <3>5, LastOfOne
  <2>8. ~Without(p, type)
    BY <2>4 DEF Without, IsHeader
  <2>9. h.type # type => Without(l, h.type)
    <3> HIDE DEF e, l
    <3>1. h.type # type => ~IsHeader(e, h.type)
      BY <2>6 DEF IsHeader
    <3> QED BY <2>3, <3>1, LastOfOne
  <2> QED BY <2>7, <2>8, <2>9
<1> QED BY <1>1, <1>2

\* A message more, and a shrink when the queue is full: the last header is the
\* message if that is one, and what it was for the other medium.
LEMMA EnqueueHeaders ==
    ASSUME NEW q \in QueueType, NEW n \in Message, NEW h, h.type \in {"video", "audio"}
    PROVE  LET e == enqueue(q, n).msgs
           IN  /\ sh(n) /\ SamePayload(n, h) => LastOf(e, h)
               /\ ~IsHeader(n, h.type) /\ LastOf(q.msgs, h) => LastOf(e, h)
               /\ ~IsHeader(n, h.type) /\ Without(q.msgs, h.type) => Without(e, h.type)
<1> DEFINE p == Pushed(q, n)
           z == q.msgs \o <<n>>
           t == p.av_end_time
           v == LatestHeader(z, "video", t)
           a == LatestHeader(z, "audio", t)
<1>1. q.msgs \in Seq(Message) /\ <<n>> \in Seq(Message) /\ z \in Seq(Message)
  BY DEF QueueType
<1>2. p.msgs = z /\ t \in Int
  BY MessageTs DEF Pushed, QueueType
<1>3. /\ sh(n) /\ SamePayload(n, h) => LastOf(z, h)
      /\ ~IsHeader(n, h.type) /\ LastOf(q.msgs, h) => LastOf(z, h)
  <2> HIDE DEF z
  <2>1. LastOf(z, h) <=> LastOf(<<n>>, h) \/ (Without(<<n>>, h.type) /\ LastOf(q.msgs, h))
    BY <1>1, LastOfConcat DEF z
  <2> QED BY <2>1, LastOfOne
<1>4. ~IsHeader(n, h.type) /\ Without(q.msgs, h.type) => Without(z, h.type)
  BY <1>1 DEF Without
<1>5. enqueue(q, n).msgs \in {z, v \o a}
  BY <1>2 DEF enqueue, shrink
<1>6. v \in Seq(Message) /\ a \in Seq(Message)
  <2> HIDE DEF z, t
  <2> QED BY <1>1, <1>2, LatestHeaderType
<1>7. /\ h.type = "video" /\ LastOf(z, h) => LastOf(v, h)
      /\ h.type = "audio" /\ LastOf(z, h) => LastOf(a, h)
      /\ Without(z, h.type) => Without(v, h.type) /\ Without(a, h.type)
      /\ h.type = "video" => Without(a, h.type)
  <2> HIDE DEF z, t
  <2> QED BY <1>1, <1>2, LatestKeeps
<1> HIDE DEF z, v, a
<1>8. LastOf(z, h) => LastOf(v \o a, h)
  BY <1>6, <1>7, LastOfConcat
<1>9. Without(z, h.type) => Without(v \o a, h.type)
  <2>1. /\ Len(v \o a) = Len(v) + Len(a) /\ Len(v) \in Nat /\ Len(a) \in Nat
        /\ \A i \in 1..Len(v) + Len(a) :
              (v \o a)[i] = IF i <= Len(v) THEN v[i] ELSE a[i - Len(v)]
    BY <1>6
  <2> SUFFICES ASSUME Without(v, h.type), Without(a, h.type),
                      NEW i \in 1..Len(v) + Len(a)
               PROVE  ~IsHeader((v \o a)[i], h.type)
    BY <1>7, <2>1 DEF Without
  <2>2. CASE i <= Len(v)
    BY <2>1, <2>2 DEF Without
  <2>3. CASE i > Len(v)
    <3>1. i - Len(v) \in 1..Len(a) /\ (v \o a)[i] = a[i - Len(v)]
      BY <2>1, <2>3
    <3> QED BY <3>1 DEF Without
  <2> QED BY <2>1, <2>2, <2>3
<1> QED BY <1>3, <1>4, <1>5, <1>8, <1>9

\* The corrector changes the time of a message only.
LEMMA CorrectedKeeps ==
    ASSUME NEW j \in JitterType, NEW m \in Message
    PROVE  SamePayload(Corrected(j, m, Jitter), m)
<1>1. \A t : SamePayload([m EXCEPT !.ts = t], m)
  BY DEF Message, SamePayload
<1>2. Corrected(j, m, Jitter) = m \/ \E t : Corrected(j, m, Jitter) = [m EXCEPT !.ts = t]
  BY SourceAssumption DEF Corrected, JitterAlgorithm
<1> QED BY <1>1, <1>2 DEF SamePayload

\* SrsConsumer::enqueue, as the stream of the player shows it.
LEMMA StreamEnqueued ==
    ASSUME NEW k \in ConsumerType, NEW m \in Message, NEW r \in Seq(Message),
           NEW h, h.type \in {"video", "audio"}
    PROVE  /\ sh(m) /\ SamePayload(m, h) =>
                 LastOf(r \o Enqueued(k, m).queue.msgs, h)
           /\ ~IsHeader(m, h.type) /\ LastOf(r \o k.queue.msgs, h) =>
                 LastOf(r \o Enqueued(k, m).queue.msgs, h)
<1> DEFINE n == IF atc THEN m ELSE Corrected(k.jitter, m, Jitter)
           e == Enqueued(k, m).queue.msgs
           s == k.queue.msgs
<1>1. k.jitter \in JitterType /\ k.queue \in QueueType
  BY DEF ConsumerType
<1>2. n \in Message /\ Enqueued(k, m).queue = enqueue(k.queue, n)
  BY EnqueuedFields, Zenon
<1>3. SamePayload(n, m)
  BY <1>1, CorrectedKeeps DEF SamePayload
<1>4. /\ sh(m) /\ SamePayload(m, h) => sh(n) /\ SamePayload(n, h)
      /\ ~IsHeader(m, h.type) => ~IsHeader(n, h.type)
  <2> HIDE DEF n
  <2> QED BY <1>3 DEF SamePayload, sh, is_av, IsHeader
<1>5. s \in Seq(Message) /\ e \in Seq(Message)
  BY EnqueuedType DEF ConsumerType, QueueType
<1> HIDE DEF n
<1>6. /\ sh(n) /\ SamePayload(n, h) => LastOf(e, h)
      /\ ~IsHeader(n, h.type) /\ LastOf(s, h) => LastOf(e, h)
      /\ ~IsHeader(n, h.type) /\ Without(s, h.type) => Without(e, h.type)
  BY <1>1, <1>2, EnqueueHeaders
<1> HIDE DEF e, s
<1>7. /\ LastOf(r \o s, h) <=> LastOf(s, h) \/ (Without(s, h.type) /\ LastOf(r, h))
      /\ LastOf(r \o e, h) <=> LastOf(e, h) \/ (Without(e, h.type) /\ LastOf(r, h))
  BY <1>5, LastOfConcat
<1> QED BY <1>4, <1>6, <1>7 DEF e, s

\* A dump moves messages from the queue to the player, in order.
LEMMA DumpKeepsStream ==
    ASSUME NEW q \in QueueType, NEW max \in Nat \ {0}, NEW r \in Seq(Message)
    PROVE  (r \o Dumped(q, max)) \o AfterDump(q, max).msgs = r \o q.msgs
<1> DEFINE s == q.msgs
           d == DumpCount(q, max)
           a == SubSeq(s, 1, d)
           b == SubSeq(s, d + 1, Len(s))
<1>1. s \in Seq(Message) /\ d \in 0..Len(s) /\ (s # <<>> => d >= 1)
  BY DEF DumpCount, QueueType
<1>2. Dumped(q, max) = a /\ AfterDump(q, max).msgs = IF s = <<>> THEN s ELSE b
  BY DEF Dumped, AfterDump, QueueType
<1> HIDE DEF s, d
<1>3. a \in Seq(Message) /\ b \in Seq(Message) /\ a \o b = s
  <2>1. a \in Seq(Message) /\ b \in Seq(Message) /\ SubSeq(s, 1, Len(s)) = s
    BY <1>1
  <2>2. /\ 1 \in 1..Len(s) + 1 /\ d \in 1 - 1..Len(s) /\ Len(s) \in d..Len(s)
    BY <1>1
  <2>3. a \o b = SubSeq(s, 1, Len(s))
    BY <1>1, <2>2, ConcatAdjacentSubSeq
  <2> QED BY <2>1, <2>3
<1>4. s = <<>> => a = <<>> /\ b = <<>>
  <2>1. s = <<>> => Len(a) = 0 /\ Len(b) = 0
    BY <1>1
  <2> QED BY <1>3, <2>1
<1> HIDE DEF a, b
<1>5. (r \o a) \o b = r \o (a \o b)
  <2>1. a \in Seq(Message) /\ b \in Seq(Message)
    BY <1>3
  <2> DEFINE u == (r \o a) \o b
             w == r \o (a \o b)
             n == Len(r) + Len(a) + Len(b)
  <2>2. /\ Len(r) \in Nat /\ Len(a) \in Nat /\ Len(b) \in Nat
        /\ r \o a \in Seq(Message) /\ a \o b \in Seq(Message)
        /\ Len(r \o a) = Len(r) + Len(a) /\ Len(a \o b) = Len(a) + Len(b)
    BY <2>1
  <2>3. u \in Seq(Message) /\ w \in Seq(Message) /\ Len(u) = n /\ Len(w) = n
    BY <2>1, <2>2
  <2>4. ASSUME NEW i \in 1..n PROVE u[i] = w[i]
    <3>1. CASE i <= Len(r)
      BY <2>1, <2>2, <2>4, <3>1
    <3>2. CASE i > Len(r) /\ i <= Len(r) + Len(a)
      BY <2>1, <2>2, <2>4, <3>2
    <3>3. CASE i > Len(r) + Len(a)
      BY <2>1, <2>2, <2>4, <3>3
    <3> QED BY <2>2, <3>1, <3>2, <3>3
  <2> HIDE DEF u, w, n
  <2>5. u = w
    BY <2>3, <2>4, SeqEqual
  <2> QED BY <2>5 DEF u, w
<1> QED BY <1>2, <1>3, <1>4, <1>5 DEF s

\* The last header that the property looks for.
LEMMA LastHeaderFound ==
    ASSUME NEW c, Stream(c) \in Seq(Message), NEW h, LastOf(Stream(c), h)
    PROVE  LastHeaderIs(c, h)
<1> DEFINE s == Stream(c)
           I == {i \in 1..Len(s) : sh(s[i]) /\ s[i].type = h.type}
<1>1. PICK i \in 1..Len(s) : /\ sh(s[i]) /\ SamePayload(s[i], h)
                             /\ \A j \in 1..Len(s) : j > i => ~IsHeader(s[j], h.type)
  BY DEF LastOf
<1>2. I \in SUBSET (1..Len(s)) /\ Len(s) \in Nat /\ i \in I
  BY <1>1 DEF SamePayload
<1>3. Max(I) \in I /\ \A j \in I : j <= Max(I)
  <2> HIDE DEF I
  <2> QED BY <1>2, IndexBounds
<1>4. Max(I) = i
  <2>1. \A j \in I : j \in 1..Len(s) /\ ~(j > i)
    BY <1>1 DEF IsHeader
  <2>2. i <= Max(I) /\ ~(Max(I) > i) /\ Max(I) \in 1..Len(s)
    <3> HIDE DEF I, s
    <3> QED BY <1>2, <1>3, <2>1
  <2>3. \A x, y \in 1..Len(s) : x <= y /\ ~(y > x) => y = x
    BY <1>2
  <2> HIDE DEF I, s
  <2> QED BY <2>2, <2>3
<1>5. SelectLastInSeq(s, LAMBDA m : sh(m) /\ m.type = h.type) = i
  BY <1>2, <1>4 DEF SelectLastInSeq
<1> QED BY <1>1, <1>5 DEF LastHeaderIs

-----------------------------------------------------------------------------
(* The headers a player holds, when a handler runs to its end. *)

\* A cached header that can be decoded is the last of its medium in s.
Knows(s, h) == h.kind = "sh" => LastOf(s, h)

\* A header is going round, and the players it has been given to.
Sending(type) == publisher.pc = "dispatch" /\ IsHeader(publisher.msg, type)
Reached(c) ==
    \E i \in 1..Len(consumers) : i < publisher.next /\ consumers[i] = c

\* The video header is cached before the dispatch: a player lacks it until it
\* is reached.
VideoKnown(c) ==
    player[c].pc \in {"gop", "playing"} =>
        (Sending("video") /\ ~Reached(c)) \/ Knows(Stream(c), meta.video)

\* The audio header is cached after the dispatch: a player that is reached
\* holds one that is not cached yet.
AudioKnown(c) ==
    player[c].pc \in {"video", "gop", "playing"} =>
        IF Sending("audio") /\ Reached(c)
        THEN Knows(Stream(c), publisher.msg)
        ELSE Knows(Stream(c), meta.audio)

\* A player that is there is in the vector that the dispatch goes through, and
\* none is half created then.
Listed(c) ==
    /\ ~At(c, "gone") => \E i \in 1..Len(consumers) : consumers[i] = c
    /\ ~At(c, "playing") => received[c] = <<>>
    /\ At(c, "size") => consumer[c].queue = NewQueue
    /\ At(c, "meta") => consumer[c].queue = [NewQueue EXCEPT !.queue_size_ms = QueueMs]
    /\ Publishing => ~Creating(c)

\* A queue of messages of the time t only, which therefore never overflows.
AtGop(q, t) ==
    /\ \A i \in 1..Len(q.msgs) : q.msgs[i].ts = t
    /\ q.av_start_time \in {-1, t} /\ q.av_end_time = q.av_start_time

\* Ahead of the gop, what was copied and what will be has the time of the gop.
Ahead(c) ==
    player[c].pc \in {"audio", "video"} \/ (At(c, "gop") /\ player[c].next = 1)

Timed(c) ==
    Ahead(c) /\ atc /\ gop_cache.msgs # <<>> =>
        LET t == GopStartTime(gop_cache)
        IN  /\ AtGop(consumer[c].queue, t)
            /\ meta.audio # NoMessage => meta.audio.ts = t
            /\ meta.video # NoMessage => meta.video.ts = t

\* The header of a handler under way, and the cache: a video header is in it;
\* an audio header that skips the dispatch repeats the cached one.
HandlerHeaders ==
    Publishing /\ sh(publisher.msg) =>
        /\ is_video(publisher.msg) => meta.video = publisher.msg
        /\ is_audio(publisher.msg) /\ publisher.pc = "tail" =>
              SamePayload(publisher.msg, meta.audio)

PlayerHeaders(c) == VideoKnown(c) /\ AudioKnown(c) /\ Listed(c) /\ Timed(c)

HeaderInv == HandlerHeaders /\ \A c \in Consumer : PlayerHeaders(c)

LEMMA KnowsSame ==
    ASSUME NEW s, NEW g, NEW h, SamePayload(g, h), Knows(s, h)
    PROVE  Knows(s, g)
  BY DEF Knows, LastOf, SamePayload

\* A message that is no header of h's medium leaves what is known of it.
LEMMA KnowsKept ==
    ASSUME NEW k \in ConsumerType, NEW m \in Message, NEW r \in Seq(Message),
           NEW h, h.type \in {"video", "audio"},
           ~IsHeader(m, h.type), Knows(r \o k.queue.msgs, h)
    PROVE  Knows(r \o Enqueued(k, m).queue.msgs, h)
  BY StreamEnqueued DEF Knows

\* A header that is enqueued is known.
LEMMA KnowsNew ==
    ASSUME NEW k \in ConsumerType, NEW m \in Message, NEW r \in Seq(Message),
           is_av(m)
    PROVE  Knows(r \o Enqueued(k, m).queue.msgs, m)
<1>1. m.kind = "sh" => sh(m) /\ SamePayload(m, m) /\ m.type \in {"video", "audio"}
  BY DEF sh, is_av, SamePayload
<1> QED BY <1>1, StreamEnqueued DEF Knows

LEMMA AtGopEnqueued ==
    ASSUME atc, NEW k \in ConsumerType, NEW m \in Message, NEW t \in Int,
           m.ts = t, AtGop(k.queue, t)
    PROVE  AtGop(Enqueued(k, m).queue, t)
<1> DEFINE q == k.queue
           p == Pushed(q, m)
<1>1. q \in QueueType
  BY DEF ConsumerType
<1>2. Enqueued(k, m).queue = enqueue(q, m)
  BY EnqueuedFields
<1>3. /\ p.msgs = Append(q.msgs, m) /\ p.av_start_time \in {-1, t}
      /\ p.av_end_time = p.av_start_time /\ p.av_start_time \in Int
  BY <1>1 DEF Pushed, AtGop
<1>4. ~Overflows(q, m)
  <2>1. p.queue_size_ms = q.queue_size_ms /\ q.queue_size_ms \in Nat
    BY <1>1 DEF Pushed, QueueType
  <2> HIDE DEF q
  <2> QED BY <1>3, <2>1 DEF Overflows, duration
<1>5. \A i \in 1..Len(p.msgs) : p.msgs[i].ts = t
  <2>1. q.msgs \in Seq(Message)
    BY <1>1 DEF QueueType
  <2> HIDE DEF q, p
  <2> QED BY <1>3, <2>1 DEF AtGop, q
<1> HIDE DEF p, q
<1> QED BY <1>2, <1>3, <1>4, <1>5 DEF AtGop, enqueue, p

\* Between handlers of the publisher, with no player half created: what is
\* known stays known when the queues and the vector stay.
LEMMA CalmHeaders ==
    ASSUME HeaderInv, ~Publishing, ~Publishing',
           \A c \in Consumer : ~Creating(c),
           UNCHANGED <<player, consumers, received>>,
           \A c \in Consumer : consumer'[c].queue = consumer[c].queue,
           \A s : Knows(s, meta.video) => Knows(s, meta'.video),
           \A s : Knows(s, meta.audio) => Knows(s, meta'.audio)
    PROVE  HeaderInv'
<1> SUFFICES ASSUME NEW c \in Consumer PROVE PlayerHeaders(c)'
  BY DEF HeaderInv, HandlerHeaders
<1>1. PlayerHeaders(c) /\ ~Creating(c) /\ ~Creating(c)'
  BY DEF HeaderInv, Creating, At
<1>2. \A type : ~Sending(type) /\ ~Sending(type)'
  BY DEF Sending, Publishing
<1>3. Stream(c)' = Stream(c)
  BY DEF Stream
<1>4. VideoKnown(c)' /\ AudioKnown(c)'
  BY <1>1, <1>2, <1>3 DEF PlayerHeaders, VideoKnown, AudioKnown
<1>5. Listed(c)'
  BY <1>1 DEF PlayerHeaders, Listed, At
<1>6. Timed(c)'
  BY <1>1 DEF Timed, Ahead, Creating, At
<1> QED BY <1>4, <1>5, <1>6 DEF PlayerHeaders

\* The entry of a handler of audio or video.
LEMMA BeginImpHeaders ==
    ASSUME IInv, HeaderInv, publisher.pc = "ready",
           \A c \in Consumer : ~Creating(c),
           UNCHANGED <<player, consumers, received, consumer>>,
           NEW m \in Message, is_av(m), BeginImp(m)
    PROVE  HeaderInv'
<1>1. meta \in MetaType /\ ~Publishing
  BY DEF IInv, TypeOK, Publishing
<1>2. /\ meta'.audio = meta.audio
      /\ meta'.video = IF is_video(m) /\ sh(m) THEN m ELSE meta.video
  BY <1>1 DEF BeginImp, MetaType
<1>3. CASE publisher' = Failed
  <2>1. ~Publishing'
    BY <1>3 DEF Failed, Publishing
  <2>2. m.kind = "badsh" /\ is_video(m)
    BY <1>3 DEF BeginImp, Failed, SkipDispatch, Dispatch
  <2>3. \A s : Knows(s, meta'.video)
    BY <1>2, <2>2 DEF Knows, sh
  <2> QED BY <1>1, <1>2, <2>1, <2>3, CalmHeaders
<1>4. CASE publisher' # Failed
  <2>1. \/ publisher' = Dispatch(m)
        \/ publisher' = SkipDispatch(m) /\ Duplicate(m)
    BY <1>4 DEF BeginImp
  <2>2. publisher'.msg = m /\ publisher'.next = 1 /\ publisher'.pc \in {"dispatch", "tail"}
    BY <2>1 DEF Dispatch, SkipDispatch
  <2>3. publisher'.pc = "tail" => Duplicate(m)
    BY <2>1 DEF Dispatch
  <2>4. HandlerHeaders'
    BY <1>2, <2>2, <2>3 DEF HandlerHeaders, Duplicate, is_video, is_audio
  <2>5. ASSUME NEW c \in Consumer PROVE PlayerHeaders(c)'
    <3>1. PlayerHeaders(c) /\ ~Creating(c) /\ ~Creating(c)'
      BY <2>5 DEF HeaderInv, Creating, At
    <3>2. Stream(c)' = Stream(c) /\ \A type : ~Sending(type)
      BY <1>1 DEF Stream, Sending, Publishing
    <3>3. ~Reached(c)'
      BY <2>2 DEF Reached
    <3>4. AudioKnown(c)'
      BY <1>2, <3>1, <3>2, <3>3 DEF PlayerHeaders, AudioKnown
    <3>5. VideoKnown(c)'
      <4>1. CASE ~(is_video(m) /\ sh(m))
        BY <1>2, <3>1, <3>2, <4>1 DEF PlayerHeaders, VideoKnown
      <4>2. CASE is_video(m) /\ sh(m) /\ publisher'.pc = "dispatch"
        BY <2>2, <3>3, <4>2 DEF VideoKnown, Sending, IsHeader, is_video
      <4>3. CASE is_video(m) /\ sh(m) /\ publisher'.pc = "tail"
        <5>1. SamePayload(meta'.video, meta.video)
          BY <1>2, <2>3, <4>3 DEF Duplicate
        <5> QED BY <3>1, <3>2, <5>1, KnowsSame DEF PlayerHeaders, VideoKnown
      <4> QED BY <2>2, <4>1, <4>2, <4>3
    <3>6. Listed(c)'
      BY <3>1 DEF PlayerHeaders, Listed, At
    <3>7. Timed(c)'
      BY <3>1 DEF Timed, Ahead, Creating, At
    <3> QED BY <3>4, <3>5, <3>6, <3>7 DEF PlayerHeaders
  <2> QED BY <2>4, <2>5 DEF HeaderInv
<1> QED BY <1>3, <1>4

\* A message of the publisher arrives.
LEMMA ReceiveHeaders ==
    ASSUME IInv, HeaderInv, \A c \in Consumer : ~Creating(c), Receive
    PROVE  HeaderInv'
<1>1. meta \in MetaType /\ mix_queue \in Seq(AvMessage)
  BY DEF IInv, TypeOK, HandlersSound
<1>2. ASSUME NEW m \in Message, on_av(m) PROVE HeaderInv'
  <2>1. publisher.pc = "ready" /\ UNCHANGED <<player, consumers, received, consumer>>
    BY <1>2 DEF on_av
  <2>2. m \in AvMessage
    BY <1>2 DEF on_av, AvMessage
  <2>3. ASSUME UNCHANGED <<meta, publisher>> PROVE HeaderInv'
    <3>1. ~Publishing /\ ~Publishing'
      BY <2>1, <2>3 DEF Publishing
    <3> QED BY <2>1, <2>3, <3>1, CalmHeaders
  <2>4. ASSUME NEW n \in AvMessage, BeginImp(n) PROVE HeaderInv'
    BY <2>1, <2>4, BeginImpHeaders DEF AvMessage
  <2>5. CASE is_video(m) /\ ~acceptable(m)
    BY <1>2, <2>3, <2>5 DEF on_av
  <2>6. CASE ~(is_video(m) /\ ~acceptable(m)) /\ ~MixCorrect
    BY <1>2, <2>2, <2>4, <2>6 DEF on_av
  <2>7. CASE ~(is_video(m) /\ ~acceptable(m)) /\ MixCorrect
    <3> DEFINE n == MixPopped(MixPush(mix_queue, m))
    <3>1. IF n = NoMessage THEN UNCHANGED <<meta, publisher>> ELSE BeginImp(n)
      BY <1>2, <2>7 DEF on_av
    <3>2. n \in AvMessage \cup {NoMessage}
      BY <1>1, <2>2, MixTypes
    <3> HIDE DEF n
    <3> QED BY <2>3, <2>4, <3>1, <3>2
  <2> QED BY <2>5, <2>6, <2>7
<1>3. ASSUME NEW m \in Message, on_meta_data(m) PROVE HeaderInv'
  <2>1. /\ publisher.pc = "ready" /\ UNCHANGED <<player, consumers, received, consumer>>
        /\ meta'.video = meta.video /\ meta'.audio = meta.audio
        /\ publisher' = Ready \/ publisher' = Dispatch(m)
        /\ ~is_av(m)
    BY <1>1, <1>3 DEF on_meta_data, MetaType, is_av
  <2>2. CASE publisher' = Ready
    <3>1. ~Publishing /\ ~Publishing'
      BY <2>1, <2>2 DEF Publishing, Ready
    <3> QED BY <2>1, <3>1, CalmHeaders
  <2>3. CASE publisher' = Dispatch(m)
    <3>1. publisher'.msg = m /\ ~sh(m)
      BY <2>1, <2>3 DEF Dispatch, sh
    <3>2. HandlerHeaders'
      BY <3>1 DEF HandlerHeaders
    <3>3. ASSUME NEW c \in Consumer PROVE PlayerHeaders(c)'
      <4>1. PlayerHeaders(c) /\ ~Creating(c) /\ ~Creating(c)'
        BY <2>1, <3>3 DEF HeaderInv, Creating, At
      <4>2. Stream(c)' = Stream(c) /\ \A type : ~Sending(type) /\ ~Sending(type)'
        BY <2>1, <3>1 DEF Stream, Sending, IsHeader
      <4>3. AudioKnown(c)' /\ VideoKnown(c)'
        BY <2>1, <4>1, <4>2 DEF PlayerHeaders, AudioKnown, VideoKnown
      <4>4. Listed(c)'
        BY <2>1, <4>1 DEF PlayerHeaders, Listed, At
      <4>5. Timed(c)'
        BY <4>1 DEF Timed, Ahead, Creating, At
      <4> QED BY <4>3, <4>4, <4>5 DEF PlayerHeaders
    <3> QED BY <3>2, <3>3 DEF HeaderInv
  <2> QED BY <2>1, <2>2, <2>3
<1> QED BY <1>2, <1>3, ReceivedMessage

\* One turn of the dispatch: the player that is reached gets the header that
\* goes round, and loses none of the other medium.
LEMMA DispatchOneHeaders ==
    ASSUME IInv, MediaInv, HeaderInv, \A c \in Consumer : ~Creating(c), DispatchOne
    PROVE  HeaderInv'
<1>1. /\ consumers \in Seq(Consumer) /\ consumer \in [Consumer -> ConsumerType]
      /\ received \in [Consumer -> Seq(Message)]
      /\ publisher \in [pc : PublisherStep, msg : Message \cup {NoMessage}, next : Nat]
      /\ publisher.pc = "dispatch" /\ publisher.msg \in Message
      /\ publisher.next \in 1..Len(consumers)
  BY DEF IInv, TypeOK, HandlersSound, DispatchOne
<1> PICK c \in Consumer : c = consumers[publisher.next]
  BY <1>1
<1> DEFINE m == IF is_av(publisher.msg) THEN publisher.msg ELSE meta.data
           k == consumer[c]
<1>2. /\ UNCHANGED <<player, consumers, received, meta>>
      /\ consumer' = [consumer EXCEPT ![c] = Enqueued(consumer[c], m)]
  BY DEF DispatchOne, sourceVars, historyVars
<1>3. publisher'.pc = "dispatch" /\ publisher'.msg = publisher.msg
      /\ publisher'.next = publisher.next + 1
  BY <1>1 DEF DispatchOne
<1>4. m \in Message /\ k \in ConsumerType
  BY <1>1 DEF IInv, HandlersSound
<1>5. HandlerHeaders'
  BY <1>1, <1>2, <1>3 DEF HeaderInv, HandlerHeaders, Publishing
<1>6. \A type : Sending(type)' <=> Sending(type)
  BY <1>1, <1>3 DEF Sending
<1>7. \A type : Sending(type) => m = publisher.msg /\ is_av(m)
  BY DEF Sending, IsHeader, sh
<1>8. \A type : ~Sending(type) => ~IsHeader(m, type)
  BY <1>1 DEF Sending, IsHeader, sh, MediaInv
<1>9. consumer'[c] = Enqueued(k, m) /\ \A d \in Consumer \ {c} : consumer'[d] = consumer[d]
  BY <1>1, <1>2, <1>4
<1>10. Reached(c)' /\ \A d \in Consumer \ {c} : Reached(d)' <=> Reached(d)
  <2>1. Reached(c)'
    BY <1>1, <1>2, <1>3 DEF Reached
  <2>2. ASSUME NEW d \in Consumer \ {c} PROVE Reached(d)' <=> Reached(d)
    <3>1. \A i \in 1..Len(consumers) : i < publisher.next + 1 <=> i < publisher.next \/ i = publisher.next
      BY <1>1
    <3>2. consumers[publisher.next] # d
      BY <2>2
    <3> QED BY <1>2, <1>3, <3>1, <3>2 DEF Reached
  <2> QED BY <2>1, <2>2
<1>11. ASSUME NEW d \in Consumer
       PROVE  Listed(d)' /\ Timed(d)' /\ PlayerHeaders(d) /\ ~Creating(d)
  <2>1. PlayerHeaders(d) /\ ~Creating(d) /\ ~Creating(d)'
    BY <1>2, <1>11 DEF HeaderInv, Creating, At
  <2>2. Listed(d)'
    BY <1>2, <2>1 DEF PlayerHeaders, Listed, At, Creating
  <2>3. Timed(d)'
    BY <2>1 DEF Timed, Ahead, Creating, At
  <2> QED BY <2>1, <2>2, <2>3
<1> HIDE DEF m, k
<1>12. ASSUME NEW d \in Consumer \ {c} PROVE PlayerHeaders(d)'
  <2>1. Stream(d)' = Stream(d)
    BY <1>2, <1>9, <1>12 DEF Stream
  <2>2. VideoKnown(d)' /\ AudioKnown(d)'
    BY <1>2, <1>3, <1>6, <1>10, <1>11, <1>12, <2>1
       DEF PlayerHeaders, VideoKnown, AudioKnown
  <2> QED BY <1>11, <1>12, <2>2 DEF PlayerHeaders
<1>13. PlayerHeaders(c)'
  <2> DEFINE r == received[c]
  <2>1. /\ Stream(c) = r \o k.queue.msgs /\ Stream(c)' = r \o Enqueued(k, m).queue.msgs
        /\ r \in Seq(Message)
    BY <1>1, <1>2, <1>4, <1>9 DEF Stream, k
  <2>2. /\ meta.video.kind = "sh" => meta.video.type = "video"
        /\ meta.audio.kind = "sh" => meta.audio.type = "audio"
    BY DEF MediaInv, NoMessage, is_video, is_audio
  <2> HIDE DEF r
  <2>3. VideoKnown(c)'
    <3>1. CASE Sending("video")
      <4>1. m = meta.video /\ is_av(m)
        BY <1>1, <1>7, <3>1
           DEF HeaderInv, HandlerHeaders, Sending, IsHeader, Publishing, is_video
      <4> QED BY <1>2, <1>4, <2>1, <4>1, KnowsNew DEF VideoKnown
    <3>2. CASE ~Sending("video")
      <4> SUFFICES ASSUME player[c].pc \in {"gop", "playing"}, meta.video.kind = "sh"
                   PROVE  Knows(Stream(c)', meta.video)
        BY <1>2 DEF VideoKnown, Knows
      <4>1. Knows(Stream(c), meta.video)
        BY <1>4, <1>11, <3>2 DEF PlayerHeaders, VideoKnown
      <4>2. ~IsHeader(m, meta.video.type) /\ meta.video.type \in {"video", "audio"}
        BY <1>8, <2>2, <3>2
      <4> QED BY <1>4, <2>1, <4>1, <4>2, KnowsKept
    <3> QED BY <3>1, <3>2
  <2>4. AudioKnown(c)'
    <3>1. CASE Sending("audio")
      <4>1. Knows(Stream(c)', publisher.msg)
        BY <1>4, <1>7, <2>1, <3>1, KnowsNew
      <4> QED BY <1>3, <1>6, <1>10, <3>1, <4>1 DEF AudioKnown
    <3>2. CASE ~Sending("audio")
      <4> SUFFICES ASSUME player[c].pc \in {"video", "gop", "playing"}, meta.audio.kind = "sh"
                   PROVE  Knows(Stream(c)', meta.audio)
        BY <1>2, <1>6, <3>2 DEF AudioKnown, Knows
      <4>1. Knows(Stream(c), meta.audio)
        BY <1>4, <1>11, <3>2 DEF PlayerHeaders, AudioKnown
      <4>2. ~IsHeader(m, meta.audio.type) /\ meta.audio.type \in {"video", "audio"}
        BY <1>8, <2>2, <3>2
      <4> QED BY <1>4, <2>1, <4>1, <4>2, KnowsKept
    <3> QED BY <3>1, <3>2
  <2> QED BY <1>4, <1>11, <2>3, <2>4 DEF PlayerHeaders
<1> QED BY <1>5, <1>12, <1>13 DEF HeaderInv

\* The tail of a handler: every player in the vector was reached, so each
\* holds the audio header that is cached now.
LEMMA DispatchEndHeaders ==
    ASSUME IInv, MediaInv, HeaderInv, \A c \in Consumer : ~Creating(c), DispatchEnd
    PROVE  HeaderInv'
<1> DEFINE m == publisher.msg
<1>1. /\ Publishing /\ m \in Message /\ m.ts \in Int /\ consumers \in Seq(Consumer)
      /\ meta.video \in Message \cup {NoMessage} /\ meta.audio \in Message \cup {NoMessage}
  BY MessageTs DEF IInv, TypeOK, MetaType, HandlersSound, DispatchEnd, Publishing
<1>2. /\ UNCHANGED <<player, consumers, received, consumer>>
      /\ meta' = (IF is_av(m) THEN MetaAfterDispatch(m) ELSE meta)
      /\ publisher' = Failed \/ publisher' = Ready
  BY DEF DispatchEnd, historyVars
<1>3. ~Publishing'
  BY <1>2 DEF Publishing, Failed, Ready
<1>4. HandlerHeaders' /\ \A type : ~Sending(type)'
  BY <1>3 DEF HandlerHeaders, Sending, Publishing
<1>5. SamePayload(meta'.video, meta.video)
  <2>1. meta'.video \in {meta.video, Retimed(meta.video, m.ts)}
    BY <1>2 DEF MetaAfterDispatch
  <2> QED BY <1>1, <2>1, RetimedKeeps DEF SamePayload
<1>6. \/ SamePayload(meta'.audio, meta.audio) /\ ~IsHeader(m, "audio")
      \/ IsHeader(m, "audio") /\ meta'.audio = m
      \/ meta'.audio.kind # "sh"
  <2> DEFINE ash == IF is_audio(m) /\ (sh(m) \/ meta.audio = NoMessage)
                    THEN m ELSE meta.audio
  <2>1. CASE IsHeader(m, "audio")
    <3>1. is_av(m) /\ is_audio(m) /\ sh(m)
      BY <2>1 DEF IsHeader, is_audio, sh, is_av
    <3> QED BY <1>2, <2>1, <3>1 DEF MetaAfterDispatch
  <2>2. CASE ~IsHeader(m, "audio")
    <3>1. meta'.audio \in {ash, meta.audio, Retimed(ash, m.ts)}
      BY <1>2 DEF MetaAfterDispatch
    <3>2. ash \in Message \cup {NoMessage} /\ (ash = meta.audio \/ ash.kind # "sh")
      BY <1>1, <2>2 DEF IsHeader, is_audio, sh, is_av
    <3> HIDE DEF ash
    <3>3. SamePayload(meta'.audio, ash) \/ SamePayload(meta'.audio, meta.audio)
      BY <1>1, <3>1, <3>2, RetimedKeeps DEF SamePayload
    <3> QED BY <2>2, <3>2, <3>3 DEF SamePayload
  <2> QED BY <2>1, <2>2
<1>7. ASSUME NEW c \in Consumer PROVE PlayerHeaders(c)'
  <2>1. PlayerHeaders(c) /\ ~Creating(c) /\ ~Creating(c)' /\ Stream(c)' = Stream(c)
    BY <1>2, <1>7 DEF HeaderInv, Creating, At, Stream
  <2>2. publisher.pc = "dispatch" /\ ~At(c, "gone") => Reached(c)
    <3> SUFFICES ASSUME publisher.pc = "dispatch", ~At(c, "gone") PROVE Reached(c)
      OBVIOUS
    <3>1. publisher.next \in Nat /\ publisher.next > Len(consumers)
      BY DEF IInv, TypeOK, DispatchEnd
    <3>2. PICK i \in 1..Len(consumers) : consumers[i] = c
      BY <2>1 DEF PlayerHeaders, Listed
    <3>3. i < publisher.next
      BY <1>1, <3>1
    <3> QED BY <3>2, <3>3 DEF Reached
  <2>3. VideoKnown(c)'
    <3> SUFFICES ASSUME player[c].pc \in {"gop", "playing"}
                 PROVE  Knows(Stream(c), meta'.video)
      BY <1>2, <2>1 DEF VideoKnown
    <3>1. Knows(Stream(c), meta.video)
      BY <2>1, <2>2 DEF PlayerHeaders, VideoKnown, Sending, At
    <3> QED BY <1>5, <3>1, KnowsSame
  <2>4. AudioKnown(c)'
    <3> SUFFICES ASSUME player[c].pc \in {"video", "gop", "playing"}, meta'.audio.kind = "sh"
                 PROVE  Knows(Stream(c), meta'.audio)
      BY <1>2, <1>4, <2>1 DEF AudioKnown, Knows
    <3>1. CASE SamePayload(meta'.audio, meta.audio) /\ ~IsHeader(m, "audio")
      <4>1. Knows(Stream(c), meta.audio)
        BY <2>1, <3>1 DEF PlayerHeaders, AudioKnown, Sending
      <4> QED BY <3>1, <4>1, KnowsSame
    <3>2. CASE IsHeader(m, "audio") /\ meta'.audio = m
      <4>1. CASE publisher.pc = "dispatch"
        <5>1. Knows(Stream(c), m)
          BY <2>1, <2>2, <3>2, <4>1 DEF PlayerHeaders, AudioKnown, Sending, At
        <5> QED BY <3>2, <5>1
      <4>2. CASE publisher.pc = "tail"
        <5>1. Knows(Stream(c), meta.audio)
          BY <2>1, <4>2 DEF PlayerHeaders, AudioKnown, Sending
        <5>2. SamePayload(m, meta.audio)
          BY <1>1, <3>2, <4>2 DEF HeaderInv, HandlerHeaders, IsHeader, is_audio
        <5> QED BY <3>2, <5>1, <5>2, KnowsSame
      <4> QED BY <1>1, <4>1, <4>2 DEF Publishing
    <3> QED BY <1>6, <3>1, <3>2
  <2>5. Listed(c)'
    BY <1>2, <2>1 DEF PlayerHeaders, Listed, At
  <2>6. Timed(c)'
    BY <2>1 DEF Timed, Ahead, Creating, At
  <2> QED BY <2>3, <2>4, <2>5, <2>6 DEF PlayerHeaders
<1> QED BY <1>4, <1>7 DEF HeaderInv

\* A step of the player c, with no handler of the publisher under way and no
\* other player half created: only c's own headers are at stake.
LEMMA OtherHeaders ==
    ASSUME HeaderInv, ~Publishing, publisher' = publisher, NEW c \in Consumer,
           \A d \in Consumer \ {c} :
               /\ ~Creating(d) /\ consumer'[d] = consumer[d]
               /\ player'[d] = player[d] /\ received'[d] = received[d]
               /\ \A i \in 1..Len(consumers) : consumers[i] = d =>
                     \E j \in 1..Len(consumers') : consumers'[j] = d,
           SamePayload(meta'.video, meta.video),
           SamePayload(meta'.audio, meta.audio),
           PlayerHeaders(c)'
    PROVE  HeaderInv'
<1>1. ~Publishing'
  BY DEF Publishing
<1>2. HandlerHeaders' /\ \A type : ~Sending(type) /\ ~Sending(type)'
  BY <1>1 DEF HandlerHeaders, Sending, Publishing
<1>3. ASSUME NEW d \in Consumer \ {c} PROVE PlayerHeaders(d)'
  <2>1. PlayerHeaders(d) /\ ~Creating(d) /\ ~Creating(d)' /\ Stream(d)' = Stream(d)
    BY <1>3 DEF HeaderInv, Creating, At, Stream
  <2>2. VideoKnown(d)' /\ AudioKnown(d)'
    BY <1>2, <1>3, <2>1, KnowsSame DEF PlayerHeaders, VideoKnown, AudioKnown
  <2>3. Listed(d)'
    BY <1>1, <1>3, <2>1 DEF PlayerHeaders, Listed, At, Creating
  <2>4. Timed(d)'
    BY <2>1 DEF Timed, Ahead, Creating, At
  <2> QED BY <2>2, <2>3, <2>4 DEF PlayerHeaders
<1> QED BY <1>2, <1>3 DEF HeaderInv

\* The cached metadata, which takes the time of the gop under atc.
LEMMA DumpMetaHeaders ==
    ASSUME IInv, MediaInv, HeaderInv, ~Publishing, NEW c \in Consumer, DumpMeta(c)
    PROVE  /\ PlayerHeaders(c)'
           /\ SamePayload(meta'.video, meta.video) /\ SamePayload(meta'.audio, meta.audio)
<1> DEFINE t == GopStartTime(gop_cache)
           k == consumer[c]
<1>1. /\ consumer \in [Consumer -> ConsumerType] /\ t \in Int
      /\ player \in [Consumer -> [pc : PlayerStep, next : Nat]]
      /\ meta.data \in Message \cup {NoMessage} /\ meta.video \in Message \cup {NoMessage}
      /\ meta.audio \in Message \cup {NoMessage}
      /\ k \in ConsumerType /\ k.queue = [NewQueue EXCEPT !.queue_size_ms = QueueMs]
      /\ received[c] = <<>>
      /\ PlayerHeaders(c)
  BY GopStartTimeType
     DEF IInv, TypeOK, MetaType, DumpMeta, At, HeaderInv, PlayerHeaders, Listed
<1>2. /\ UNCHANGED <<consumers, received, publisher, atc, gop_cache>>
      /\ player'[c] = [pc |-> "audio", next |-> 1]
  BY <1>1 DEF DumpMeta, Goto, historyVars
<1>3. /\ meta'.data \in {meta.data, Retimed(meta.data, t)}
      /\ meta'.video \in {meta.video, Retimed(meta.video, t)}
      /\ meta'.audio \in {meta.audio, Retimed(meta.audio, t)}
  BY DEF DumpMeta
<1>4. atc /\ gop_cache.msgs # <<>> =>
         /\ meta'.data = Retimed(meta.data, t) /\ meta'.video = Retimed(meta.video, t)
         /\ meta'.audio = Retimed(meta.audio, t)
  BY DEF DumpMeta
<1>5. consumer'[c] = IF meta.data = NoMessage THEN k ELSE Enqueued(k, meta'.data)
  BY <1>1 DEF DumpMeta
<1> HIDE DEF t, k
<1>6. SamePayload(meta'.video, meta.video) /\ SamePayload(meta'.audio, meta.audio)
  BY <1>1, <1>3, RetimedKeeps DEF SamePayload
<1>7. VideoKnown(c)' /\ AudioKnown(c)'
  BY <1>2 DEF VideoKnown, AudioKnown
<1>8. Listed(c)'
  <2>1. ~At(c, "gone") /\ ~At(c, "playing")
    BY DEF DumpMeta, At
  <2> QED BY <1>1, <1>2, <2>1 DEF PlayerHeaders, Listed, At, Publishing
<1>9. Timed(c)'
  <2> SUFFICES ASSUME atc, gop_cache.msgs # <<>>
               PROVE  /\ AtGop(consumer'[c].queue, t)
                      /\ meta'.audio # NoMessage => meta'.audio.ts = t
                      /\ meta'.video # NoMessage => meta'.video.ts = t
    BY <1>2 DEF Timed, t
  <2>1. /\ meta'.audio # NoMessage => meta'.audio.ts = t
        /\ meta'.video # NoMessage => meta'.video.ts = t
    <3>1. ASSUME NEW x \in Message \cup {NoMessage}
          PROVE  Retimed(x, t) # NoMessage => Retimed(x, t).ts = t
      BY <1>1, <3>1, RetimedKeeps
    <3> QED BY <1>1, <1>4, <3>1
  <2>2. AtGop(k.queue, t)
    BY <1>1 DEF AtGop, NewQueue
  <2>3. CASE meta.data = NoMessage
    BY <1>5, <2>1, <2>2, <2>3
  <2>4. CASE meta.data # NoMessage
    <3>1. meta'.data \in Message /\ meta'.data.ts = t
      <4>1. meta.data \in Message /\ meta'.data = Retimed(meta.data, t)
        BY <1>1, <1>4, <2>4
      <4>2. Retimed(meta.data, t) \in Message
        BY <1>1, <2>4, <4>1, RetimedType DEF Retimed
      <4>3. Retimed(meta.data, t).ts = t
        BY <1>1, <2>4, RetimedKeeps
      <4> QED BY <4>1, <4>2, <4>3
    <3>2. AtGop(Enqueued(k, meta'.data).queue, t)
      BY <1>1, <2>2, <3>1, AtGopEnqueued
    <3> QED BY <1>5, <2>1, <2>4, <3>2
  <2> QED BY <2>3, <2>4
<1> QED BY <1>6, <1>7, <1>8, <1>9 DEF PlayerHeaders

\* The audio header, then the video header: each is the last of its medium,
\* and carries the time that the metadata took.
LEMMA DumpHeaderHeaders ==
    ASSUME IInv, MediaInv, HeaderInv, ~Publishing, NEW c \in Consumer,
           DumpAsh(c) \/ DumpVsh(c)
    PROVE  PlayerHeaders(c)'
<1> DEFINE k == consumer[c]
           t == GopStartTime(gop_cache)
           m == IF At(c, "audio") THEN meta.audio ELSE meta.video
           r == received[c]
<1>1. /\ consumer \in [Consumer -> ConsumerType] /\ k \in ConsumerType /\ t \in Int
      /\ player \in [Consumer -> [pc : PlayerStep, next : Nat]]
      /\ received[c] = <<>> /\ PlayerHeaders(c) /\ \A type : ~Sending(type)
      /\ m \in Message \cup {NoMessage} /\ player[c].pc \in {"audio", "video"}
  BY GopStartTimeType
     DEF IInv, TypeOK, MetaType, DumpAsh, DumpVsh, DumpHeader, At, HeaderInv,
         PlayerHeaders, Listed, Sending, Publishing
<1>2. /\ UNCHANGED <<consumers, received, publisher, atc, gop_cache, meta>>
      /\ player'[c] = [pc |-> IF At(c, "audio") THEN "video" ELSE "gop", next |-> 1]
      /\ consumer'[c] = IF m = NoMessage THEN k ELSE Enqueued(k, m)
  BY <1>1 DEF DumpAsh, DumpVsh, DumpHeader, Goto, At, sourceVars, historyVars
<1>3. /\ Stream(c)' = r \o consumer'[c].queue.msgs
      /\ Stream(c) = r \o k.queue.msgs /\ r \in Seq(Message)
  BY <1>1, <1>2 DEF Stream, IInv, TypeOK
<1>4. /\ m # NoMessage => m \in Message /\ is_av(m)
      /\ ~IsHeader(m, IF At(c, "audio") THEN "video" ELSE "audio")
      /\ meta.audio.kind = "sh" => meta.audio.type = "audio"
      /\ m = NoMessage => m.kind # "sh"
  BY <1>1 DEF MediaInv, NoMessage, IsHeader, sh, is_av, is_video, is_audio
<1>5. \A type : ~Sending(type)'
  BY <1>1, <1>2 DEF Sending
<1> HIDE DEF k, t, m, r
<1>6. Knows(Stream(c)', m)
  <2>1. CASE m = NoMessage
    BY <1>4, <2>1 DEF Knows
  <2>2. CASE m # NoMessage
    <3>1. Knows(r \o Enqueued(k, m).queue.msgs, m)
      BY <1>1, <1>3, <1>4, <2>2, KnowsNew
    <3> QED BY <1>2, <1>3, <2>2, <3>1
  <2> QED BY <2>1, <2>2
<1>7. VideoKnown(c)'
  BY <1>2, <1>6 DEF VideoKnown, m
<1>8. AudioKnown(c)'
  <2>1. CASE At(c, "audio")
    BY <1>2, <1>5, <1>6, <2>1 DEF AudioKnown, m
  <2>2. CASE ~At(c, "audio")
    <3> SUFFICES ASSUME meta.audio.kind = "sh" PROVE Knows(Stream(c)', meta.audio)
      BY <1>2, <1>5 DEF AudioKnown, Knows
    <3>1. Knows(Stream(c), meta.audio)
      BY <1>1, <2>2 DEF PlayerHeaders, AudioKnown, At
    <3>2. CASE m = NoMessage
      BY <1>2, <1>3, <3>1, <3>2
    <3>3. CASE m # NoMessage
      <4>1. Knows(r \o Enqueued(k, m).queue.msgs, meta.audio)
        <5>1. ~IsHeader(m, meta.audio.type) /\ meta.audio.type \in {"video", "audio"}
          BY <1>4, <2>2
        <5>2. Knows(r \o k.queue.msgs, meta.audio)
          BY <1>3, <3>1
        <5>3. k \in ConsumerType /\ m \in Message /\ r \in Seq(Message)
          BY <1>1, <1>3, <1>4, <3>3
        <5> QED BY <5>1, <5>2, <5>3, KnowsKept
      <4> QED BY <1>2, <1>3, <3>3, <4>1
    <3> QED BY <3>2, <3>3
  <2> QED BY <2>1, <2>2
<1>9. Listed(c)'
  BY <1>1, <1>2 DEF PlayerHeaders, Listed, At, Publishing
<1>10. Timed(c)'
  <2> SUFFICES ASSUME atc, gop_cache.msgs # <<>>
               PROVE  /\ AtGop(consumer'[c].queue, t)
                      /\ meta.audio # NoMessage => meta.audio.ts = t
                      /\ meta.video # NoMessage => meta.video.ts = t
    BY <1>2 DEF Timed, t
  <2>1. /\ AtGop(k.queue, t)
        /\ meta.audio # NoMessage => meta.audio.ts = t
        /\ meta.video # NoMessage => meta.video.ts = t
    BY <1>1 DEF PlayerHeaders, Timed, Ahead, t, k
  <2>2. m # NoMessage => m.ts = t
    BY <2>1 DEF m
  <2>3. m # NoMessage => AtGop(Enqueued(k, m).queue, t)
    BY <1>1, <1>4, <2>1, <2>2, AtGopEnqueued
  <2> QED BY <1>2, <2>1, <2>3
<1> QED BY <1>7, <1>8, <1>9, <1>10 DEF PlayerHeaders

\* The cached gop, which holds no header.
LEMMA DumpGopHeaders ==
    ASSUME IInv, MediaInv, GopShape, HeaderInv, ~Publishing, NEW c \in Consumer,
           DumpGop(c)
    PROVE  PlayerHeaders(c)'
<1> DEFINE k == consumer[c]
           n == player[c].next
           m == gop_cache.msgs[n]
           r == received[c]
<1>1. /\ consumer \in [Consumer -> ConsumerType] /\ k \in ConsumerType
      /\ player \in [Consumer -> [pc : PlayerStep, next : Nat]]
      /\ r \in Seq(Message) /\ PlayerHeaders(c)
      /\ player[c].pc = "gop" /\ n \in Nat /\ n >= 1
  BY DEF IInv, TypeOK, HandlersSound, DumpGop, At, HeaderInv
<1>2. /\ UNCHANGED <<consumers, received, publisher, atc, gop_cache, meta>>
      /\ \A type : ~Sending(type) /\ ~Sending(type)'
  BY DEF DumpGop, sourceVars, historyVars, Sending, Publishing
<1>3. Knows(Stream(c), meta.video) /\ Knows(Stream(c), meta.audio)
  BY <1>1, <1>2 DEF PlayerHeaders, VideoKnown, AudioKnown
<1>4. ASSUME Knows(Stream(c)', meta.video), Knows(Stream(c)', meta.audio)
      PROVE  VideoKnown(c)' /\ AudioKnown(c)'
  BY <1>2, <1>4 DEF VideoKnown, AudioKnown
<1>5. CASE n <= Len(gop_cache.msgs)
  <2>1. /\ consumer'[c] = Enqueued(k, m) /\ player'[c].next = n + 1
        /\ player'[c].pc = "gop"
    BY <1>1, <1>5 DEF DumpGop
  <2>2. m \in Message /\ is_av(m) /\ ~sh(m)
    <3>1. n \in 1..Len(gop_cache.msgs) /\ gop_cache.msgs \in Seq(AvMessage)
      BY <1>1, <1>5 DEF MediaInv
    <3>2. m \in AvMessage
      BY <3>1
    <3>3. ~sh(m)
      BY <3>1 DEF GopShape, GopOk
    <3> QED BY <3>2, <3>3 DEF AvMessage
  <2>3. Stream(c)' = r \o Enqueued(k, m).queue.msgs /\ Stream(c) = r \o k.queue.msgs
    BY <1>2, <2>1 DEF Stream
  <2> HIDE DEF k, m, r
  <2>4. ASSUME NEW h, h.kind = "sh" => h.type \in {"video", "audio"},
               Knows(Stream(c), h)
        PROVE  Knows(Stream(c)', h)
    <3> SUFFICES ASSUME h.kind = "sh" PROVE Knows(Stream(c)', h)
      BY DEF Knows
    <3>1. h.type \in {"video", "audio"} /\ ~IsHeader(m, h.type)
      BY <2>2, <2>4 DEF IsHeader
    <3> QED BY <1>1, <2>2, <2>3, <2>4, <3>1, KnowsKept
  <2>5. /\ meta.video.kind = "sh" => meta.video.type \in {"video", "audio"}
        /\ meta.audio.kind = "sh" => meta.audio.type \in {"video", "audio"}
    BY DEF MediaInv, NoMessage, is_video, is_audio
  <2>6. VideoKnown(c)' /\ AudioKnown(c)'
    BY <1>3, <1>4, <2>4, <2>5
  <2>7. Listed(c)'
    BY <1>1, <1>2, <2>1 DEF PlayerHeaders, Listed, At, Publishing
  <2>8. Timed(c)'
    BY <1>1, <2>1 DEF Timed, Ahead, At
  <2> QED BY <2>6, <2>7, <2>8 DEF PlayerHeaders
<1>6. CASE ~(n <= Len(gop_cache.msgs))
  <2>1. consumer' = consumer /\ player'[c].pc = "playing"
    BY <1>1, <1>6 DEF DumpGop, Goto
  <2>2. VideoKnown(c)' /\ AudioKnown(c)'
    <3>1. Stream(c)' = Stream(c)
      BY <1>2, <2>1 DEF Stream
    <3> QED BY <1>3, <1>4, <3>1
  <2>3. Listed(c)'
    BY <1>1, <1>2, <2>1 DEF PlayerHeaders, Listed, At, Publishing
  <2>4. Timed(c)'
    BY <2>1 DEF Timed, Ahead, At
  <2> QED BY <2>2, <2>3, <2>4 DEF PlayerHeaders
<1> QED BY <1>5, <1>6

\* A player that plays, and is dumped to or paused: its stream stays.
LEMMA PlayingHeaders ==
    ASSUME HeaderInv, ~Publishing, NEW c \in Consumer, At(c, "playing"),
           UNCHANGED <<consumers, publisher, meta>>, player' = player,
           Stream(c)' = Stream(c)
    PROVE  PlayerHeaders(c)'
<1>1. PlayerHeaders(c) /\ \A type : ~Sending(type) /\ ~Sending(type)'
  BY DEF HeaderInv, Sending, Publishing
<1>2. VideoKnown(c)' /\ AudioKnown(c)'
  BY <1>1 DEF PlayerHeaders, VideoKnown, AudioKnown
<1>3. Listed(c)'
  BY <1>1 DEF PlayerHeaders, Listed, At, Publishing
<1>4. Timed(c)'
  BY DEF Timed, Ahead, At
<1> QED BY <1>2, <1>3, <1>4 DEF PlayerHeaders

LEMMA PlayerStepHeaders ==
    ASSUME IInv, MediaInv, GopShape, HeaderInv, ~Publishing, NEW c \in Consumer,
           \A d \in Consumer \ {c} : ~Creating(d), PlayerNext(c)
    PROVE  HeaderInv'
<1>1. /\ consumers \in Seq(Consumer) /\ consumer \in [Consumer -> ConsumerType]
      /\ player \in [Consumer -> [pc : PlayerStep, next : Nat]]
      /\ received \in [Consumer -> Seq(Message)]
      /\ consumer[c] \in ConsumerType /\ consumer[c].queue \in QueueType
      /\ PlayerHeaders(c)
  BY DEF IInv, TypeOK, ConsumerType, HeaderInv
<1>2. ASSUME NEW d \in Consumer \ {c}
      PROVE  consumer'[d] = consumer[d] /\ player'[d] = player[d] /\ received'[d] = received[d]
  BY <1>1, <1>2 DEF PlayerNext, create_consumer, set_queue_size, DumpMeta, DumpAsh, DumpVsh, DumpHeader,
     DumpGop, dump_packets, on_play_client_pause, on_consumer_destroy, Goto, historyVars
<1>3. publisher' = publisher
  BY DEF PlayerNext, create_consumer, set_queue_size, DumpMeta, DumpAsh, DumpVsh, DumpHeader,
     DumpGop, dump_packets, on_play_client_pause, on_consumer_destroy
<1>4. ASSUME consumers' = consumers, PlayerHeaders(c)',
             SamePayload(meta'.video, meta.video), SamePayload(meta'.audio, meta.audio)
      PROVE  HeaderInv'
  BY <1>2, <1>3, <1>4, OtherHeaders
<1>5. \A m : SamePayload(m, m)
  BY DEF SamePayload
<1>6. CASE create_consumer(c)
  <2>1. /\ consumers' = Append(consumers, c) /\ player'[c].pc = "size"
        /\ consumer'[c] = NewConsumer /\ UNCHANGED <<received, meta>>
    BY <1>1, <1>6 DEF create_consumer, Goto, sourceVars, historyVars
  <2>2. PlayerHeaders(c)'
    <3>1. VideoKnown(c)' /\ AudioKnown(c)' /\ Timed(c)'
      BY <2>1 DEF VideoKnown, AudioKnown, Timed, Ahead, At
    <3>2. received[c] = <<>>
      BY <1>1, <1>6 DEF create_consumer, At, PlayerHeaders, Listed
    <3>3. \E i \in 1..Len(consumers') : consumers'[i] = c
      <4>1. /\ Len(consumers') = Len(consumers) + 1 /\ Len(consumers) \in Nat
            /\ consumers'[Len(consumers) + 1] = c
        BY <1>1, <2>1
      <4>2. Len(consumers) + 1 \in 1..Len(consumers')
        BY <4>1
      <4> QED BY <4>1, <4>2
    <3>4. Listed(c)'
      BY <1>3, <2>1, <3>2, <3>3 DEF Listed, At, Publishing, NewConsumer
    <3> QED BY <3>1, <3>4 DEF PlayerHeaders
  <2>3. ASSUME NEW d \in Consumer, NEW i \in 1..Len(consumers), consumers[i] = d
        PROVE  \E j \in 1..Len(consumers') : consumers'[j] = d
    <3>1. i \in 1..Len(consumers') /\ consumers'[i] = d
      BY <1>1, <2>1, <2>3
    <3> QED BY <3>1
  <2> QED BY <1>2, <1>3, <1>5, <2>1, <2>2, <2>3, OtherHeaders
<1>7. CASE DumpMeta(c)
  <2>1. consumers' = consumers
    BY <1>7 DEF DumpMeta
  <2> QED BY <1>4, <1>7, <2>1, DumpMetaHeaders
<1>8. CASE DumpAsh(c) \/ DumpVsh(c)
  <2>1. consumers' = consumers /\ meta' = meta
    BY <1>8 DEF DumpAsh, DumpVsh, DumpHeader, sourceVars
  <2>2. PlayerHeaders(c)'
    BY <1>8, DumpHeaderHeaders
  <2> QED BY <1>4, <1>5, <2>1, <2>2
<1>9. CASE DumpGop(c)
  <2>1. consumers' = consumers /\ meta' = meta
    BY <1>9 DEF DumpGop, sourceVars
  <2> QED BY <1>4, <1>5, <1>9, <2>1, DumpGopHeaders
<1>10. ASSUME NEW max \in 1..MwMsgs, dump_packets(c, max) PROVE HeaderInv'
  <2> DEFINE k == consumer[c]
             q == IF k.paused THEN k.queue ELSE AfterDump(k.queue, max)
             e == [k EXCEPT !.should_update_source_id = FALSE, !.queue = q]
  <2>1. /\ UNCHANGED <<consumers, publisher, meta>> /\ player' = player
        /\ At(c, "playing") /\ max \in Nat \ {0}
    BY <1>10, SourceAssumption DEF dump_packets, sourceVars
  <2>2. consumer'[c] = e
    BY <1>1, <1>10 DEF dump_packets
  <2>3. q \in QueueType /\ FALSE \in BOOLEAN
    BY <1>1, <2>1, QueueTypes
  <2>4. e.queue = q
    <3> HIDE DEF q
    <3> QED BY <1>1, <2>3 DEF ConsumerType
  <2>5. Stream(c)' = received'[c] \o q.msgs
    <3> HIDE DEF q, e
    <3> QED BY <2>2, <2>4 DEF Stream
  <2>6. CASE k.paused
    <3>1. received' = received
      BY <1>10, <2>6 DEF dump_packets
    <3> QED BY <1>4, <1>5, <2>1, <2>5, <2>6, <3>1, PlayingHeaders DEF Stream
  <2>7. CASE ~k.paused
    <3>1. received'[c] = received[c] \o Dumped(k.queue, max)
      BY <1>1, <1>10, <2>7 DEF dump_packets
    <3>2. received[c] \in Seq(Message)
      BY <1>1
    <3>3. (received[c] \o Dumped(k.queue, max)) \o AfterDump(k.queue, max).msgs
             = received[c] \o k.queue.msgs
      BY <1>1, <2>1, <3>2, DumpKeepsStream
    <3>4. Stream(c)' = Stream(c)
      BY <2>5, <2>7, <3>1, <3>3 DEF Stream
    <3> QED BY <1>4, <1>5, <2>1, <3>4, PlayingHeaders
  <2> QED BY <2>6, <2>7
<1>11. ASSUME NEW b \in BOOLEAN, on_play_client_pause(c, b) PROVE HeaderInv'
  <2>1. /\ UNCHANGED <<consumers, publisher, meta, received>> /\ player' = player
        /\ At(c, "playing") /\ consumer'[c] = [consumer[c] EXCEPT !.paused = b]
    BY <1>1, <1>11 DEF on_play_client_pause, sourceVars, historyVars
  <2>2. consumer'[c].queue = consumer[c].queue
    BY <1>1, <2>1, ConsumerFields
  <2>3. Stream(c)' = Stream(c)
    BY <2>1, <2>2 DEF Stream
  <2> QED BY <1>4, <1>5, <2>1, <2>3, PlayingHeaders
<1>12. CASE on_consumer_destroy(c)
  <2>1. /\ consumers' = RemoveFirst(consumers, c) /\ player'[c].pc = "gone"
        /\ received'[c] = <<>> /\ meta' = meta
    BY <1>1, <1>12 DEF on_consumer_destroy, Goto, sourceVars
  <2>2. PlayerHeaders(c)'
    BY <1>3, <2>1 DEF PlayerHeaders, VideoKnown, AudioKnown, Timed, Ahead, At, Listed,
                      Publishing, Creating
  <2>3. ASSUME NEW d \in Consumer \ {c}, NEW i \in 1..Len(consumers), consumers[i] = d
        PROVE  \E j \in 1..Len(consumers') : consumers'[j] = d
    <3>1. d # c /\ Has(consumers, d) /\ consumers \in Seq(Consumer)
      BY <1>1, <2>3 DEF Has
    <3>2. Has(RemoveFirst(consumers, c), d)
      BY <3>1, OthersStay, Zenon
    <3> QED BY <2>1, <3>2 DEF Has
  <2> QED BY <1>2, <1>3, <1>5, <2>1, <2>2, <2>3, OtherHeaders
<1>13. CASE set_queue_size(c)
  <2> DEFINE q == [consumer[c].queue EXCEPT !.queue_size_ms = QueueMs]
  <2>1. /\ consumers' = consumers /\ player'[c].pc = "meta" /\ UNCHANGED <<received, meta>>
        /\ At(c, "size")
    BY <1>1, <1>13 DEF set_queue_size, Goto, sourceVars, historyVars
  <2>2. consumer'[c].queue = q
    <3>1. consumer' = [consumer EXCEPT ![c] = [consumer[c] EXCEPT !.queue = q]]
      BY <1>1, <1>13 DEF set_queue_size
    <3>2. [consumer[c] EXCEPT !.queue = q].queue = q
      BY <1>1 DEF ConsumerType
    <3> HIDE DEF q
    <3> QED BY <1>1, <3>1, <3>2
  <2>3. VideoKnown(c)' /\ AudioKnown(c)' /\ Timed(c)'
    BY <2>1 DEF VideoKnown, AudioKnown, Timed, Ahead, At
  <2>4. Listed(c)'
    BY <1>1, <1>3, <2>1, <2>2 DEF PlayerHeaders, Listed, At, Publishing, Creating
  <2> QED BY <1>4, <1>5, <2>1, <2>3, <2>4 DEF PlayerHeaders
<1> QED BY <1>6, <1>7, <1>8, <1>9, <1>10, <1>11, <1>12, <1>13 DEF PlayerNext

LEMMA NextHeaderInv ==
    IInv /\ MediaInv /\ GopShape /\ HeaderInv /\ [SerialNext]_vars => HeaderInv'
<1> SUFFICES ASSUME IInv, MediaInv, GopShape, HeaderInv, [SerialNext]_vars
             PROVE  HeaderInv'
  OBVIOUS
<1>1. consumer \in [Consumer -> ConsumerType]
  BY DEF IInv, TypeOK
<1>2. ASSUME PublisherNext, \A c \in Consumer : ~Creating(c) PROVE HeaderInv'
  <2>1. ASSUME NEW p \in Publisher, on_publish(p) PROVE HeaderInv'
    <3>1. /\ UNCHANGED <<player, consumers, received, meta>>
          /\ ~Publishing /\ ~Publishing'
      BY <2>1 DEF on_publish, Publishing, Ready
    <3>2. ASSUME NEW c \in Consumer PROVE consumer'[c].queue = consumer[c].queue
      <4>1. consumer'[c] \in {consumer[c], [consumer[c] EXCEPT !.should_update_source_id = TRUE]}
        BY <2>1, <3>2 DEF on_publish
      <4>2. consumer[c] \in ConsumerType
        BY <1>1, <3>2
      <4> QED BY <4>1, <4>2 DEF ConsumerType
    <3> QED BY <1>2, <3>1, <3>2, CalmHeaders
  <2>2. CASE Receive
    BY <1>2, <2>2, ReceiveHeaders
  <2>3. CASE DispatchOne
    BY <1>2, <2>3, DispatchOneHeaders
  <2>4. CASE DispatchEnd
    BY <1>2, <2>4, DispatchEndHeaders
  <2>5. CASE on_unpublish
    <3>1. publisher \in [pc : PublisherStep, msg : Message \cup {NoMessage}, next : Nat]
      BY DEF IInv, TypeOK
    <3>2. /\ UNCHANGED <<player, consumers, received, consumer, meta>>
          /\ ~Publishing /\ ~Publishing'
      BY <2>5, <3>1 DEF on_unpublish, Publishing, historyVars
    <3> QED BY <1>2, <3>2, CalmHeaders
  <2> QED BY <1>2, <2>1, <2>2, <2>3, <2>4, <2>5 DEF PublisherNext
<1>3. ASSUME NEW c \in Consumer, ~Publishing, \A d \in Consumer \ {c} : ~Creating(d),
             PlayerNext(c)
      PROVE  HeaderInv'
  BY <1>3, PlayerStepHeaders
<1>4. ASSUME Quiet, NEW v \in GopCacheConf, set_cache(v) PROVE HeaderInv'
  <2>1. /\ UNCHANGED <<player, consumers, received, consumer, meta>>
        /\ ~Publishing /\ ~Publishing' /\ \A c \in Consumer : ~Creating(c)
    BY <1>4 DEF set_cache, Quiet, Publishing, historyVars
  <2> QED BY <2>1, CalmHeaders
<1>5. CASE UNCHANGED vars
  BY <1>5 DEF vars, sourceVars, historyVars, HeaderInv, HandlerHeaders, PlayerHeaders,
     VideoKnown, AudioKnown, Listed, Timed, Ahead, At, Sending, Reached, Publishing,
     Creating, Stream
<1> QED BY <1>2, <1>3, <1>4, <1>5 DEF SerialNext

LEMMA HeaderInvSuffices == IInv /\ HeaderInv => HeadersInTime
<1> SUFFICES ASSUME IInv, HeaderInv, NEW c \in Consumer
             PROVE  /\ Quiet /\ At(c, "playing") =>
                          /\ meta.video.kind = "sh" => LastHeaderIs(c, meta.video)
                          /\ meta.audio.kind = "sh" => LastHeaderIs(c, meta.audio)
                    /\ At(c, "gop") /\ player[c].next = 1 /\ atc /\ gop_cache.msgs # <<>> =>
                          \A i \in DOMAIN Stream(c) : Stream(c)[i].ts = GopStartTime(gop_cache)
  BY DEF HeadersInTime, HeadersKnown, AtcHeadersAtGop
<1>1. /\ PlayerHeaders(c) /\ received[c] \in Seq(Message)
      /\ consumer[c].queue.msgs \in Seq(Message)
  BY DEF HeaderInv, IInv, TypeOK, ConsumerType, QueueType
<1>2. Stream(c) \in Seq(Message)
  BY <1>1 DEF Stream
<1>3. ASSUME Quiet, At(c, "playing")
      PROVE  /\ meta.video.kind = "sh" => LastHeaderIs(c, meta.video)
             /\ meta.audio.kind = "sh" => LastHeaderIs(c, meta.audio)
  <2>1. Knows(Stream(c), meta.video) /\ Knows(Stream(c), meta.audio)
    BY <1>1, <1>3 DEF PlayerHeaders, VideoKnown, AudioKnown, At, Quiet, Publishing, Sending
  <2> QED BY <1>2, <2>1, LastHeaderFound DEF Knows
<1>4. ASSUME At(c, "gop"), player[c].next = 1, atc, gop_cache.msgs # <<>>,
             NEW i \in DOMAIN Stream(c)
      PROVE  Stream(c)[i].ts = GopStartTime(gop_cache)
  <2>1. AtGop(consumer[c].queue, GopStartTime(gop_cache)) /\ received[c] = <<>>
    BY <1>1, <1>4 DEF PlayerHeaders, Timed, Ahead, Listed, At
  <2>2. Stream(c) = consumer[c].queue.msgs
    BY <1>1, <2>1 DEF Stream
  <2>3. i \in 1..Len(consumer[c].queue.msgs)
    BY <1>1, <1>4, <2>2
  <2> QED BY <2>1, <2>2, <2>3 DEF AtGop
<1> QED BY <1>3, <1>4

\* Under SerialSpec, which is what the coroutines guaranteed, for any number
\* of players and publications, any queue length and any setting: between
\* handlers every player holds the sequence headers that the source caches,
\* though duplicates are dropped and queues are shrunk; and with atc, what is
\* sent ahead of the gop carries its time (create_consumer, on_audio_imp,
\* on_video_imp, SrsMessageQueue::shrink).
THEOREM HeadersInTimeProved == SerialSpec => []HeadersInTime
<1> DEFINE Inv == IInv /\ MediaInv /\ GopShape /\ HeaderInv
<1>1. Init => Inv
  <2>1. Init => HeaderInv
    BY DEF Init, HeaderInv, HandlerHeaders, PlayerHeaders, VideoKnown, AudioKnown,
           Listed, Timed, Ahead, At, Publishing, Creating
  <2>2. Init => GopShape
    BY NewGopOk DEF Init, GopShape
  <2> QED BY <2>1, <2>2, InitIInv, InitMediaInv
<1>2. Inv /\ [SerialNext]_vars => Inv'
  <2>1. [SerialNext]_vars => [Next]_vars
    BY DEF SerialNext, Next
  <2> QED BY <2>1, NextIInv, NextMediaInv, NextGopShape, NextHeaderInv
<1>3. Inv => HeadersInTime
  BY HeaderInvSuffices
<1> QED BY <1>1, <1>2, <1>3, PTL DEF SerialSpec

=============================================================================
