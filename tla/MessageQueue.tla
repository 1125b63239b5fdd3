---------------------------- MODULE MessageQueue ----------------------------
(***************************************************************************)
(* The time jitter corrector (SrsRtmpJitter) and the bounded queue of a    *)
(* player (SrsMessageQueue), as operators on values.  Both run without a   *)
(* lock of their own; who calls them when is the business of LiveSource.   *)
(***************************************************************************)
EXTENDS SharedMessage

CONSTANTS QueueMs,       \* queue_length of the vhost
          MaxJitterMs,   \* CONST_MAX_JITTER_MS
          FrameMs        \* DEFAULT_FRAME_TIME_MS

ASSUME QueueAssumption ==
    /\ QueueMs \in Nat
    /\ MaxJitterMs \in Nat
    /\ FrameMs \in Nat

JitterAlgorithm == {"FULL", "ZERO", "OFF"}

-----------------------------------------------------------------------------
\* SrsRtmpJitter: the source time and the corrected time of the last packet.

JitterType == [last_pkt_time : Int, last_pkt_correct_time : Int]
NewJitter  == [last_pkt_time |-> 0, last_pkt_correct_time |-> -1]

srs_max(a, b) == IF a < b THEN b ELSE a

\* Mutant: a jump ahead is passed on.
JitterDeltaAhead(j, t) ==
    LET delta == t - j.last_pkt_time
    IN  IF delta < -MaxJitterMs THEN FrameMs ELSE delta

\* The step taken by the FULL algorithm for a packet at source time t.
JitterDelta(j, t) ==
    LET delta == t - j.last_pkt_time
    IN  IF delta < -MaxJitterMs \/ delta > MaxJitterMs THEN FrameMs ELSE delta

\* The reference of the ZERO algorithm: the time of the first packet (data
\* included); the corrector's "unset" mark is -1.
ZeroBase(j, m) ==
    IF j.last_pkt_correct_time = -1 THEN m.ts ELSE j.last_pkt_correct_time

\* The corrector after the message, and the message with its new time.
JitterAfter(j, m, ag) ==
    CASE ag = "OFF"  -> j
      [] ag = "ZERO" -> [j EXCEPT !.last_pkt_correct_time = ZeroBase(j, m)]
      [] ag = "FULL" ->
            IF ~is_av(m) THEN j
            ELSE [last_pkt_time |-> m.ts,
                  last_pkt_correct_time |->
                      srs_max(0, j.last_pkt_correct_time + JitterDelta(j, m.ts))]

Corrected(j, m, ag) ==
    CASE ag = "OFF"  -> m
      [] ag = "ZERO" -> [m EXCEPT !.ts = m.ts - ZeroBase(j, m)]
      [] ag = "FULL" ->
            [m EXCEPT !.ts = IF ~is_av(m) THEN 0
                             ELSE JitterAfter(j, m, ag).last_pkt_correct_time]

-----------------------------------------------------------------------------
\* SrsMessageQueue: the messages and the times that bound their duration.

QueueType == [msgs : Seq(Message), av_start_time : Int, av_end_time : Int,
              queue_size_ms : Nat]
NewQueue  == [msgs |-> <<>>, av_start_time |-> -1, av_end_time |-> -1,
              queue_size_ms |-> 0]

duration(q) == q.av_end_time - q.av_start_time

\* The latest sequence header of one medium, retimed to time t: a sequence of
\* length one, or empty.
LatestHeader(msgs, type, t) ==
    LET I == {i \in 1..Len(msgs) : sh(msgs[i]) /\ msgs[i].type = type}
    IN  IF I = {} THEN <<>> ELSE << [msgs[Max(I)] EXCEPT !.ts = t] >>

\* Drops everything but the latest video and audio sequence headers.
shrink(q) ==
    [msgs |-> LatestHeader(q.msgs, "video", q.av_end_time)
              \o LatestHeader(q.msgs, "audio", q.av_end_time),
     av_start_time |-> q.av_end_time,
     av_end_time   |-> q.av_end_time,
     queue_size_ms |-> q.queue_size_ms]

\* The queue with the message in it, before the overflow test.
Pushed(q, m) ==
    [msgs |-> Append(q.msgs, m),
     av_start_time |-> IF is_av(m) /\ q.av_start_time = -1 THEN m.ts
                       ELSE q.av_start_time,
     av_end_time   |-> IF is_av(m) THEN m.ts ELSE q.av_end_time,
     queue_size_ms |-> q.queue_size_ms]

Overflows(q, m) == duration(Pushed(q, m)) > q.queue_size_ms

\* The while loop of the code runs shrink at most once: it leaves duration 0.
enqueue(q, m) == IF Overflows(q, m) THEN shrink(Pushed(q, m)) ELSE Pushed(q, m)

\* dump_packets(max_count): the messages handed over, and the queue left.
DumpCount(q, max)  == IF max < Len(q.msgs) THEN max ELSE Len(q.msgs)
Dumped(q, max)     == SubSeq(q.msgs, 1, DumpCount(q, max))
\* Mutant: the start of what is left is not moved.
AfterDumpStale(q, max) ==
    [q EXCEPT !.msgs = SubSeq(q.msgs, DumpCount(q, max) + 1, Len(q.msgs))]

AfterDump(q, max)  ==
    IF q.msgs = <<>> THEN q
    ELSE [q EXCEPT !.msgs = SubSeq(q.msgs, DumpCount(q, max) + 1, Len(q.msgs)),
                   !.av_start_time = q.msgs[DumpCount(q, max)].ts]
=============================================================================
