----------------------------- MODULE FastVector -----------------------------
(***************************************************************************)
(* The vector under a player's queue (SrsFastVector) below the level of    *)
(* LiveSource: the publisher's thread runs push_back and shrink on it, the *)
(* player's thread dump_packets, each as the loads and stores the code     *)
(* makes, with no lock between them.  A queue that is full is a choice     *)
(* here; LiveSource says when it is.  A message is the number of its       *)
(* arrival; some numbers are sequence headers.                             *)
(***************************************************************************)
EXTENDS Integers, Sequences, SequencesExt

CONSTANTS
    InitialSize,   \* SRS_PERF_MW_MSGS * 8
    VideoHeaders,  \* the messages that are video sequence headers
    AudioHeaders,  \* the messages that are audio sequence headers
    MaxPushed      \* bound: messages pushed

ASSUME VectorAssumption ==
    /\ InitialSize \in Nat \ {0}
    /\ MaxPushed \in Nat
    /\ VideoHeaders \subseteq 1..MaxPushed
    /\ AudioHeaders \subseteq (1..MaxPushed) \ VideoHeaders

VARIABLES
    msgs,        \* the array, 0 in cells never written
    count,
    nb_msgs,     \* the capacity
    push,        \* the publisher's thread
    dump,        \* the player's thread, and what it has copied
    pushed,      \* history: how many messages were pushed
    out          \* history: what the player was handed

vectorVars == <<msgs, count, nb_msgs, push, dump, pushed, out>>

PushStep == {"idle", "load", "store", "test", "at", "clear", "video",
             "audio"}
DumpStep == {"idle", "erase", "clear", "count"}

PushType == [pc : PushStep, msg : Nat, i : Nat, video_sh : Nat, audio_sh : Nat]
DumpType == [pc : DumpStep, got : Seq(Nat)]

\* The type invariant: the fields of the array and the locals of the two
\* threads that use it; in particular count stays within the capacity.
VectorTypeOK ==
    /\ nb_msgs \in Nat
    /\ msgs \in [0..nb_msgs - 1 -> Nat]
    /\ count \in 0..nb_msgs
    /\ push \in PushType
    /\ dump \in DumpType
    /\ pushed \in Nat
    /\ out \in Seq(Nat)

Idle == [pc |-> "idle", msg |-> 0, i |-> 0, video_sh |-> 0,
         audio_sh |-> 0]
NoDump == [pc |-> "idle", got |-> <<>>]

VectorInit ==
    /\ nb_msgs = InitialSize
    /\ msgs = [i \in 0..InitialSize - 1 |-> 0]
    /\ count = 0
    /\ push = Idle
    /\ dump = NoDump
    /\ pushed = 0
    /\ out = <<>>

-----------------------------------------------------------------------------
(* The publisher's thread. *)

\* Mutant: the array grows one message too late.
Capacity_late == IF count > nb_msgs THEN nb_msgs * 2 ELSE nb_msgs

\* push_back: the array is doubled when it is full ...
Capacity == IF count >= nb_msgs THEN nb_msgs * 2 ELSE nb_msgs
Enlarged == [i \in 0..Capacity - 1 |-> IF i < nb_msgs THEN msgs[i] ELSE 0]

push_back ==
    /\ push.pc = "idle"
    /\ pushed < MaxPushed
    /\ pushed' = pushed + 1
    /\ push' = [Idle EXCEPT !.pc = "load", !.msg = pushed + 1]
    /\ nb_msgs' = Capacity
    /\ msgs' = Enlarged
    /\ UNCHANGED <<count, dump, out>>

\* ... then msgs[count++] = msg: count is loaded, then written back.
load_count ==
    /\ push.pc = "load"
    /\ push' = [push EXCEPT !.pc = "store", !.i = count]
    /\ UNCHANGED <<msgs, count, nb_msgs, dump, pushed, out>>

store(next) ==
    /\ push.pc = "store"
    /\ msgs' = [msgs EXCEPT ![push.i] = push.msg]
    /\ count' = push.i + 1
    /\ push' = IF next = "test" THEN [Idle EXCEPT !.pc = "test"] ELSE Idle
    /\ UNCHANGED <<nb_msgs, dump, pushed, out>>

\* shrink: for (i = 0; i < msgs.size(); i++) { msg = msgs.at(i); ... }
shrink_test ==
    /\ push.pc = "test"
    /\ push' = [push EXCEPT !.pc = IF push.i < count THEN "at" ELSE "clear"]
    /\ UNCHANGED <<msgs, count, nb_msgs, dump, pushed, out>>

shrink_at ==
    /\ push.pc = "at"
    /\ LET m == msgs[push.i]
       IN  push' = [push EXCEPT
               !.pc = "test", !.i = @ + 1,
               !.video_sh = IF m \in VideoHeaders THEN m ELSE @,
               !.audio_sh = IF m \in AudioHeaders THEN m ELSE @]
    /\ UNCHANGED <<msgs, count, nb_msgs, dump, pushed, out>>

shrink_clear ==
    /\ push.pc = "clear"
    /\ count' = 0
    /\ push' = [push EXCEPT !.pc = "video"]
    /\ UNCHANGED <<msgs, nb_msgs, dump, pushed, out>>

\* The headers that were found are pushed back, video first.
reinsert(from, header, after) ==
    /\ push.pc = from
    /\ push' = after
    /\ IF header = 0 THEN UNCHANGED <<msgs, count, nb_msgs>>
       ELSE /\ nb_msgs' = Capacity
            /\ msgs' = [Enlarged EXCEPT ![count] = header]
            /\ count' = count + 1
    /\ UNCHANGED <<dump, pushed, out>>

shrink_video == reinsert("video", push.video_sh, [push EXCEPT !.pc = "audio"])
shrink_audio == reinsert("audio", push.audio_sh, Idle)

-----------------------------------------------------------------------------
(* The player's thread: SrsMessageQueue::dump_packets. *)

Prefix(n) == [k \in 1..n |-> msgs[k - 1]]

\* The size is loaded once; the first of the messages are copied out.
dump_copy(max) ==
    /\ dump.pc = "idle"
    /\ count > 0
    /\ LET n == IF max < count THEN max ELSE count
       IN  dump' = [pc |-> IF n >= count THEN "clear" ELSE "erase",
                    got |-> Prefix(n)]
    /\ UNCHANGED <<msgs, count, nb_msgs, push, pushed, out>>

\* All were copied: msgs.clear().
dump_clear ==
    /\ dump.pc = "clear"
    /\ count' = 0
    /\ out' = out \o dump.got
    /\ dump' = NoDump
    /\ UNCHANGED <<msgs, nb_msgs, push, pushed>>

\* Mutant: the rest is not moved.
erase_in_place ==
    /\ dump.pc = "erase"
    /\ dump' = [dump EXCEPT !.pc = "count"]
    /\ UNCHANGED <<msgs, count, nb_msgs, push, pushed, out>>

\* Some were: msgs.erase(0, n) moves the rest to the front, then counts down.
erase_move ==
    /\ dump.pc = "erase"
    /\ LET n == Len(dump.got)
       IN  msgs' = [i \in DOMAIN msgs |-> IF i + n < count THEN msgs[i + n]
                                          ELSE msgs[i]]
    /\ dump' = [dump EXCEPT !.pc = "count"]
    /\ UNCHANGED <<count, nb_msgs, push, pushed, out>>

erase_count ==
    /\ dump.pc = "count"
    /\ count' = count - Len(dump.got)
    /\ out' = out \o dump.got
    /\ dump' = NoDump
    /\ UNCHANGED <<msgs, nb_msgs, push, pushed>>

-----------------------------------------------------------------------------
PushNext ==
    \/ push_back \/ load_count \/ \E n \in {"test", "return"} : store(n)
    \/ shrink_test \/ shrink_at \/ shrink_clear
    \/ shrink_video \/ shrink_audio

DumpNext ==
    \/ \E max \in 1..MaxPushed : dump_copy(max)
    \/ dump_clear \/ erase_move \/ erase_count

\* The threads as they are: nothing keeps one out while the other is inside.
VectorNext == PushNext \/ DumpNext
VectorSpec == VectorInit /\ [][VectorNext]_vectorVars

\* One operation at a time, as between coroutines that do not yield inside one.
SerialNext == \/ dump.pc = "idle" /\ PushNext
              \/ push.pc = "idle" /\ DumpNext
SerialSpec == VectorInit /\ [][SerialNext]_vectorVars

-----------------------------------------------------------------------------
(* Properties. *)

\* The abstract queue: what the array holds, seen across the steps in which an
\* operation has moved messages but not finished.
Contents(n) == [k \in 1..n |-> msgs[k - 1]]

Kept(header) == IF header = 0 THEN <<>> ELSE <<header>>

AbstractQueue ==
    IF push.pc = "video" THEN Kept(push.video_sh) \o Kept(push.audio_sh)
    ELSE IF push.pc = "audio" THEN Contents(count) \o Kept(push.audio_sh)
    ELSE IF dump.pc = "count" THEN dump.got \o Contents(count - Len(dump.got))
    ELSE Contents(count)

Fifo == INSTANCE FifoQueue
            WITH queue <- AbstractQueue, out <- out,
                 Messages <- 1..MaxPushed,
                 Headers <- <<VideoHeaders, AudioHeaders>>

\* One operation at a time, the vector is the queue it stands for: growing,
\* erasing and shrinking the array lose, repeat and reorder nothing.
ImplementsFifo == Fifo!FifoSpec

\* The array is never written past its end, however full the queue runs, and
\* the assertion of at() holds for every index shrink reads.
InBounds ==
    /\ count <= nb_msgs
    /\ push.pc = "store" => push.i < nb_msgs
    /\ push.pc = "at" => push.i < count
=============================================================================
