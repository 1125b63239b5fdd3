----------------------------- MODULE FifoQueue -----------------------------
(***************************************************************************)
(* What a player's queue promises: messages come out in the order in which *)
(* they went in, each once, and the only ones that do not come out are     *)
(* those an overflow discards, which keeps the latest sequence header of   *)
(* each medium.                                                            *)
(***************************************************************************)
EXTENDS Naturals, Sequences, SequencesExt

CONSTANTS Messages,
          Headers    \* per medium, the set of its sequence headers

VARIABLES queue, out
vars == <<queue, out>>

FifoInit == queue = <<>> /\ out = <<>>

Push(m) == queue' = Append(queue, m) /\ UNCHANGED out

LatestHeader(medium) ==
    LET i == SelectLastInSeq(queue, LAMBDA m : m \in Headers[medium])
    IN  IF i = 0 THEN <<>> ELSE <<queue[i]>>

Overflow == queue' = LatestHeader(1) \o LatestHeader(2) /\ UNCHANGED out

Dump(n) == /\ n <= Len(queue)
           /\ out' = out \o SubSeq(queue, 1, n)
           /\ queue' = SubSeq(queue, n + 1, Len(queue))

FifoNext ==
    \/ \E m \in Messages : Push(m)
    \/ Overflow
    \/ \E n \in 1..Len(queue) : Dump(n)

FifoSpec == FifoInit /\ [][FifoNext]_vars
=============================================================================
