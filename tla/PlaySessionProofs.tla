-------------------------- MODULE PlaySessionProofs -------------------------
(***************************************************************************)
(* The safety properties of a playing connection, for any number of        *)
(* control messages.                                                       *)
(***************************************************************************)
EXTENDS PlaySession, SequenceTheorems, TLAPS

\* A message that is read, or being processed, is there.
InHand ==
    /\ recv = "push" => held \in Control
    /\ conn = "process" => msg \in Control
    /\ conn = "answer" => msg \in {"call", "pause", "unpause"}

\* Reading begins with an empty queue, and nobody else fills it.
ReadsWhenEmpty ==
    /\ recv \in {"read", "push"} => queue = <<>>
    /\ Len(queue) <= 1

IInv == PlayTypeOK /\ InHand /\ ReadsWhenEmpty /\ NoAutoResponseWhileReading

-----------------------------------------------------------------------------
LEMMA LastOfQueue ==
  ASSUME NEW S, NEW s \in Seq(S), s # << >>, Len(s) <= 1
  PROVE  Head(s) \in S /\ Tail(s) \in Seq(S) /\ Len(Tail(s)) = 0
  <1>1. Len(s) \in Nat \ {0}
    BY EmptySeq, Zenon
  <1>2. Head(s) \in S /\ Tail(s) \in Seq(S) /\ Len(Tail(s)) = Len(s) - 1
    BY HeadTailProperties, Zenon
  <1> QED
    BY <1>1, <1>2

LEMMA InitInv == PlayInit => IInv
  <1>1. << >> \in Seq(Control) /\ Len(<< >>) <= 1
    BY EmptySeq
  <1>2. PlayInit => PlayTypeOK
    <2>1. 0 \in Nat
      OBVIOUS
    <2> QED
      BY <1>1, <2>1, Zenon DEF PlayInit, PlayTypeOK, ConnStep, RecvStep, Ret
  <1>3. PlayInit => InHand /\ NoAutoResponseWhileReading
    BY DEF PlayInit, InHand, NoAutoResponseWhileReading
  <1>4. PlayInit => ReadsWhenEmpty
    BY <1>1 DEF PlayInit, ReadsWhenEmpty
  <1> QED
    BY <1>2, <1>3, <1>4 DEF IInv

LEMMA ConnInv ==
  ASSUME IInv, ConnNext \/ Written
  PROVE  IInv'
  <1> USE DEF IInv, PlayTypeOK, InHand, ReadsWhenEmpty, NoAutoResponseWhileReading, connVars, recvVars,
          ConnStep, Ret
  <1>1. CASE pull
    BY <1>1 DEF pull, Stop
  <1>2. CASE pump
    <2>1. queue # <<>> => Head(queue) \in Control /\ Tail(queue) \in Seq(Control) /\ Len(Tail(queue)) = 0
      BY LastOfQueue
    <2> QED
      <3>1. CASE queue = <<>>
        BY <1>2, <3>1 DEF pump
      <3>2. CASE queue # <<>>
        <4>1. queue' \in Seq(Control) /\ Len(queue') <= 1 /\ msg' \in Control /\ conn' = "process"
          BY <1>2, <2>1, <3>2 DEF pump
        <4>2. recv \notin {"read", "push"}
          BY <3>2
        <4> QED
          BY <1>2, <4>1, <4>2 DEF pump
      <3> QED
        BY <3>1, <3>2
  <1>3. CASE process_play_control_msg
    <2>1. CASE msg \in {"call", "pause", "unpause"}
      <3>1. conn' = "answer" /\ msg' = msg /\ ret' = ret
        BY <1>3, <2>1 DEF process_play_control_msg
      <3> QED
        BY <1>3, <2>1, <3>1 DEF process_play_control_msg
    <2>2. CASE msg \notin {"call", "pause", "unpause"}
      <3>1. conn' \in {"stop", "drain"} /\ msg' = None /\ ret' \in Ret
        BY <1>3, <2>2 DEF process_play_control_msg, Stop, Control
      <3> QED
        BY <1>3, <3>1 DEF process_play_control_msg
    <2> QED
      BY <2>1, <2>2
  <1>4. CASE answered
    <2>1. paused' \in BOOLEAN
      <3>1. paused' = paused \/ paused' = (msg = "pause")
        BY <1>4, Zenon DEF answered
      <3> QED
        BY <3>1
    <2>2. responses' \in Nat /\ msg' = None /\ conn' = "drain"
      BY <1>4 DEF answered
    <2> QED
      BY <1>4, <2>1, <2>2 DEF answered
  <1>5. CASE error_code
    BY <1>5 DEF error_code, Stop
  <1>6. CASE dump_nothing
    BY <1>6 DEF dump_nothing
  <1>7. CASE dump_packets
    BY <1>7 DEF dump_packets
  <1>8. CASE stop
    BY <1>8 DEF stop
  <1>9. CASE send_and_free_messages
    BY <1>9 DEF send_and_free_messages, Stop
  <1> QED
    BY <1>1, <1>2, <1>3, <1>4, <1>5, <1>6, <1>7, <1>8, <1>9 DEF ConnNext, Written

LEMMA RecvInv ==
  ASSUME IInv, RecvNext \/ Peer
  PROVE  IInv'
  <1> USE DEF IInv, PlayTypeOK, InHand, ReadsWhenEmpty, NoAutoResponseWhileReading, connVars, recvVars,
          RecvStep
  <1>1. CASE on_start
    BY <1>1 DEF on_start
  <1>2. CASE recv_pull
    BY <1>2 DEF recv_pull
  <1>3. CASE interrupted
    BY <1>3 DEF interrupted
  <1>4. CASE consume
    BY <1>4 DEF consume
  <1>5. CASE interrupt
    BY <1>5 DEF interrupt
  <1>6. CASE set_error
    BY <1>6 DEF set_error
  <1>7. CASE cycle_end
    BY <1>7 DEF cycle_end, CycleResult
  <1>8. CASE recv_message_error
    BY <1>8 DEF recv_message_error
  <1>9. CASE expire
    BY <1>9 DEF expire
  <1>10. CASE write_error
    BY <1>10 DEF write_error, Stop, ConnStep, Ret
  <1>11. CASE ClientReads
    BY <1>11 DEF ClientReads
  <1>12. ASSUME NEW m \in Control, recv_message(m)
        PROVE  IInv'
    BY <1>12 DEF recv_message
  <1> QED
    BY <1>1, <1>2, <1>3, <1>4, <1>5, <1>6, <1>7, <1>8, <1>9, <1>12, <1>10, <1>11 DEF RecvNext, Peer

LEMMA Inductive == PlaySpec => []IInv
  <1>1. IInv /\ UNCHANGED playVars => IInv'
    BY DEF IInv, PlayTypeOK, InHand, ReadsWhenEmpty, NoAutoResponseWhileReading, playVars, connVars, recvVars
  <1>2. IInv /\ [PlayNext]_playVars => IInv'
    BY <1>1, ConnInv, RecvInv DEF PlayNext
  <1> QED
    BY InitInv, <1>2, PTL DEF PlaySpec

\* The two threads of a playing connection keep their types, whatever the
\* client sends: in particular what is pushed into the queue, and what is
\* processed, is a message.
THEOREM TypeCorrect == PlaySpec => []PlayTypeOK
  <1>1. IInv => PlayTypeOK
    BY DEF IInv
  <1> QED
    BY <1>1, Inductive, PTL

\* SrsQueueRecvThread never has more than one message that is not processed,
\* although the test and the read are steps of one thread and the connection
\* empties the queue in another.
THEOREM AtMostOneQueuedProved == PlaySpec => []AtMostOneQueued
  <1>1. IInv => AtMostOneQueued
    BY DEF IInv, ReadsWhenEmpty, AtMostOneQueued
  <1> QED
    BY <1>1, Inductive, PTL

\* The protocol does not answer by itself while the receive thread reads,
\* also when its cycle is run again after an error.
THEOREM NoAutoResponseProved == PlaySpec => []NoAutoResponseWhileReading
  <1>1. IInv => NoAutoResponseWhileReading
    BY DEF IInv
  <1> QED
    BY <1>1, Inductive, PTL
=============================================================================
