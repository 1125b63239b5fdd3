------------------------ MODULE PublishSessionProofs ------------------------
(***************************************************************************)
(* The safety properties of publishing connections, for any number of      *)
(* connections and messages.                                               *)
(***************************************************************************)
EXTENDS PublishSession, TLAPS

-----------------------------------------------------------------------------
(* The invariant.  Each part is said of one connection.                    *)

\* cycle() always returns an error: the receive thread does not end.
RunsOn(p) == recv[p] # "exited"

\* The receive thread has an error in hand from when it met one until the
\* code is stored, and signals after it is.
ErrorInHand(p) ==
    /\ recv[p] \in {"interrupt", "error"} => pending_error[p] # "ok"
    /\ recv[p] = "signal" => recv_error_code[p] # "ok"

\* The thread is told to stop by its connection, or by an error that is
\* stored or about to be.
StopHasReason(p) ==
    /\ m_stop[p] => \/ conn[p] = "join"
                    \/ recv[p] = "error"
                    \/ recv_error_code[p] # "ok"
    /\ conn[p] = "join" => m_stop[p]
    /\ recv[p] \in {"error", "signal", "bottom"} => m_stop[p]

\* A wait is left with its time elapsed or with an error that will be seen.
WaitHasReason(p) ==
    /\ conn[p] = "check" => elapsed[p] \/ recv_error_code[p] # "ok"
    /\ conn[p] = "count" => elapsed[p]
    /\ ret[p] = "timeout" => elapsed[p] /\ conn[p] \in {"stop", "join", "closed"}

\* After its late message the receive thread does not read again.
LateOnce(p) ==
    /\ late[p] \in {0, 1}
    /\ late[p] = 1 => conn[p] = "join" /\ recv[p] # "read"

Sound(p) == RunsOn(p) /\ ErrorInHand(p) /\ StopHasReason(p) /\ WaitHasReason(p) /\ LateOnce(p)

IInv == TypeOK /\ \A p \in Conn : Sound(p)

-----------------------------------------------------------------------------
LEMMA InitSound == Init => IInv
  BY PublishAssumption DEF Init, IInv, TypeOK, Sound, RunsOn, ErrorInHand, StopHasReason, WaitHasReason,
     LateOnce, ConnStep, RecvStep, RecvError, Ret

LEMMA ConnTyped ==
  ASSUME TypeOK, NEW p \in Conn, ConnNext(p)
  PROVE  TypeOK'
  <1>1. CASE can_publish_check(p)
    BY <1>1 DEF can_publish_check, Step, Return, recvVars, TypeOK, ConnStep, Ret
  <1>2. CASE on_publish(p)
    BY <1>2 DEF on_publish, Step, Return, recvVars, TypeOK, ConnStep, Ret
  <1>3. CASE start(p)
    BY <1>3, PublishAssumption DEF start, Step, TypeOK, ConnStep, RecvStep
  <1>4. CASE pull(p)
    BY <1>4 DEF pull, Step, Return, recvVars, TypeOK, ConnStep, Ret
  <1>5. CASE wait(p)
    BY <1>5 DEF wait, Step, recvVars, TypeOK, ConnStep
  <1>6. CASE WaitTimeout(p)
    BY <1>6 DEF WaitTimeout, Step, recvVars, TypeOK, ConnStep
  <1>7. CASE error_code(p)
    BY <1>7 DEF error_code, Step, Return, recvVars, TypeOK, ConnStep, Ret
  <1>8. CASE count(p)
    BY <1>8 DEF count, Step, Return, recvVars, TypeOK, ConnStep, Ret
  <1>9. CASE stop(p)
    BY <1>9 DEF stop, Step, recvVars, TypeOK, ConnStep
  <1>10. CASE release_publish(p)
    BY <1>10 DEF release_publish, recvVars, TypeOK, ConnStep
  <1>11. CASE cond_timedwait(p)
    BY <1>11 DEF cond_timedwait, Step, recvVars, TypeOK, ConnStep
  <1> QED
    BY <1>1, <1>2, <1>3, <1>4, <1>5, <1>6, <1>7, <1>8, <1>9, <1>10, <1>11 DEF ConnNext

LEMMA RecvTyped ==
  ASSUME TypeOK, NEW p \in Conn, RecvNext(p) \/ Peer(p)
  PROVE  TypeOK'
  <1>1. CASE recv_pull(p)
    BY <1>1 DEF recv_pull, RecvGoto, connVars, TypeOK, RecvStep
  <1>2. CASE interrupt(p)
    BY <1>2 DEF interrupt, RecvGoto, connVars, TypeOK, RecvStep
  <1>3. CASE set_error(p)
    BY <1>3 DEF set_error, RecvGoto, connVars, TypeOK, RecvStep
  <1>4. CASE signal_error(p)
    BY <1>4 DEF signal_error, Signal, RecvGoto, TypeOK, ConnStep, RecvStep
  <1>5. CASE cycle_end(p)
    BY <1>5 DEF cycle_end, Signal, RecvGoto, TypeOK, ConnStep, RecvStep
  <1>6. ASSUME NEW result \in {"ok", "failed", "republish"}, consume(p, result)
        PROVE  TypeOK'
    BY <1>6, PublishAssumption DEF consume, RecvGoto, connVars, TypeOK, RecvStep, RecvError
  <1>7. CASE recv_message_error(p)
    BY <1>7 DEF recv_message_error, RecvGoto, connVars, TypeOK, RecvStep, RecvError
  <1>8. CASE expire(p)
    BY <1>8 DEF expire, connVars, recvVars, TypeOK
  <1> QED
    BY <1>1, <1>2, <1>3, <1>4, <1>5, <1>6, <1>7, <1>8 DEF RecvNext, Peer

LEMMA ConnSound ==
  ASSUME IInv, NEW p \in Conn, ConnNext(p), NEW q \in Conn
  PROVE  Sound(q)'
  <1> USE DEF IInv, TypeOK, Sound, RunsOn, ErrorInHand, StopHasReason, WaitHasReason, LateOnce
  <1>1. CASE can_publish_check(p)
    BY <1>1 DEF can_publish_check, Step, Return, recvVars
  <1>2. CASE on_publish(p)
    BY <1>2 DEF on_publish, Step, Return, recvVars
  <1>3. CASE start(p)
    BY <1>3 DEF start, Step
  <1>4. CASE pull(p)
    BY <1>4 DEF pull, Step, Return, recvVars
  <1>5. CASE wait(p)
    BY <1>5 DEF wait, Step, recvVars
  <1>6. CASE WaitTimeout(p)
    BY <1>6 DEF WaitTimeout, Step, recvVars
  <1>7. CASE error_code(p)
    BY <1>7 DEF error_code, Step, Return, recvVars, RecvError
  <1>8. CASE count(p)
    BY <1>8 DEF count, Step, Return, recvVars
  <1>9. CASE stop(p)
    BY <1>9 DEF stop, Step, recvVars
  <1>10. CASE release_publish(p)
    BY <1>10 DEF release_publish, Releasable, recvVars
  <1>11. CASE cond_timedwait(p)
    BY <1>11 DEF cond_timedwait, Step, recvVars
  <1> QED
    BY <1>1, <1>2, <1>3, <1>4, <1>5, <1>6, <1>7, <1>8, <1>9, <1>10, <1>11 DEF ConnNext

LEMMA RecvSound ==
  ASSUME IInv, NEW p \in Conn, RecvNext(p) \/ Peer(p), NEW q \in Conn
  PROVE  Sound(q)'
  <1> USE DEF IInv, TypeOK, Sound, RunsOn, ErrorInHand, StopHasReason, WaitHasReason, LateOnce
  <1>1. CASE recv_pull(p)
    BY <1>1 DEF recv_pull, RecvGoto, connVars
  <1>2. CASE interrupt(p)
    BY <1>2 DEF interrupt, RecvGoto, connVars
  <1>3. CASE set_error(p)
    BY <1>3 DEF set_error, RecvGoto, connVars
  <1>4. CASE signal_error(p)
    BY <1>4 DEF signal_error, Signal, RecvGoto
  <1>5. CASE cycle_end(p)
    BY <1>5 DEF cycle_end, Signal, CycleResult, RecvGoto
  <1>6. CASE recv_message_error(p)
    BY <1>6 DEF recv_message_error, RecvGoto, connVars
  <1>7. CASE expire(p)
    BY <1>7 DEF expire, connVars, recvVars
  <1>8. ASSUME NEW result \in {"ok", "failed", "republish"}, consume(p, result)
        PROVE  Sound(q)'
    BY <1>8 DEF consume, RecvGoto, connVars
  <1> QED
    BY <1>1, <1>2, <1>3, <1>4, <1>5, <1>6, <1>7, <1>8 DEF RecvNext, Peer

LEMMA NextSound == IInv /\ [Next]_vars => IInv'
  <1>1. ASSUME IInv, UNCHANGED vars PROVE IInv'
    BY <1>1 DEF IInv, TypeOK, Sound, RunsOn, ErrorInHand, StopHasReason, WaitHasReason, LateOnce,
       vars
  <1>2. ASSUME IInv, NEW p \in Conn, ConnNext(p) \/ RecvNext(p) \/ Peer(p) PROVE IInv'
    <2>1. TypeOK'
      BY <1>2, ConnTyped, RecvTyped DEF IInv
    <2>2. ASSUME NEW q \in Conn PROVE Sound(q)'
      BY <1>2, ConnSound, RecvSound
    <2> QED
      BY <2>1, <2>2 DEF IInv
  <1> QED
    BY <1>1, <1>2 DEF Next

LEMMA Inductive == Spec => []IInv
  BY InitSound, NextSound, PTL DEF Spec

\* For any number of connections and messages the threads of publishing
\* connections keep their types: no step is taken from a place the code does
\* not have, and a connection never counts a message that was not received.
THEOREM TypeCorrect == Spec => []TypeOK
  <1>1. IInv => TypeOK
    BY DEF IInv
  <1> QED
    BY <1>1, Inductive, PTL

\* do_publishing reports silence only after a wait that ran its whole time,
\* although the wake-ups of errors, of on_stop and of the timeout look alike.
THEOREM NoFalseTimeoutProved == Spec => []NoFalseTimeout
  <1>1. IInv => NoFalseTimeout
    BY DEF IInv, Sound, WaitHasReason, NoFalseTimeout
  <1> QED
    BY <1>1, Inductive, PTL

\* After stop() the receive thread hands at most one more message to the
\* source, although nothing makes it leave the read it is in.
THEOREM AtMostOneLateProved == Spec => []AtMostOneLate
  <1>1. IInv => AtMostOneLate
    BY DEF IInv, Sound, LateOnce, AtMostOneLate
  <1> QED
    BY <1>1, Inductive, PTL
=============================================================================
