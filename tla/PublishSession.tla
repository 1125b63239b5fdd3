--------------------------- MODULE PublishSession ---------------------------
(***************************************************************************)
(* Publishing connections of one stream.  A connection has two threads:    *)
(* its own (SrsRtmpConn::publishing and do_publishing) and the isolated    *)
(* receive thread it starts (SrsRecvThread driven by SrsPublishRecvThread, *)
(* run by SrsThreadCoroutine).  They share m_stop, recv_error_code,        *)
(* _nb_msgs and a condition variable that is signalled without its mutex;  *)
(* the connections share the source's _can_publish flag.  What a message   *)
(* does to the source is LiveSource's concern: here it is counted.         *)
(***************************************************************************)
EXTENDS Naturals, FiniteSets

CONSTANTS
    Conn,            \* the connections that publish this stream
    HandlerMayFail,  \* whether the handler's on_publish may fail
    MaxMsgs          \* bound: messages a publisher sends

ASSUME PublishAssumption == HandlerMayFail \in BOOLEAN /\ MaxMsgs \in Nat

VARIABLES
    can_publish,      \* the source's _can_publish
    conn,             \* program counter of each connection's thread
    ret,              \* its local result
    seen,             \* its local nb_msgs
    recv,             \* program counter of each receive thread
    m_stop,           \* SrsThreadCoroutine::m_stop of the receive thread
    expired,          \* m_stop of the connection's thread
    pending_error,    \* the receive thread's local error
    recv_error_code,
    nb_msgs,          \* _nb_msgs
    acquired,         \* history: on_publish done and not yet undone
    elapsed,          \* history: the last wait ran its whole time
    late              \* history: messages handled after stop() was called

vars == <<can_publish, conn, ret, seen, recv, m_stop, expired, pending_error,
          recv_error_code, nb_msgs, acquired, elapsed, late>>

connVars == <<conn, ret, seen, elapsed>>
recvVars == <<recv, pending_error, recv_error_code, nb_msgs, late>>

ConnStep == {"publishing", "on_publish", "start", "loop", "wait", "block",
             "waiting", "check", "count", "stop", "join", "release", "closed"}
RecvStep == {"off", "top", "read", "interrupt", "error", "signal", "bottom",
             "exited"}
RecvError == {"republish", "failed", "peer_closed"}
Ret == {"ok", "busy", "handler", "disconnect", "timeout"} \cup RecvError

\* The type invariant: the steps and locals of the two threads of every
\* connection; none counts a message that was not sent.
TypeOK ==
    /\ can_publish \in BOOLEAN
    /\ conn \in [Conn -> ConnStep]
    /\ ret \in [Conn -> Ret]
    /\ seen \in [Conn -> 0..MaxMsgs]
    /\ recv \in [Conn -> RecvStep]
    /\ m_stop \in [Conn -> BOOLEAN]
    /\ expired \in [Conn -> BOOLEAN]
    /\ pending_error \in [Conn -> RecvError \cup {"ok"}]
    /\ recv_error_code \in [Conn -> RecvError \cup {"ok"}]
    /\ nb_msgs \in [Conn -> 0..MaxMsgs]
    /\ acquired \in [Conn -> BOOLEAN]
    /\ elapsed \in [Conn -> BOOLEAN]
    /\ late \in [Conn -> Nat]

Init ==
    /\ can_publish = TRUE
    /\ conn = [p \in Conn |-> "publishing"]
    /\ ret = [p \in Conn |-> "ok"]
    /\ seen = [p \in Conn |-> 0]
    /\ recv = [p \in Conn |-> "off"]
    /\ m_stop = [p \in Conn |-> FALSE]
    /\ expired = [p \in Conn |-> FALSE]
    /\ pending_error = [p \in Conn |-> "ok"]
    /\ recv_error_code = [p \in Conn |-> "ok"]
    /\ nb_msgs = [p \in Conn |-> 0]
    /\ acquired = [p \in Conn |-> FALSE]
    /\ elapsed = [p \in Conn |-> FALSE]
    /\ late = [p \in Conn |-> 0]

-----------------------------------------------------------------------------
(* The connection's thread. *)

Step(p, from, to) == conn[p] = from /\ conn' = [conn EXCEPT ![p] = to]
Return(p, r) == ret' = [ret EXCEPT ![p] = r]

\* acquire_publish reads the flag; a busy stream ends the connection without
\* release_publish.
can_publish_check(p) ==
    /\ Step(p, "publishing", IF can_publish THEN "on_publish" ELSE "closed")
    /\ Return(p, IF can_publish THEN "ok" ELSE "busy")
    /\ UNCHANGED <<can_publish, seen, m_stop, expired, acquired, elapsed,
                   recvVars>>

\* SrsSource::on_publish, in a later step of the same thread.
on_publish(p) ==
    /\ \/ Step(p, "on_publish", "start") /\ UNCHANGED ret
       \/ /\ HandlerMayFail
          /\ Step(p, "on_publish", "release")
          /\ Return(p, "handler")
    /\ can_publish' = FALSE
    /\ acquired' = [acquired EXCEPT ![p] = TRUE]
    /\ UNCHANGED <<seen, m_stop, expired, elapsed, recvVars>>

\* A new SrsPublishRecvThread, and do_publishing up to its loop.
start(p) ==
    /\ Step(p, "start", "loop")
    /\ recv' = [recv EXCEPT ![p] = "top"]
    /\ m_stop' = [m_stop EXCEPT ![p] = FALSE]
    /\ recv_error_code' = [recv_error_code EXCEPT ![p] = "ok"]
    /\ nb_msgs' = [nb_msgs EXCEPT ![p] = 0]
    /\ seen' = [seen EXCEPT ![p] = 0]
    /\ UNCHANGED <<can_publish, ret, expired, pending_error, acquired, elapsed,
                   late>>

\* The top of the loop: the connection may have been expired.
pull(p) ==
    /\ Step(p, "loop", IF expired[p] THEN "stop" ELSE "wait")
    /\ Return(p, IF expired[p] THEN "disconnect" ELSE ret[p])
    /\ UNCHANGED <<can_publish, seen, m_stop, expired, acquired, elapsed,
                   recvVars>>

\* Mutant: with an error set, wait goes round the loop.
wait_again(p) ==
    /\ Step(p, "wait", IF recv_error_code[p] # "ok" THEN "loop" ELSE "block")
    /\ UNCHANGED <<can_publish, ret, seen, elapsed, m_stop, expired, acquired,
                   recvVars>>

\* SrsPublishRecvThread::wait tests the error ...
wait(p) ==
    /\ Step(p, "wait", IF recv_error_code[p] # "ok" THEN "check" ELSE "block")
    /\ UNCHANGED <<can_publish, ret, seen, elapsed, m_stop, expired, acquired,
                   recvVars>>

\* ... and then blocks, without a lock that holds the two together: an error
\* stored and signalled in between wakes nobody.
cond_timedwait(p) ==
    /\ Step(p, "block", "waiting")
    /\ elapsed' = [elapsed EXCEPT ![p] = FALSE]
    /\ UNCHANGED <<can_publish, ret, seen, m_stop, expired, acquired, recvVars>>

\* The timed wait runs out.
WaitTimeout(p) ==
    /\ Step(p, "waiting", "check")
    /\ elapsed' = [elapsed EXCEPT ![p] = TRUE]
    /\ UNCHANGED <<can_publish, ret, seen, m_stop, expired, acquired, recvVars>>

\* Back in do_publishing: the error first ...
error_code(p) ==
    /\ Step(p, "check", IF recv_error_code[p] # "ok" THEN "stop" ELSE "count")
    /\ Return(p, IF recv_error_code[p] # "ok" THEN recv_error_code[p]
                 ELSE ret[p])
    /\ UNCHANGED <<can_publish, seen, m_stop, expired, acquired, elapsed,
                   recvVars>>

\* Mutant: silence is only noticed when the count goes back.
count_less(p) ==
    /\ Step(p, "count", IF nb_msgs[p] < seen[p] THEN "stop" ELSE "loop")
    /\ Return(p, IF nb_msgs[p] < seen[p] THEN "timeout" ELSE ret[p])
    /\ seen' = [seen EXCEPT ![p] = nb_msgs[p]]
    /\ UNCHANGED <<can_publish, m_stop, expired, acquired, elapsed, recvVars>>

\* ... then whether anything arrived since the last look.
count(p) ==
    /\ Step(p, "count", IF nb_msgs[p] <= seen[p] THEN "stop" ELSE "loop")
    /\ Return(p, IF nb_msgs[p] <= seen[p] THEN "timeout" ELSE ret[p])
    /\ seen' = [seen EXCEPT ![p] = nb_msgs[p]]
    /\ UNCHANGED <<can_publish, m_stop, expired, acquired, elapsed, recvVars>>

\* rtrd.stop(): m_stop, then requestExitAndWait.
stop(p) ==
    /\ Step(p, "stop", "join")
    /\ m_stop' = [m_stop EXCEPT ![p] = TRUE]
    /\ UNCHANGED <<can_publish, ret, seen, expired, acquired, elapsed,
                   recvVars>>

\* release_publish, once the receive thread is joined or if it never ran.
\* After a republish command the connection waits for the next publish;
\* any other result ends it.
Releasable(p) ==
    conn[p] = "release" \/ (conn[p] = "join" /\ recv[p] = "exited")

release_publish(p) ==
    /\ Releasable(p)
    /\ conn' = [conn EXCEPT ![p] = IF ret[p] = "republish" THEN "publishing"
                                   ELSE "closed"]
    /\ can_publish' = TRUE
    /\ acquired' = [acquired EXCEPT ![p] = FALSE]
    /\ UNCHANGED <<ret, seen, m_stop, expired, elapsed, recvVars>>

\* SrsConnection::expire, called by some other thread.
expire(p) ==
    /\ ~expired[p]
    /\ expired' = [expired EXCEPT ![p] = TRUE]
    /\ UNCHANGED <<can_publish, connVars, m_stop, acquired, recvVars>>

-----------------------------------------------------------------------------
(* The receive thread. *)

RecvGoto(p, from, to) == recv[p] = from /\ recv' = [recv EXCEPT ![p] = to]

\* Mutant: m_stop is not looked at.
recv_pull_on(p) ==
    /\ RecvGoto(p, "top", "read")
    /\ UNCHANGED <<can_publish, connVars, m_stop, expired, pending_error,
                   recv_error_code, nb_msgs, acquired, late>>

\* on_start, then the head of do_cycle's loop.
recv_pull(p) ==
    /\ RecvGoto(p, "top", IF m_stop[p] THEN "bottom" ELSE "read")
    /\ UNCHANGED <<can_publish, connVars, m_stop, expired, pending_error,
                   recv_error_code, nb_msgs, acquired, late>>

\* A message is received and consumed: counted, then handled.
consume(p, result) ==
    /\ nb_msgs[p] < MaxMsgs
    /\ nb_msgs' = [nb_msgs EXCEPT ![p] = @ + 1]
    /\ late' = [late EXCEPT ![p] = IF conn[p] = "join" THEN @ + 1 ELSE @]
    /\ RecvGoto(p, "read", IF result = "ok" THEN "top" ELSE "interrupt")
    /\ pending_error' = [pending_error EXCEPT ![p] = result]
    /\ UNCHANGED <<can_publish, connVars, m_stop, expired, recv_error_code,
                   acquired>>

\* recv_message fails.
recv_message_error(p) ==
    /\ RecvGoto(p, "read", "interrupt")
    /\ pending_error' = [pending_error EXCEPT ![p] = "peer_closed"]
    /\ UNCHANGED <<can_publish, connVars, m_stop, expired, recv_error_code,
                   nb_msgs, acquired, late>>

\* The condition is signalled.
Signal(p) ==
    conn' = [conn EXCEPT ![p] = IF @ = "waiting" THEN "check" ELSE @]

\* Mutant: the signal goes ahead of the error.
interrupt_signal(p) ==
    /\ RecvGoto(p, "interrupt", "error")
    /\ m_stop' = [m_stop EXCEPT ![p] = TRUE]
    /\ Signal(p)
    /\ UNCHANGED <<can_publish, ret, seen, elapsed, expired, pending_error,
                   recv_error_code, nb_msgs, acquired, late>>

\* trd->interrupt().
interrupt(p) ==
    /\ RecvGoto(p, "interrupt", "error")
    /\ m_stop' = [m_stop EXCEPT ![p] = TRUE]
    /\ UNCHANGED <<can_publish, connVars, expired, pending_error,
                   recv_error_code, nb_msgs, acquired, late>>

\* pumper->interrupt(ret): the code is stored ...
set_error(p) ==
    /\ RecvGoto(p, "error", "signal")
    /\ recv_error_code' = [recv_error_code EXCEPT ![p] = pending_error[p]]
    /\ UNCHANGED <<can_publish, connVars, m_stop, expired, pending_error,
                   nb_msgs, acquired, late>>

\* ... then the condition is signalled.
signal_error(p) ==
    /\ RecvGoto(p, "signal", "bottom")
    /\ Signal(p)
    /\ UNCHANGED <<can_publish, ret, seen, elapsed, m_stop, expired,
                   pending_error, recv_error_code, nb_msgs, acquired, late>>

\* do_cycle only returns an error; on_stop signals, cycle returns that error,
\* and threadLoop calls cycle again for as long as it returns one.
CycleResult(p) == "error"

cycle_end(p) ==
    /\ RecvGoto(p, "bottom",
                IF CycleResult(p) = "success" THEN "exited" ELSE "top")
    /\ Signal(p)
    /\ UNCHANGED <<can_publish, ret, seen, elapsed, m_stop, expired,
                   pending_error, recv_error_code, nb_msgs, acquired, late>>

-----------------------------------------------------------------------------
ConnNext(p) ==
    \/ can_publish_check(p) \/ on_publish(p) \/ start(p)
    \/ pull(p) \/ wait(p) \/ cond_timedwait(p) \/ WaitTimeout(p)
    \/ error_code(p) \/ count(p) \/ stop(p) \/ release_publish(p)

\* The steps of the receive thread that do not wait for the peer.
RecvNext(p) ==
    \/ recv_pull(p) \/ interrupt(p) \/ set_error(p) \/ signal_error(p)
    \/ cycle_end(p)

\* What the peer, or an operator, does.
Peer(p) ==
    \/ \E result \in {"ok", "failed", "republish"} : consume(p, result)
    \/ recv_message_error(p)
    \/ expire(p)

Next == \E p \in Conn : ConnNext(p) \/ RecvNext(p) \/ Peer(p)

Spec == Init /\ [][Next]_vars

\* Both threads are system threads and run, and a timed wait ends; nothing is
\* assumed of the peer.
Fairness == \A p \in Conn : WF_vars(ConnNext(p)) /\ WF_vars(RecvNext(p))

FairSpec == Spec /\ Fairness

-----------------------------------------------------------------------------
(* Properties. *)

Ended(p) == conn[p] \in {"stop", "join", "release", "closed"}

\* An error of the receive thread reaches the connection's thread, even when
\* its signal came between the test and the wait and woke nobody.
ErrorSeen == \A p \in Conn : recv_error_code[p] # "ok" ~> Ended(p)

\* A publisher that falls silent does not hold the connection's loop forever.
SilenceEnds == \A p \in Conn : conn[p] = "loop" ~> Ended(p)

\* A connection gives up for silence only after a wait that ran its whole
\* time: no wake-up that carries an error is taken for a timeout.
NoFalseTimeout == \A p \in Conn : ret[p] = "timeout" => elapsed[p]

\* Once stop() was called the receive thread hands at most the message it was
\* already waiting for to the source.
AtMostOneLate == \A p \in Conn : late[p] <= 1

\* "can publish, true when is not streaming": at most one connection
\* publishes the stream.
SinglePublisher == Cardinality({p \in Conn : acquired[p]}) <= 1
=============================================================================
