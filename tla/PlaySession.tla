---------------------------- MODULE PlaySession ----------------------------
(***************************************************************************)
(* One playing connection: its own thread (SrsRtmpConn::playing and        *)
(* do_playing) and the isolated receive thread (SrsRecvThread driven by    *)
(* SrsQueueRecvThread) that reads the client's control messages into a     *)
(* queue.  The queue is a plain vector shared by the two threads.  Media   *)
(* is abstract: the consumer either has packets or it has none; what they  *)
(* are is LiveSource's concern.                                            *)
(***************************************************************************)
EXTENDS Naturals, Sequences

CONSTANT MaxSent   \* bound: control messages the client sends

ASSUME PlayAssumption == MaxSent \in Nat

VARIABLES
    conn,             \* program counter of the connection's thread
    msg,              \* the control message it is processing
    ret,              \* its local result
    paused,           \* SrsConsumer::paused
    responses,        \* answers sent to call messages
    expired,          \* m_stop of the connection's thread
    recv,             \* program counter of the receive thread
    held,             \* the message the receive thread has read
    queue,            \* the vector of received messages
    recv_error_code,
    m_stop,           \* m_stop of the receive thread
    auto_response,    \* the protocol's auto response flag
    sent,             \* history: control messages received from the client
    room              \* the socket takes what is written: the client reads it,
                      \* or the buffers between them have room

connVars == <<conn, msg, ret, paused, responses>>
recvVars == <<recv, held, recv_error_code, m_stop, auto_response, sent>>
playVars == <<connVars, expired, recvVars, queue, room>>

\* What a control message is to process_play_control_msg; a call carries a
\* transaction id that asks for an answer, or not.
Control == {"close", "call", "call_noreply", "pause", "unpause", "media",
            "undecodable"}
None == "none"

ConnStep == {"loop", "drain", "process", "answer", "error", "dump", "send",
             "stop", "join"}
RecvStep == {"start", "top", "interrupted", "read", "push", "interrupt",
             "error", "bottom", "exited"}
Ret == {"ok", "disconnect", "close", "failed", "peer_closed", "send_failed",
        "duration"}

\* The type invariant: the steps and locals of the two threads of a playing
\* connection, with a queue of real messages.
PlayTypeOK ==
    /\ conn \in ConnStep
    /\ msg \in Control \cup {None}
    /\ ret \in Ret
    /\ paused \in BOOLEAN
    /\ responses \in Nat
    /\ expired \in BOOLEAN
    /\ recv \in RecvStep
    /\ held \in Control \cup {None}
    /\ queue \in Seq(Control)
    /\ recv_error_code \in {"ok", "peer_closed"}
    /\ m_stop \in BOOLEAN
    /\ auto_response \in BOOLEAN
    /\ sent \in Nat
    /\ room \in BOOLEAN

\* playing has created the consumer and started the receive thread.
PlayInit ==
    /\ conn = "loop" /\ msg = None /\ ret = "ok"
    /\ paused = FALSE /\ responses = 0 /\ expired = FALSE
    /\ recv = "start" /\ held = None
    /\ queue = <<>>
    /\ recv_error_code = "ok" /\ m_stop = FALSE
    /\ auto_response = TRUE
    /\ sent = 0
    /\ room = TRUE

-----------------------------------------------------------------------------
(* do_playing. *)

Stop(r) == conn' = "stop" /\ ret' = r

pull ==
    /\ conn = "loop"
    /\ IF expired THEN Stop("disconnect") ELSE conn' = "drain" /\ UNCHANGED ret
    /\ UNCHANGED <<msg, paused, responses, expired, recvVars, queue, room>>

\* Mutant: the last message stays.
pump_but_one ==
    /\ conn = "drain"
    /\ IF Len(queue) <= 1
       THEN conn' = "error" /\ UNCHANGED <<msg, queue>>
       ELSE conn' = "process" /\ msg' = Head(queue) /\ queue' = Tail(queue)
    /\ UNCHANGED <<ret, paused, responses, expired, recvVars, room>>

\* while (!rtrd->empty()) pump(): the message leaves the queue before it is
\* processed.
pump ==
    /\ conn = "drain"
    /\ IF queue = <<>>
       THEN conn' = "error" /\ UNCHANGED <<msg, queue>>
       ELSE conn' = "process" /\ msg' = Head(queue) /\ queue' = Tail(queue)
    /\ UNCHANGED <<ret, paused, responses, expired, recvVars, room>>

\* process_play_control_msg: a call that asks for it, and a pause, is answered
\* first.
process_play_control_msg ==
    /\ conn = "process"
    /\ CASE msg \in {"call", "pause", "unpause"} ->
              conn' = "answer" /\ UNCHANGED <<msg, ret>>
         [] msg = "close" -> Stop("close") /\ msg' = None
         [] msg = "undecodable" -> Stop("failed") /\ msg' = None
         [] msg \in {"media", "call_noreply"} ->
              conn' = "drain" /\ msg' = None /\ UNCHANGED ret
    /\ UNCHANGED <<paused, responses, expired, recvVars, queue, room>>

\* The answer is written; the consumer of a pause is told after that.
answered ==
    /\ conn = "answer"
    /\ room
    /\ conn' = "drain"
    /\ msg' = None
    /\ responses' = responses + 1
    /\ paused' = IF msg = "call" THEN paused ELSE (msg = "pause")
    /\ UNCHANGED <<ret, expired, recvVars, queue, room>>

\* Mutant: the error is not looked at.
error_code_ignored ==
    /\ conn = "error"
    /\ conn' = "dump"
    /\ UNCHANGED <<msg, ret, paused, responses, expired, recvVars, queue,
                   room>>

error_code ==
    /\ conn = "error"
    /\ IF recv_error_code # "ok" THEN Stop(recv_error_code)
       ELSE conn' = "dump" /\ UNCHANGED ret
    /\ UNCHANGED <<msg, paused, responses, expired, recvVars, queue, room>>

\* dump_packets: nothing (the thread sleeps and loops), or packets to send.
dump_nothing ==
    /\ conn = "dump"
    /\ conn' = "loop"
    /\ UNCHANGED <<msg, ret, paused, responses, expired, recvVars, queue,
                   room>>

dump_packets ==
    /\ conn = "dump"
    /\ ~paused
    /\ conn' = "send"
    /\ UNCHANGED <<msg, ret, paused, responses, expired, recvVars, queue,
                   room>>

\* send_and_free_messages: writev returns when the socket has taken everything.
\* The send timeout is stored by the socket and never used.  The play may then
\* have exceeded its duration.
send_and_free_messages ==
    /\ conn = "send"
    /\ room
    /\ \/ conn' = "loop" /\ UNCHANGED ret
       \/ Stop("duration")
    /\ UNCHANGED <<msg, paused, responses, expired, recvVars, queue, room>>

\* trd.stop(): m_stop, then requestExitAndWait.
stop ==
    /\ conn = "stop"
    /\ conn' = "join"
    /\ m_stop' = TRUE
    /\ UNCHANGED <<msg, ret, paused, responses, expired, recv, held,
                   recv_error_code, auto_response, sent, queue, room>>

\* SrsConnection::expire, called by some other thread.
expire ==
    /\ ~expired
    /\ expired' = TRUE
    /\ UNCHANGED <<connVars, recvVars, queue, room>>

Writing == conn \in {"answer", "send"}

\* A write fails: the connection is broken.
write_error ==
    /\ Writing
    /\ Stop("send_failed")
    /\ msg' = None
    /\ UNCHANGED <<paused, responses, expired, recvVars, queue, room>>

\* The client stops reading until the buffers are full, or reads again.
ClientReads ==
    /\ room' = ~room
    /\ UNCHANGED <<connVars, expired, recvVars, queue>>

-----------------------------------------------------------------------------
(* SrsRecvThread::cycle with SrsQueueRecvThread as its pumper. *)

\* Mutant: the protocol keeps answering on its own.
on_start_auto ==
    /\ recv = "start"
    /\ recv' = "top"
    /\ UNCHANGED <<connVars, expired, held, recv_error_code, m_stop,
                   auto_response, sent, queue, room>>

on_start ==
    /\ recv = "start"
    /\ recv' = "top"
    /\ auto_response' = FALSE
    /\ UNCHANGED <<connVars, expired, held, recv_error_code, m_stop, sent,
                   queue, room>>

recv_pull ==
    /\ recv = "top"
    /\ recv' = IF m_stop THEN "bottom" ELSE "interrupted"
    /\ UNCHANGED <<connVars, expired, held, recv_error_code, m_stop,
                   auto_response, sent, queue, room>>

\* Mutant: never interrupted.
interrupted_never ==
    /\ recv = "interrupted"
    /\ recv' = "read"
    /\ UNCHANGED <<connVars, expired, held, recv_error_code, m_stop,
                   auto_response, sent, queue, room>>

\* interrupted(): wait while a received message is not processed yet.
interrupted ==
    /\ recv = "interrupted"
    /\ recv' = IF queue # <<>> THEN "top" ELSE "read"
    /\ UNCHANGED <<connVars, expired, held, recv_error_code, m_stop,
                   auto_response, sent, queue, room>>

recv_message(m) ==
    /\ recv = "read"
    /\ sent < MaxSent
    /\ sent' = sent + 1
    /\ held' = m
    /\ recv' = "push"
    /\ UNCHANGED <<connVars, expired, recv_error_code, m_stop, auto_response,
                   queue, room>>

recv_message_error ==
    /\ recv = "read"
    /\ recv' = "interrupt"
    /\ UNCHANGED <<connVars, expired, held, recv_error_code, m_stop,
                   auto_response, sent, queue, room>>

consume ==
    /\ recv = "push"
    /\ queue' = Append(queue, held)
    /\ held' = None
    /\ recv' = "top"
    /\ UNCHANGED <<connVars, expired, recv_error_code, m_stop, auto_response,
                   sent, room>>

\* trd->interrupt(), then pumper->interrupt(ret).
interrupt ==
    /\ recv = "interrupt"
    /\ recv' = "error"
    /\ m_stop' = TRUE
    /\ UNCHANGED <<connVars, expired, held, recv_error_code, auto_response,
                   sent, queue, room>>

set_error ==
    /\ recv = "error"
    /\ recv' = "bottom"
    /\ recv_error_code' = "peer_closed"
    /\ UNCHANGED <<connVars, expired, held, m_stop, auto_response, sent, queue,
                   room>>

\* on_stop; cycle returns an error, so threadLoop calls it again.
CycleResult == "error"

cycle_end ==
    /\ recv = "bottom"
    /\ recv' = IF CycleResult = "success" THEN "exited" ELSE "start"
    /\ auto_response' = TRUE
    /\ UNCHANGED <<connVars, expired, held, recv_error_code, m_stop, sent,
                   queue, room>>

-----------------------------------------------------------------------------
ConnNext ==
    \/ pull \/ pump \/ process_play_control_msg \/ error_code
    \/ dump_nothing \/ dump_packets \/ stop

\* The steps of the connection's thread that wait for the client to read.
Written == answered \/ send_and_free_messages

\* The steps of the receive thread that do not wait for the client.
RecvNext ==
    \/ on_start \/ recv_pull \/ interrupted \/ consume
    \/ interrupt \/ set_error \/ cycle_end

Peer ==
    \/ \E m \in Control : recv_message(m)
    \/ recv_message_error \/ write_error \/ ClientReads \/ expire

PlayNext == ConnNext \/ Written \/ RecvNext \/ Peer

PlaySpec == PlayInit /\ [][PlayNext]_playVars

\* Both threads run, and a write returns if there is room again and again.
\* Nothing is assumed of the client: it may stop reading for good, or be gone
\* without a write or a read ever failing.
PlayFairSpec ==
    PlaySpec /\ WF_playVars(ConnNext) /\ WF_playVars(RecvNext) /\ SF_playVars(Written)

-----------------------------------------------------------------------------
(* Properties. *)

Ended == conn \in {"stop", "join"}

\* The receive thread never runs ahead of the connection's thread by more than
\* one message: interrupted() is tested before every read.
AtMostOneQueued == Len(queue) <= 1

\* Reading never happens while the protocol may answer on its own: "the
\* isolate recv thread should never send any messages".
NoAutoResponseWhileReading ==
    recv \in {"top", "interrupted", "read", "push"} => ~auto_response

\* Once it holds a write to a client that does not read, the thread stays there
\* for as long as the client likes.
Held == Writing /\ ~room

\* Every control message that is received is processed, unless the session
\* ends before or a client that stopped reading holds the thread for ever.
ControlProcessed == queue # <<>> ~> queue = <<>> \/ Ended \/ []Held

\* A receive error ends the play, unless the thread is held in the same way:
\* nobody interrupts its write.
ErrorSeen == recv_error_code # "ok" ~> Ended \/ []Held
=============================================================================
