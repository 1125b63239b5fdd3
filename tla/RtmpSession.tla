---------------------------- MODULE RtmpSession -----------------------------
(***************************************************************************)
(* Connections of the server from the handshake to the service of a        *)
(* stream: SrsRtmpConn over SrsRtmpServer on one side, SrsRtmpClient (and, *)
(* as external scripts, the players and encoders the server tells apart)   *)
(* on the other.  A channel carries whole messages in order; chunks are    *)
(* ChunkProtocol's concern, bytes RtmpPackets', the threads of a session   *)
(* that serves PublishSession's and PlaySession's.  Those sessions never   *)
(* return (the receive thread is never joined), so neither does one here:  *)
(* it ends in "join".                                                      *)
(***************************************************************************)
EXTENDS Handshake, SourcePool

CONSTANTS
    Ssl,         \* the builds of the server: with SRS_AUTO_SSL or without
    Schemas,     \* Conn -> how its client may shake hands: with schema 0 or 1
                 \* of c1, Simple, or Encrypted (RTMPE, c0 is not 3)
    Offsets,     \* pairs of offsets, of the key and of the digest
    Kinds,       \* which client each connection has: functions on Conn
    EdgeToken    \* the vhost asks its origin about the token

Simple    == 2
Encrypted == 3

\* The clients there are, see ScriptOf.
ClientKind == {"play", "direct", "flash", "fmle", "haivision", "idle", "nameless", "nowhere"}

ASSUME SessionAssumption ==
    /\ Ssl \subseteq BOOLEAN /\ EdgeToken \in BOOLEAN
    /\ Offsets \subseteq Nat \X Nat
    /\ Kinds \subseteq [Conn -> ClientKind]

VARIABLES
    c2s, s2c,     \* the two channels of each connection
    client,       \* the client of each connection
    conn,         \* SrsRtmpConn: program counter, type, result, handshake bytes
    can_publish   \* of each source, named by its creator

sessionVars == <<c2s, s2c, client, conn, can_publish>>
vars == <<poolVars, sessionVars>>

-----------------------------------------------------------------------------
(* Messages. *)

Msg(name, tid, arg) == [name |-> name, tid |-> tid, arg |-> arg]
Bytes(name, b)      == [name |-> name, tid |-> 0, arg |-> b]
Control == Msg("control", 0, None)       \* acknowledgement, sizes, user control
Media   == Msg("media", 0, None)
Result(tid, body) == Msg("_result", tid, body)
Status(code)      == Msg("onStatus", 0, code)

FMLEStart == {"releaseStream", "FCPublish", "FCUnpublish"}
IsCommandName(n) == n \notin {"control", "media"}

\* What decode_message makes of a message: a result is decoded as the answer
\* to the request of that transaction id, everything else by its name.
ClassOf(requests, m) ==
    IF m.name # "_result" THEN IF m.name = "onStatus" THEN m.arg ELSE m.name
    ELSE IF m.tid \notin DOMAIN requests THEN "undecodable"
    ELSE CASE requests[m.tid] = "connect" -> "ConnectAppRes"
           [] requests[m.tid] = "createStream" -> "CreateStreamRes"
           [] requests[m.tid] \in FMLEStart -> "FMLEStartRes"
           [] OTHER -> "CallRes"

\* on_send_packet: the requests whose answers will be decoded (other clients
\* remember their calls too).
Remember(requests, m) ==
    IF m.tid = 0 THEN requests
    ELSE [t \in DOMAIN requests \cup {m.tid} |->
             IF t = m.tid THEN m.name ELSE requests[t]]

-----------------------------------------------------------------------------
(* The clients. *)

Send(m)      == [op |-> "send", what |-> m]
Expect(what) == [op |-> "expect", what |-> Msg(what, 0, None)]

\* connect_app, create_stream, play, publish and fmle_publish of
\* SrsRtmpClient.
connect_app(app) ==
    <<Send(Msg("connect", 1, app)), Send(Control), Expect("ConnectAppRes")>>
create_stream(tid) ==
    <<Send(Msg("createStream", tid, None)), Expect("CreateStreamRes")>>
play(u)    == <<Send(Msg("play", 0, u)), Send(Control), Send(Control)>>
publish(u) == <<Send(Control), Send(Msg("publish", 0, u))>>
fmle_publish(u) ==
    <<Send(Msg("releaseStream", 2, u)), Send(Msg("FCPublish", 3, u))>>
        \o create_stream(4) \o <<Send(Msg("publish", 0, u))>>

\* What other clients do: the Haivision encoder asks for a bandwidth check
\* and names its stream after createStream; a player may play at once.
haivision_publish(u) ==
    <<Send(Msg("_checkbw", 2, None))>> \o create_stream(3)
        \o <<Send(Msg("FCPublish", 4, u)), Send(Msg("publish", 0, u))>>
Started == <<Expect("Start")>>
EndPlay == <<Send(Msg("pause", 0, None)), Send(Msg("getLength", 9, None)),
             Send(Msg("closeStream", 0, None))>>

ScriptOf(kind, u) ==
    CASE kind = "play"      -> connect_app("live") \o create_stream(2) \o play(u)
                                   \o Started \o EndPlay
      [] kind = "direct"    -> connect_app("live") \o play(u) \o Started
      [] kind = "flash"     -> connect_app("live") \o create_stream(2)
                                   \o publish(u) \o Started
                                   \o <<Send(Media), Send(Msg("closeStream", 0, None))>>
      [] kind = "fmle"      -> connect_app("live") \o fmle_publish(u) \o Started
                                   \o <<Send(Media), Send(Msg("FCUnpublish", 5, u))>>
      [] kind = "haivision" -> connect_app("live") \o haivision_publish(u)
                                   \o Started \o <<Send(Media)>>
      [] kind = "idle"      -> connect_app("live")
      [] kind = "nameless"  -> connect_app("live") \o play(None) \o Started
      [] kind = "nowhere"   -> connect_app(None)

Publishes(kind) == kind \in {"flash", "fmle", "haivision"}
Intended(kind) == IF kind = "direct" THEN "play" ELSE kind

Client(c) == client[c]
Signs(c)  == Client(c).schema \in {0, 1}
Script(c) == ScriptOf(Client(c).kind, Client(c).url)
AtEnd(c)  == Client(c).pos > Len(Script(c))
Op(c)     == IF AtEnd(c) THEN [op |-> "end", what |-> Control]
             ELSE Script(c)[Client(c).pos]

\* SrsRtmpClient::handshake: c0c1.
ClientC0C1(c) ==
    /\ Client(c).state = "c0c1"
    /\ \E schema \in Schemas[c], o \in Offsets :
        /\ c2s' = [c2s EXCEPT ![c] = Append(@, Bytes("c0c1",
               [ClientHello(schema \in {0, 1}, schema, o) EXCEPT
                   !.plain = IF schema = Encrypted THEN 6 ELSE @]))]
        /\ client' = [client EXCEPT ![c].state = "s0s1s2", ![c].schema = schema]
    /\ UNCHANGED <<poolVars, s2c, conn, can_publish>>

\* Then s0s1s2 is read and answered with c2.
ClientC2(c) ==
    /\ Client(c).state = "s0s1s2" /\ s2c[c] # <<>>
    /\ LET s == Head(s2c[c]).arg
       IN  c2s' = [c2s EXCEPT ![c] = Append(@, Bytes("c2",
               ClientAnswer(Signs(c), Client(c).schema, s.s1)))]
    /\ s2c' = [s2c EXCEPT ![c] = Tail(@)]
    /\ client' = [client EXCEPT ![c].state = "run"]
    /\ UNCHANGED <<poolVars, conn, can_publish>>

\* How the hands were shaken is forgotten with the first message.
ClientSend(c) ==
    /\ Client(c).state = "run" /\ Op(c).op = "send"
    /\ c2s' = [c2s EXCEPT ![c] = Append(@, Op(c).what)]
    /\ client' = [client EXCEPT ![c].pos = @ + 1, ![c].schema = Simple,
                                ![c].requests = Remember(@, Op(c).what)]
    /\ UNCHANGED <<poolVars, s2c, conn, can_publish>>

\* expect_message: a message that is not the expected one is dropped, one
\* that cannot be decoded ends the client.
ClientExpect(c) ==
    /\ Client(c).state = "run" /\ Op(c).op = "expect"
    /\ s2c[c] # <<>>
    /\ LET class == ClassOf(Client(c).requests, Head(s2c[c]))
       IN  client' = IF class = Op(c).what.name
                     THEN [client EXCEPT ![c].pos = @ + 1]
                     ELSE IF class = "undecodable"
                     THEN [client EXCEPT ![c].state = "failed"] ELSE client
    /\ s2c' = [s2c EXCEPT ![c] = Tail(@)]
    /\ UNCHANGED <<poolVars, c2s, conn, can_publish>>

\* read_fully of s0s1s2, as read_short below: the client gives up.
ClientReadShort(c) ==
    /\ Client(c).state = "s0s1s2" /\ s2c[c] # <<>>
    /\ s2c' = [s2c EXCEPT ![c] = Tail(@)]
    /\ client' = [client EXCEPT ![c].state = "left"]
    /\ UNCHANGED <<poolVars, c2s, conn, can_publish>>

\* Nothing to send before something else arrives.
Idle(c) == AtEnd(c) \/ (Op(c).op = "expect" /\ s2c[c] = <<>>)

\* The connection was closed, by its thread or with the process, while the
\* client waits.
ClientRefused(c) ==
    /\ conn[c].pc = "closed" \/ ~Alive
    /\ \/ Client(c).state = "s0s1s2" /\ s2c[c] = <<>>
       \/ Client(c).state = "run" /\ Idle(c)
    /\ client' = [client EXCEPT ![c].state = "refused"]
    /\ UNCHANGED <<poolVars, c2s, s2c, conn, can_publish>>

\* The client goes away; what it sent before still arrives.
ClientLeave(c) ==
    /\ Client(c).state = "run"
    /\ client' = [client EXCEPT ![c].state = "left"]
    /\ UNCHANGED <<poolVars, c2s, s2c, conn, can_publish>>

-----------------------------------------------------------------------------
(* The server. *)

Pc(c) == conn[c].pc
To(c, pc) == conn' = [conn EXCEPT ![c].pc = pc]
Close(c, ret) == conn' = [conn EXCEPT ![c].pc = "closed", ![c].ret = ret]
Answer(c, ms) == s2c' = [s2c EXCEPT ![c] = @ \o ms]
Silent == UNCHANGED s2c

\* The messages of SrsRtmpServer's answers, in the order they are written.
set_window_ack_size   == <<Control>>
set_peer_bandwidth    == <<Control>>
set_chunk_size        == <<Control>>
response_connect_app  == <<Result(1, "ConnectAppRes")>>
on_bw_done            == <<Msg("onBWDone", 0, None)>>
start_play            == <<Control, Status("Reset"), Status("Start"),
                           Msg("sampleAccess", 0, None), Status("Data")>>
on_play_client_pause  == <<Status("Pause"), Control>>
start_flash_publish   == <<Status("Start")>>
fmle_unpublish(tid)   == <<Msg("onFCUnpublish", 0, None),
                           Result(tid, "FMLEStartRes"), Status("Unpublish")>>

Take(c) == c2s' = [c2s EXCEPT ![c] = Tail(@)]

\* A message arrives where the connection waits for one.
Arrived(c) == IF c2s[c] = <<>> THEN {} ELSE {Head(c2s[c])}
Received(c, pc) == Pc(c) = pc /\ Take(c)

\* SrsRtmpServer::handshake: c0c1 is read once, by whichever handshake is
\* tried first.
handshake(c) ==
    /\ \E m \in Arrived(c), ssl \in Ssl, o \in Offsets :
        /\ Received(c, "handshake")
        /\ \E answer \in {ServerAnswer(ssl, m.arg, o)} :
            IF answer.ok
            THEN /\ Answer(c, <<Bytes("s0s1s2", answer)>>)
                 /\ conn' = [conn EXCEPT ![c].pc = "c2",
                              ![c].hello = [ssl |-> ssl, s1 |-> answer.s1]]
            ELSE Close(c, "plain") /\ Silent
    /\ UNCHANGED <<poolVars, client, can_publish>>

\* The last read of either handshake; c2 is not verified.
read_c2(c) ==
    /\ Arrived(c) # {} /\ Received(c, "c2")
    /\ conn' = [conn EXCEPT ![c].pc = "connect_app", ![c].hello = None]
    /\ Silent
    /\ UNCHANGED <<poolVars, client, can_publish>>

\* SrsStSocket::read_fully of c0c1 or c2: it reads once, and a block of which
\* only a part is there fails the handshake.
read_short(c) ==
    /\ Arrived(c) # {} /\ Pc(c) \in {"handshake", "c2"} /\ Take(c)
    /\ Close(c, "short") /\ Silent
    /\ UNCHANGED <<poolVars, client, can_publish>>

\* connect_app and the rest of do_cycle before service_cycle: an url without
\* an app is refused.
server_connect_app(c) ==
    /\ \E m \in Arrived(c) :
        /\ Received(c, "connect_app")
        /\ \/ m.name # "connect" /\ UNCHANGED conn
           \/ m.name = "connect" /\ m.arg = None /\ Close(c, "tcurl")
           \/ m.name = "connect" /\ m.arg # None /\ To(c, "service_cycle")
    /\ Silent
    /\ UNCHANGED <<poolVars, client, can_publish>>

\* service_cycle up to its loop: window, bandwidth, chunk size, the answer to
\* connect, onBWDone.
service_cycle(c) ==
    /\ Pc(c) = "service_cycle"
    /\ Answer(c, set_window_ack_size \o set_peer_bandwidth \o set_chunk_size
                    \o response_connect_app \o on_bw_done)
    /\ To(c, "identify")
    /\ UNCHANGED <<poolVars, c2s, client, can_publish>>

\* check_edge_token_traverse_auth: no origin accepts the token.
token_refused(c) ==
    /\ EdgeToken /\ Pc(c) = "service_cycle"
    /\ Answer(c, set_window_ack_size \o set_peer_bandwidth)
    /\ Close(c, "token")
    /\ UNCHANGED <<poolVars, c2s, client, can_publish>>

\* stream_service_cycle once the client is known: an empty stream is refused.
Identified(c, type, u) ==
    IF u = None
    THEN Close(c, "stream") /\ UNCHANGED poolVars
    ELSE /\ conn' = [conn EXCEPT ![c].pc = "start", ![c].type = type]
         /\ request(c, u)
Stay(c, pc) == To(c, pc) /\ UNCHANGED poolVars

identify_client(c) ==
    \E m \in Arrived(c) :
        /\ Received(c, "identify")
        /\ CASE m.name = "createStream" ->
                  Answer(c, <<Result(m.tid, "CreateStreamRes")>>)
                  /\ Stay(c, "identify_create_stream")
             [] m.name \in FMLEStart ->
                  Answer(c, <<Result(m.tid, "FMLEStartRes")>>)
                  /\ Identified(c, "fmle", m.arg)
             [] m.name = "play" -> Silent /\ Identified(c, "play", m.arg)
             [] m.name \in {"_checkbw", "getLength"} ->
                  Answer(c, <<Result(m.tid, "CallRes")>>) /\ Stay(c, "identify")
             [] OTHER -> Silent /\ Stay(c, "identify")
        /\ UNCHANGED <<client, can_publish>>

\* Mutant: FCPublish after createStream makes an FMLE encoder of the client.
identify_create_stream_as_fmle(c) ==
    \E m \in Arrived(c) :
        /\ Received(c, "identify_create_stream")
        /\ CASE m.name = "createStream" ->
                  Answer(c, <<Result(m.tid, "CreateStreamRes")>>)
                  /\ Stay(c, "identify_create_stream")
             [] m.name \in FMLEStart ->
                  Answer(c, <<Result(m.tid, "FMLEStartRes")>>)
                  /\ Identified(c, "fmle", m.arg)
             [] m.name = "play" -> Silent /\ Identified(c, "play", m.arg)
             [] m.name = "publish" -> Silent /\ Identified(c, "flash", m.arg)
             [] OTHER -> Silent /\ Stay(c, "identify_create_stream")
        /\ UNCHANGED <<client, can_publish>>

\* After createStream: a call is not answered here.
identify_create_stream_client(c) ==
    \E m \in Arrived(c) :
        /\ Received(c, "identify_create_stream")
        /\ CASE m.name = "createStream" ->
                  Answer(c, <<Result(m.tid, "CreateStreamRes")>>)
                  /\ Stay(c, "identify_create_stream")
             [] m.name \in FMLEStart ->
                  Answer(c, <<Result(m.tid, "FMLEStartRes")>>)
                  /\ Identified(c, "haivision", m.arg)
             [] m.name = "play" -> Silent /\ Identified(c, "play", m.arg)
             [] m.name = "publish" -> Silent /\ Identified(c, "flash", m.arg)
             [] OTHER -> Silent /\ Stay(c, "identify_create_stream")
        /\ UNCHANGED <<client, can_publish>>

\* SrsSource::fetch_or_create.
find_source(c) ==
    /\ Pc(c) = "start" /\ fetch_or_create(c)
    /\ UNCHANGED sessionVars

\* The end of stream_service_cycle: each type starts in its own way.
start(c) ==
    /\ Pc(c) = "start" /\ thread[c] = "serve"
    /\ \/ conn[c].type = "play" /\ Answer(c, start_play) /\ To(c, "playing")
       \/ /\ conn[c].type = "flash"
          /\ Answer(c, start_flash_publish) /\ To(c, "acquire")
       \/ conn[c].type = "fmle" /\ Silent /\ To(c, "FCPublish")
       \/ conn[c].type = "haivision" /\ Silent /\ To(c, "publish")
    /\ UNCHANGED <<poolVars, c2s, client, can_publish>>

\* Mutant: the transaction of the answer is the one after it.
await_FCPublish_stale(c) ==
    /\ \E m \in Arrived(c) :
        /\ Received(c, "FCPublish")
        /\ IF m.name \in FMLEStart
           THEN Answer(c, <<Result(m.tid + 1, "FMLEStartRes")>>)
                /\ To(c, "createStream")
           ELSE Silent /\ UNCHANGED conn
    /\ UNCHANGED <<poolVars, client, can_publish>>

\* start_fmle_publish: what is not awaited is dropped.
await_FCPublish(c) ==
    /\ \E m \in Arrived(c) :
        /\ Received(c, "FCPublish")
        /\ IF m.name \in FMLEStart
           THEN Answer(c, <<Result(m.tid, "FMLEStartRes")>>)
                /\ To(c, "createStream")
           ELSE Silent /\ UNCHANGED conn
    /\ UNCHANGED <<poolVars, client, can_publish>>

\* Mutant: createStream is not answered.
await_createStream_silent(c) ==
    /\ \E m \in Arrived(c) :
        /\ Received(c, "createStream")
        /\ IF m.name = "createStream"
           THEN Silent
                /\ To(c, "publish")
           ELSE Silent /\ UNCHANGED conn
    /\ UNCHANGED <<poolVars, client, can_publish>>

await_createStream(c) ==
    /\ \E m \in Arrived(c) :
        /\ Received(c, "createStream")
        /\ IF m.name = "createStream"
           THEN Answer(c, <<Result(m.tid, "CreateStreamRes")>>)
                /\ To(c, "publish")
           ELSE Silent /\ UNCHANGED conn
    /\ UNCHANGED <<poolVars, client, can_publish>>

\* start_haivision_publish, and the end of start_fmle_publish: publishing is
\* said to have started before the stream is acquired.
await_publish(c) ==
    /\ \E m \in Arrived(c) :
        /\ Received(c, "publish")
        /\ IF m.name = "publish"
           THEN Answer(c, <<Msg("onFCPublish", 0, None), Status("Start")>>)
                /\ To(c, "acquire")
           ELSE Silent /\ UNCHANGED conn
    /\ UNCHANGED <<poolVars, client, can_publish>>

\* Mutant: a stream that is taken is waited for.
acquire_publish_waits(c) ==
    /\ Pc(c) = "acquire" /\ can_publish[source[c]]
    /\ To(c, "on_publish")
    /\ UNCHANGED <<poolVars, c2s, s2c, client, can_publish>>

\* acquire_publish in two steps, as other threads see it.
acquire_publish(c) ==
    /\ Pc(c) = "acquire"
    /\ IF can_publish[source[c]] THEN To(c, "on_publish") ELSE Close(c, "busy")
    /\ UNCHANGED <<poolVars, c2s, s2c, client, can_publish>>

on_publish(c) ==
    /\ Pc(c) = "on_publish"
    /\ can_publish' = [can_publish EXCEPT ![source[c]] = FALSE]
    /\ To(c, "publishing")
    /\ UNCHANGED <<poolVars, c2s, s2c, client>>

\* handle_publish_message, in the receive thread: any command ends a flash
\* publisher, FCUnpublish an encoder.
publishing(c) ==
    /\ \E m \in Arrived(c) :
        /\ Received(c, "publishing")
        /\ CASE IsCommandName(m.name) /\ conn[c].type = "flash" ->
                  Silent /\ To(c, "join")
             [] m.name \in FMLEStart /\ conn[c].type # "flash" ->
                  Answer(c, fmle_unpublish(m.tid)) /\ To(c, "join")
             [] OTHER -> Silent /\ UNCHANGED conn
    /\ UNCHANGED <<poolVars, client, can_publish>>

\* process_play_control_msg.
playing(c) ==
    /\ \E m \in Arrived(c) :
        /\ Received(c, "playing")
        /\ CASE m.name = "closeStream" -> Silent /\ To(c, "join")
             [] m.name \in {"_checkbw", "getLength"} ->
                  Answer(c, IF m.tid > 0 THEN <<Result(m.tid, "CallRes")>> ELSE <<>>)
                  /\ UNCHANGED conn
             [] m.name = "pause" ->
                  Answer(c, on_play_client_pause) /\ UNCHANGED conn
             [] OTHER -> Silent /\ UNCHANGED conn
    /\ UNCHANGED <<poolVars, client, can_publish>>

\* Where the connection's thread waits for a message.
Waiting == {"handshake", "c2", "connect_app", "identify",
            "identify_create_stream", "FCPublish", "createStream", "publish"}

\* The read fails when the client went away, and only then: the receive timeout
\* is stored by the socket and never used.
Gone(c) == Client(c).state \in {"left", "failed"}
recv_failed(c) ==
    /\ Pc(c) \in Waiting /\ c2s[c] = <<>> /\ Gone(c)
    /\ Close(c, "recv")
    /\ UNCHANGED <<poolVars, c2s, s2c, client, can_publish>>

-----------------------------------------------------------------------------
Init ==
    /\ PoolInit
    /\ c2s = [c \in Conn |-> <<>>] /\ s2c = [c \in Conn |-> <<>>]
    /\ \E kinds \in Kinds, urls \in [Conn -> Url] :
        client = [c \in Conn |-> [kind |-> kinds[c], url |-> urls[c],
                                  schema |-> Simple, state |-> "c0c1",
                                  pos |-> 1, requests |-> <<>>]]
    /\ conn = [c \in Conn |-> [pc |-> "handshake", type |-> "unknown",
                               ret |-> "ok",
                               hello |-> None]]
    /\ can_publish = [c \in Conn |-> TRUE]

ClientNext(c) ==
    \/ ClientC0C1(c) \/ ClientC2(c) \/ ClientReadShort(c) \/ ClientSend(c)
    \/ ClientExpect(c) \/ ClientRefused(c)

ServerNext(c) ==
    /\ Alive
    /\ \/ handshake(c) \/ read_c2(c) \/ read_short(c) \/ server_connect_app(c)
       \/ service_cycle(c) \/ token_refused(c) \/ identify_client(c)
       \/ identify_create_stream_client(c) \/ find_source(c) \/ start(c)
       \/ await_FCPublish(c) \/ await_createStream(c) \/ await_publish(c)
       \/ acquire_publish(c) \/ on_publish(c) \/ publishing(c) \/ playing(c)
       \/ recv_failed(c)

Next == \E c \in Conn : ClientNext(c) \/ ClientLeave(c) \/ ServerNext(c)

Spec == Init /\ [][Next]_vars

\* The threads of the server run, and so does a client that has not left; it
\* reads what it is sent, so that no write blocks for ever.
FairSpec ==
    Spec /\ \A c \in Conn : WF_vars(ClientNext(c)) /\ WF_vars(ServerNext(c))

-----------------------------------------------------------------------------
(* Properties. *)

\* A client and a server that both sign end the handshake with s1, s2 and c2
\* that verify, in the schema the client chose, whatever the offsets; with any
\* other pair the server falls back to the c0c1 it has already read, s2 is c1
\* and nothing of the handshake is left for the messages that follow.
HandshakeAgreed == \A c \in Conn :
    /\ Pc(c) = "c2" /\ c2s[c] # <<>> /\ Client(c).pos = 1 =>
        LET m  == Head(c2s[c])
            s1 == parse(conn[c].hello.s1, Client(c).schema)
        IN  /\ m.name = "c2"
            /\ IF ~Signs(c) THEN m.arg = conn[c].hello.s1
               ELSE /\ c2s2_validate(m.arg, s1, ClientKey)
                    /\ conn[c].hello.ssl => s1_validate_digest(s1)
    /\ Pc(c) \notin {"handshake", "c2"} =>
        \A i \in DOMAIN c2s[c] : c2s[c][i].name \notin {"c0c1", "c2"}

Serving(c) == Pc(c) \in {"start", "FCPublish", "createStream", "publish",
                         "acquire", "on_publish", "publishing", "playing", "join"}
ToldStart(c) == \E i \in 1..Client(c).pos - 1 :
    Script(c)[i].op = "expect" /\ Script(c)[i].what.name = "Start"

\* The server serves a client as the kind it is and with the stream it named,
\* whatever it sent in between; a client that was told "Start" is served, or
\* lost the stream to another publisher.
ServedAsAsked == \A c \in Conn :
    /\ Serving(c) => /\ conn[c].type = Intended(Client(c).kind)
                     /\ url[c] = Client(c).url
    /\ ToldStart(c) => Serving(c) \/ conn[c].ret = "busy"

\* Every answer in flight is to a request the client remembers, and is what
\* the client will decode it as.
AnswersMatch == \A c \in Conn :
    /\ Client(c).state # "failed"
    /\ \A i \in DOMAIN s2c[c] : s2c[c][i].name = "_result" =>
          ClassOf(Client(c).requests, s2c[c][i]) = s2c[c][i].arg

\* The server gives a connection up only for a reason: it finds c0 not to be
\* plain text only when it is not, a stream missing only when the client named
\* none, and a stream busy only when some other connection publishes it.
RefusedForReason == \A c \in Conn :
    /\ conn[c].ret = "plain"  => Client(c).schema = Encrypted
    /\ conn[c].ret = "stream" => Client(c).kind = "nameless"
    /\ conn[c].ret = "busy" => \E d \in Conn \ {c} :
          url[d] = url[c] /\ Pc(d) \in {"publishing", "join"}

\* A connection's thread never waits for a message while the client waits for
\* the server: no timeout would end it.
NeverBothWait == \A c \in Conn :
    Pc(c) \in Waiting /\ c2s[c] = <<>> /\ Client(c).state = "run" /\ Idle(c)
        => AtEnd(c)

\* Every client gets to the end of what it wanted to do, or learns that the
\* connection was closed, unless it gives up itself.  A client that has said
\* all it wanted is left alone: it keeps the thread that serves it, or, when it
\* asked for nothing, that identifies it.
ClientEnds == \A c \in Conn :
    Client(c).state = "c0c1" ~>
        \/ Client(c).state \in {"refused", "left"}
        \/ AtEnd(c) /\ Pc(c) \in {"identify", "playing", "publishing", "join"}
=============================================================================
