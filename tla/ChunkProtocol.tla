--------------------------- MODULE ChunkProtocol ---------------------------
(***************************************************************************)
(* Two connections of the server at the chunk level: a publisher, of any   *)
(* make, whose messages SrsProtocol reads, and a player to which the       *)
(* SrsProtocol of its connection writes what has been published.           *)
(***************************************************************************)
EXTENDS ChunkStream

CONSTANTS
    Cids,        \* the chunk stream ids that the publisher uses for media; 0 and 1
                 \* are none, they announce ids of two and three bytes
    MediaTypes,  \* MsgAudio, MsgVideo
    Times,       \* timestamps
    Lengths,     \* lengths of payloads
    ChunkSizes,  \* the chunk sizes that are set
    Windows,     \* the windows for which the publisher wants acknowledgements
    PlayerSid,   \* the stream id of the player
    MaxMessages, \* bound: messages of the publisher
    MaxWire      \* bound: it writes a chunk while no more than this is on its way

ASSUME ChunkProtocolAssumption ==
    /\ MaxMessages \in Nat /\ MaxWire \in Nat /\ PlayerSid \in Nat
    /\ \A c \in Cids : c \in Nat /\ c > 1
    /\ MediaTypes \subseteq {MsgAudio, MsgVideo}
    /\ Lengths \subseteq Nat \ {0}
    /\ \A n \in ChunkSizes : n \in Nat /\ n >= MinChunk
    /\ Windows \subseteq Nat
    /\ \A t \in Times : t \in Nat /\ (t >= ExtTime => t % TimeMod # 0)

VARIABLES
    peer,      \* the publisher: its chunk size, what it last sent on each cid,
               \* and how many messages it has begun
    wire,      \* its bytes on their way
    written,   \* how many it has written
    sent,      \* its messages, by cid
    srv,       \* the reader of its connection
    got,       \* the messages received from it, by cid
    latest,    \* the type of the last of them
    status,    \* "ok", or why a connection ended
    acked,     \* the acknowledgements sent to it
    queue,     \* messages for the player
    out,       \* the bytes to the player on their way
    out_chunk_size,
    responses, \* manual_response_queue of the player's connection
    player,    \* the reader of the player
    relayed,   \* the messages written for the player
    played     \* the messages read by the player

pubVars == <<peer, wire, written, sent>>
srvVars == <<srv, got, latest, acked>>
outVars == <<queue, out, out_chunk_size, responses, relayed>>
vars == <<pubVars, srvVars, outVars, player, played, status>>

AllCids == Cids \cup {CidProtocolControl}

-----------------------------------------------------------------------------
(* The publisher                                                           *)

(* The basic header: one, two or three bytes.                              *)
BasicHeader(fmt, cid) ==
    CASE cid < 64 -> <<64 * fmt + cid>>
      [] cid \in 64..319 -> <<64 * fmt, cid - 64>>
      [] OTHER -> <<64 * fmt + 1, (cid - 64) % 256, (cid - 64) \div 256>>

NewStream == [started |-> FALSE, ts |-> 0, delta |-> 0, msg |-> NoMsg, left |-> <<>>]

(* The formats in which the message m may follow the last on its cid: a    *)
(* full header, or the fields that differ from the last ones.  Deltas that *)
(* need an extended timestamp are not sent.                                *)
Formats(s, m) ==
    LET delta == m.ts - s.ts
        near  == s.started /\ delta \in 0..(ExtTime - 1) /\ m.sid = s.msg.sid
        alike == near /\ m.type = s.msg.type /\ Len(m.payload) = Len(s.msg.payload)
    IN  {0} \cup {f \in {1} : near \/ (~s.started /\ m.cid = CidProtocolControl /\ m.ts < ExtTime /\ m.sid = 0)}
        \cup {f \in {2} : alike}
        \cup {f \in {3} : alike /\ delta = s.delta /\ s.msg.ts < ExtTime}

(* The first chunk of a message.                                           *)
FirstChunk(s, m, fmt, n) ==
    LET time == IF fmt = 0 THEN m.ts ELSE m.ts - s.ts
        head == Slice(<<Min({time, ExtTime}), Len(m.payload), m.type, m.sid>>, 0, MessageHeaderSize[fmt + 1])
    IN  BasicHeader(fmt, m.cid) \o head \o (IF fmt = 0 THEN Extension(time) ELSE <<>>)
        \o Slice(m.payload, 0, Min({n, Len(m.payload)}))

(* A later chunk; whether it repeats the extended timestamp depends on the *)
(* make of the publisher.                                                  *)
LaterChunk(repeats, s, n) ==
    BasicHeader(3, s.msg.cid)
    \o (IF repeats /\ s.extended THEN Extension(s.msg.ts) ELSE <<>>)
    \o Slice(s.left, 0, Min({n, Len(s.left)}))

Rest(s, n) == SubSeq(s, n + 1, Len(s))

Write(chunk) == Len(wire) <= MaxWire /\ wire' = wire \o chunk /\ written' = written + Len(chunk)

Begin(m, fmt) ==
    LET s == peer.cids[m.cid]
    IN  /\ status = "ok" /\ peer.begun < MaxMessages
        /\ s.left = <<>>
        /\ fmt \in Formats(s, m)
        /\ Write(FirstChunk(s, m, fmt, peer.chunk_size))
        /\ peer' = [peer EXCEPT
               !.cids[m.cid] = [started |-> TRUE, ts |-> m.ts, delta |-> IF fmt = 0 THEN m.ts ELSE m.ts - s.ts,
                                msg |-> m, left |-> Rest(m.payload, peer.chunk_size),
                                extended |-> fmt = 0 /\ m.ts >= ExtTime],
               !.chunk_size = IF m.type = MsgSetChunkSize THEN m.payload[1] ELSE @,
               !.begun = @ + 1]
        /\ sent' = [sent EXCEPT ![m.cid] = Append(@, [m EXCEPT !.ts = @ % TimeMod])]
        /\ UNCHANGED <<srvVars, outVars, player, played, status>>

(* The payloads differ, and none spells a timestamp.                       *)
Payload(n) == [i \in 1..n |-> TimeMod * (8 * peer.begun + i)]

BeginMedia ==
    \E cid \in Cids, type \in MediaTypes, ts \in Times, n \in Lengths, fmt \in 0..3 :
        Begin(Message(cid, type, PlayerSid, ts, Payload(n)), fmt)

BeginControl ==
    \E fmt \in 0..3 :
        \/ \E n \in ChunkSizes : Begin(Message(CidProtocolControl, MsgSetChunkSize, 0, 0, <<n>>), fmt)
        \/ \E n \in Windows : Begin(Message(CidProtocolControl, MsgWindowAckSize, 0, 0, <<n>>), fmt)

Continue(cid) ==
    LET s == peer.cids[cid]
    IN  /\ status = "ok"
        /\ s.left # <<>>
        /\ Write(LaterChunk(peer.ext_in_c3, s, peer.chunk_size))
        /\ peer' = [peer EXCEPT !.cids[cid].left = Rest(@, peer.chunk_size)]
        /\ UNCHANGED <<sent, srvVars, outVars, player, played, status>>

-----------------------------------------------------------------------------
(* The server                                                              *)

(* How many bytes the socket may have given by the time that so many more  *)
(* are used: the read buffer takes all that there are.                     *)
GivenBytes(used) == (written - Len(wire) + used)..written

(* One chunk of the publisher is read: recv_message up to the point where  *)
(* it needs more.  Media goes to the player.                               *)
Recv ==
    /\ status = "ok" /\ wire # <<>>
    /\ UNCHANGED <<peer, written, sent, player, played, out, out_chunk_size, responses, relayed>>
    /\ \E read \in {recv_interlaced_message(srv, wire)} :
           IF ~read.ok \/ (read.whole /\ ChunkSizeRefused(read.msg))
           THEN status' = "publisher refused" /\ UNCHANGED <<wire, srvVars, queue>>
           ELSE /\ wire' = Rest(wire, read.used)
                /\ UNCHANGED status
                /\ IF ~read.whole \/ read.msg.payload = <<>>
                   THEN srv' = read.r /\ UNCHANGED <<got, latest, acked, queue>>
                   ELSE \E nb \in GivenBytes(read.used) :
                        \E done \in {on_recv_message(read.r, read.msg, nb)} :
                            /\ srv' = done.r
                            /\ acked' = acked \o done.responses
                            /\ got' = [got EXCEPT ![read.msg.cid] = Append(@, read.msg)]
                            /\ latest' = read.msg.type
                            /\ queue' = IF read.msg.type \in {MsgAudio, MsgVideo} THEN Append(queue, read.msg) ELSE queue

(* send_and_free_messages: the messages in the queue, then the responses   *)
(* that the receiving thread has left.                                     *)
SendMessages ==
    \E msgs \in {Checked(queue, PlayerSid)} : \E done \in {do_send_messages(msgs, out_chunk_size)} :
        /\ status \in {"ok", "publisher refused"} /\ queue # <<>>
        /\ queue' = <<>>
        /\ responses' = <<>>
        /\ out' = out \o done.wire \o FlattenSeq([i \in DOMAIN responses |-> do_simple_send(responses[i], out_chunk_size)])
        /\ relayed' = relayed \o [i \in DOMAIN msgs |-> [msgs[i] EXCEPT !.cid = @ % 64]] \o responses
        /\ status' = IF done.ok THEN status ELSE "assertion failed"
        /\ UNCHANGED <<pubVars, srvVars, out_chunk_size, player, played>>

(* SrsRtmpServer::set_chunk_size, before the player is served.             *)
SetChunkSize(n) ==
    LET m == Message(CidProtocolControl, MsgSetChunkSize, 0, 0, <<n>>)
    IN  /\ status = "ok" /\ out_chunk_size = MinChunk /\ n # MinChunk /\ peer.begun = 0
        /\ out' = out \o do_simple_send(m, out_chunk_size)
        /\ out_chunk_size' = n
        /\ relayed' = Append(relayed, m)
        /\ UNCHANGED <<pubVars, srvVars, queue, responses, player, played, status>>

(* The player asks for a pong; the receiving thread of its connection      *)
(* queues it (auto_response_when_recv is off while it plays).              *)
Ping ==
    /\ status = "ok" /\ responses = <<>> /\ relayed = <<>> /\ queue # <<>>
    /\ responses' = on_recv_message(SrsProtocol, Message(CidProtocolControl, MsgUserControl, 0, 0, <<PingRequest, 5>>), 0).responses
    /\ UNCHANGED <<pubVars, srvVars, queue, out, out_chunk_size, relayed, player, played, status>>

(* The player reads a chunk.                                               *)
Play ==
    /\ status \in {"ok", "publisher refused"} /\ out # <<>>
    /\ UNCHANGED <<pubVars, srvVars, queue, out_chunk_size, responses, relayed>>
    /\ \E read \in {recv_interlaced_message(player, out)} :
           IF ~read.ok
           THEN status' = "player refused" /\ UNCHANGED <<out, player, played>>
           ELSE /\ out' = Rest(out, read.used)
                /\ player' = IF read.whole THEN on_recv_message(read.r, read.msg, 0).r ELSE read.r
                /\ played' = IF read.whole THEN Append(played, read.msg) ELSE played
                /\ UNCHANGED status

Init ==
    /\ \E e \in BOOLEAN : peer = [ext_in_c3 |-> e, chunk_size |-> MinChunk, begun |-> 0,
                                    cids |-> [c \in AllCids |-> NewStream]]
    /\ wire = <<>> /\ written = 0 /\ sent = [c \in AllCids |-> <<>>]
    /\ srv = SrsProtocol /\ got = [c \in AllCids |-> <<>>] /\ latest = 0 /\ acked = <<>>
    /\ queue = <<>> /\ out = <<>> /\ out_chunk_size = MinChunk /\ responses = <<>> /\ relayed = <<>>
    /\ player = SrsProtocol /\ played = <<>>
    /\ status = "ok"

(* The connections share nothing but the queue: each moves while the other *)
(* has nothing under way.                                                  *)
Next ==
    \/ out = <<>> /\ (BeginMedia \/ BeginControl \/ (\E cid \in Cids : Continue(cid)) \/ Recv)
    \/ wire = <<>> /\ (SendMessages \/ Ping \/ Play \/ \E n \in ChunkSizes : SetChunkSize(n))

Spec == Init /\ [][Next]_vars

-----------------------------------------------------------------------------
(* Properties                                                              *)

(* What a chunk stream delivers is a prefix of what was sent on it, with   *)
(* the payloads, the types and the 31 bits of the timestamps, whatever the *)
(* formats of the headers, the interleaving with other chunk streams, a    *)
(* change of the chunk size in the middle of a message, and whether later  *)
(* chunks repeat the extended timestamp.                                   *)
DeliveredIntact == \A c \in AllCids : IsPrefix(got[c], sent[c])

(* A publisher that follows the protocol is never refused, and all that it *)
(* has sent is delivered once its bytes have been read.                    *)
AllDelivered ==
    /\ status # "publisher refused"
    /\ wire = <<>> => \A c \in AllCids :
          Len(got[c]) = Len(sent[c]) - (IF peer.cids[c].left = <<>> THEN 0 ELSE 1)

(* The player reads what was written for it, message by message, with its  *)
(* stream id; a change of the chunk size and queued responses do not cut   *)
(* into messages, and the cache for headers never runs out.                *)
RelayedIntact ==
    /\ status \notin {"player refused", "assertion failed"}
    /\ IsPrefix(played, relayed)
    /\ out = <<>> => played = relayed

(* The publisher is never told of more than it wrote, and once all has     *)
(* been read and no message is incomplete it has been told of all but less *)
(* than half a window, whatever windows it asked for before; only the      *)
(* message that sets a window is judged by the one that was there.         *)
AcksFollow ==
    LET last == IF acked = <<>> THEN 0 ELSE Last(acked).payload[1]
    IN  /\ last <= written
        /\ (wire = <<>> /\ srv.window > 0 /\ \A c \in DOMAIN srv.chunks : ~srv.chunks[c].open) =>
               2 * (written - last) < srv.window \/ latest = MsgWindowAckSize

(* What SrsProtocol makes of a publisher's bytes is what it sent: nothing  *)
(* is changed, and nothing is missing when all has been read.              *)
AllDeliveredIntact == DeliveredIntact /\ AllDelivered
=============================================================================
