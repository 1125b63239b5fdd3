---------------------------- MODULE ChunkStream ----------------------------
(***************************************************************************)
(* The RTMP chunk stream: what SrsProtocol writes for a message, and what  *)
(* it makes of the bytes that it reads.                                    *)
(*                                                                         *)
(* A wire is a sequence of naturals, one for each field: the one to three  *)
(* bytes of a basic header, the fields of a message header (time, length,  *)
(* type, stream id), an extended timestamp, and four bytes of payload.     *)
(* Sizes are counted in these units.                                       *)
(***************************************************************************)
EXTENDS UserControlEvents, Integers, Sequences, SequencesExt, FiniteSets, FiniteSetsExt, TLC

CONSTANTS
    ExtTime,    \* RTMP_EXTENDED_TIMESTAMP, 0xffffff
    TimeMod,    \* timestamps have 31 bits: 0x80000000
    HeadersMax, \* SRS_CONSTS_C0C3_HEADERS_MAX, the room for headers of one writev
    MinChunk,   \* SRS_CONSTS_RTMP_MIN_CHUNK_SIZE, also the initial chunk size
    SeqMax      \* where the count of acknowledged bytes starts again, 0xf0000000

ASSUME ChunkStreamAssumption ==
    /\ ExtTime \in Nat \ {0} /\ TimeMod \in Nat /\ ExtTime < TimeMod
    /\ MinChunk \in Nat \ {0} /\ SeqMax \in Nat

MsgSetChunkSize == 1
MsgAcknowledgement == 3
MsgUserControl == 4
MsgWindowAckSize == 5
MsgAudio == 8
MsgVideo == 9

CidProtocolControl == 2

(* The sizes of a c0 and of a c3 header with an extended timestamp.        *)
MaxFmt0Header == 6
MaxFmt3Header == 2

Message(cid, type, sid, ts, payload) == [cid |-> cid, type |-> type, sid |-> sid, ts |-> ts, payload |-> payload]

NoMsg == Message(0, 0, 0, 0, <<>>)

Slice(w, from, n) == SubSeq(w, from + 1, from + n)

-----------------------------------------------------------------------------
(* Writing                                                                 *)

Extension(ts) == IF ts >= ExtTime THEN <<ts>> ELSE <<>>

(* The one byte of the basic header holds six bits of the chunk stream id. *)
srs_chunk_header_c0(m) ==
    <<m.cid % 64, Min({m.ts, ExtTime}), Len(m.payload), m.type, m.sid>> \o Extension(m.ts)

srs_chunk_header_c3(m) == <<3 * 64 + (m.cid % 64)>> \o Extension(m.ts)

(* SrsSharedPtrMessage::chunk_header, for the chunk that starts at p.      *)
chunk_header(m, p) == IF p = 0 THEN srs_chunk_header_c0(m) ELSE srs_chunk_header_c3(m)

(* Where the chunks of a message start.                                    *)
Starts(m, size) == [i \in 1..((Len(m.payload) + size - 1) \div size) |-> (i - 1) * size]

Chunk(m, p, size) == chunk_header(m, p) \o Slice(m.payload, p, Min({size, Len(m.payload) - p}))

(* do_simple_send: each chunk has a header buffer and a writev of its own. *)
do_simple_send(m, size) == FlattenSeq([i \in DOMAIN Starts(m, size) |-> Chunk(m, Starts(m, size)[i], size)])

(* Mutant: the cache is emptied only when no c3 header fits any more.      *)
AddChunk_late(s, m, p, size) ==
    LET room == HeadersMax - s.index
        next == s.index + Len(chunk_header(m, p))
    IN  [wire  |-> s.wire \o Chunk(m, p, size),
         index |-> IF HeadersMax - next < MaxFmt3Header THEN 0 ELSE next,
         ok    |-> s.ok /\ room >= (IF p = 0 THEN MaxFmt0Header ELSE MaxFmt3Header)]

(* do_send_messages: the headers of all chunks share one cache, which is   *)
(* sent and emptied when another c0 header might not fit.  ok is the       *)
(* assertion that a header was written.                                    *)
AddChunk(s, m, p, size) ==
    LET room == HeadersMax - s.index
        next == s.index + Len(chunk_header(m, p))
    IN  [wire  |-> s.wire \o Chunk(m, p, size),
         index |-> IF HeadersMax - next < MaxFmt0Header THEN 0 ELSE next,
         ok    |-> s.ok /\ room >= (IF p = 0 THEN MaxFmt0Header ELSE MaxFmt3Header)]

do_send_messages(msgs, size) ==
    FoldLeft(LAMBDA s, m : FoldLeft(LAMBDA t, p : AddChunk(t, m, p, size), s, Starts(m, size)),
             [wire |-> <<>>, index |-> 0, ok |-> TRUE], msgs)

(* SrsSharedPtrMessage::check on the messages of a batch, which stops at   *)
(* the first that has the stream id already.                               *)
Checked(msgs, sid) ==
    LET same == SelectInSeq(msgs, LAMBDA m : m.sid = sid)
        upto == IF same = 0 THEN Len(msgs) ELSE same
        check(m) == [m EXCEPT !.sid = sid, !.cid = IF @ < 2 THEN CidProtocolControl ELSE @]
    IN  [i \in DOMAIN msgs |-> IF i <= upto THEN check(msgs[i]) ELSE msgs[i]]

-----------------------------------------------------------------------------
(* Reading                                                                 *)

(* SrsChunkStream; partial is the payload of the message that is being     *)
(* received, open says that there is one.                                  *)
SrsChunkStream ==
    [open |-> FALSE, partial |-> <<>>, ext |-> FALSE, msg_count |-> 0,
     ts |-> 0, delta |-> 0, len |-> 0, type |-> 0, sid |-> 0]

(* The reading side of an SrsProtocol.                                     *)
SrsProtocol ==
    [chunks |-> <<>>, in_chunk_size |-> MinChunk, window |-> 0, nb_recv |-> 0, seq |-> 0, in_buffer_length |-> 0]

ChunkOf(r, cid) == IF cid \in DOMAIN r.chunks THEN r.chunks[cid] ELSE SrsChunkStream

(* read_basic_header: <<fmt, cid, size>>.                                  *)
read_basic_header(w) ==
    LET fmt == w[1] \div 64
        low == w[1] % 64
    IN  CASE low > 1 -> <<fmt, low, 1>>
          [] low = 0 -> <<fmt, 64 + w[2], 2>>
          [] OTHER   -> <<fmt, 64 + w[2] + 256 * w[3], 3>>

MessageHeaderSize == <<4, 3, 1, 0>>

(* The first chunk of a chunk stream has a full header, save what librtmp  *)
(* sends; a message is not started again before it ends, nor does its      *)
(* length change.                                                          *)
HeaderRefused(c, cid, fmt, w) ==
    \/ c.msg_count = 0 /\ fmt # 0 /\ ~(cid = CidProtocolControl /\ fmt = 1)
    \/ c.open /\ fmt = 0
    \/ c.open /\ fmt = 1 /\ w[2] # c.len

(* Mutant: the first chunk of a message adds no delta when it has no       *)
(* message header.                                                         *)
HeaderFields_still(c, fmt, w) ==
    LET ext  == IF fmt <= 2 THEN w[1] >= ExtTime ELSE c.ext
        time == CASE ext -> c.ts
                  [] ~ext /\ fmt = 0 -> w[1]
                  [] ~ext /\ fmt \in {1, 2} -> c.ts + w[1]
                  [] OTHER -> c.ts
    IN  [c EXCEPT !.ext = ext, !.ts = time,
                  !.delta = IF fmt <= 2 THEN w[1] ELSE @,
                  !.len   = IF fmt <= 1 THEN w[2] ELSE @,
                  !.type  = IF fmt <= 1 THEN w[3] ELSE @,
                  !.sid   = IF fmt = 0 THEN w[4] ELSE @]

(* The fields of the message header; w begins with them.                   *)
HeaderFields(c, fmt, w) ==
    LET ext  == IF fmt <= 2 THEN w[1] >= ExtTime ELSE c.ext
        time == CASE ext -> c.ts
                  [] ~ext /\ fmt = 0 -> w[1]
                  [] ~ext /\ fmt \in {1, 2} -> c.ts + w[1]
                  [] OTHER -> IF c.open THEN c.ts ELSE c.ts + c.delta
    IN  [c EXCEPT !.ext = ext, !.ts = time,
                  !.delta = IF fmt <= 2 THEN w[1] ELSE @,
                  !.len   = IF fmt <= 1 THEN w[2] ELSE @,
                  !.type  = IF fmt <= 1 THEN w[3] ELSE @,
                  !.sid   = IF fmt = 0 THEN w[4] ELSE @]

(* read_message_header of a header that is not refused: the chunk stream   *)
(* and the size.  In a later chunk of a message an extended timestamp that *)
(* differs from the one of the message is taken for payload.               *)
read_message_header(c, fmt, w) ==
    LET h    == HeaderFields(c, fmt, w)
        size == MessageHeaderSize[fmt + 1]
        time == w[size + 1] % TimeMod
        none == c.open /\ h.ts > 0 /\ h.ts # time
        ts   == IF h.ext /\ ~none THEN time ELSE h.ts
    IN  [chunk |-> [h EXCEPT !.open = TRUE, !.ts = ts % TimeMod, !.msg_count = @ + 1],
         size  |-> IF h.ext /\ ~none THEN size + 1 ELSE size]

(* What reading a chunk comes to: ok is FALSE when it is refused or the    *)
(* wire ends in it; msg is the message when it is complete, whole then     *)
(* TRUE.                                                                   *)
Refused(r) == [ok |-> FALSE, r |-> r, used |-> 0, whole |-> FALSE, msg |-> NoMsg]

Received(r, cid, h, pay, used) ==
    LET whole == Len(pay) = h.len
        after == [h EXCEPT !.open = ~whole, !.partial = IF whole THEN <<>> ELSE pay]
    IN  [ok |-> TRUE, used |-> used, whole |-> whole,
         r  |-> [r EXCEPT !.chunks = [c \in {cid} \cup DOMAIN @ |-> IF c = cid THEN after ELSE @[c]]],
         msg |-> Message(cid, h.type, h.sid, h.ts, pay)]

(* read_message_payload, the header of the chunk stream being h and its    *)
(* size, used that of both headers.                                        *)
read_message_payload(r, cid, h, size, used, w) ==
    LET n == Min({h.len - Len(h.partial), r.in_chunk_size})
    IN  IF Len(w) < size + n THEN Refused(r)
        ELSE Received(r, cid, h, h.partial \o Slice(w, size, n), used + n)

ReadAfterHeader(r, cid, head, before, w) ==
    read_message_payload(r, cid, head.chunk, head.size, before + head.size, w)

ReadChunk(r, fmt, cid, c, before, w) ==
    IF \/ Len(w) < MessageHeaderSize[fmt + 1]
       \/ HeaderRefused(c, cid, fmt, w)
       \/ HeaderFields(c, fmt, w).ext /\ Len(w) = MessageHeaderSize[fmt + 1]
    THEN Refused(r)
    ELSE ReadAfterHeader(r, cid, read_message_header(c, fmt, w), before, w)

(* recv_interlaced_message: reads one chunk.                               *)
recv_interlaced_message(r, w) ==
    LET basic == read_basic_header(w)
    IN  ReadChunk(r, basic[1], basic[2], ChunkOf(r, basic[2]), basic[3], SubSeq(w, basic[3] + 1, Len(w)))

(* Mutant: the bytes that were acknowledged are counted again.             *)
response_acknowledgement_again(r, nb) ==
    LET delta == nb - r.nb_recv
        seq   == IF r.seq + delta > SeqMax THEN delta ELSE r.seq + delta
    IN  IF r.window <= 0 \/ delta < r.window \div 2
        THEN [r |-> r, responses |-> <<>>]
        ELSE [r |-> [r EXCEPT !.seq = seq],
              responses |-> <<Message(CidProtocolControl, MsgAcknowledgement, 0, 0, <<seq>>)>>]

(* response_acknowledgement_message, nb bytes having been read from the    *)
(* socket: the reader after it, and what is sent.                          *)
response_acknowledgement_message(r, nb) ==
    LET delta == nb - r.nb_recv
        seq   == IF r.seq + delta > SeqMax THEN delta ELSE r.seq + delta
    IN  IF r.window <= 0 \/ delta < r.window \div 2
        THEN [r |-> r, responses |-> <<>>]
        ELSE [r |-> [r EXCEPT !.nb_recv = nb, !.seq = seq],
              responses |-> <<Message(CidProtocolControl, MsgAcknowledgement, 0, 0, <<seq>>)>>]

(* on_recv_message: the acknowledgement first, then what the message       *)
(* itself asks for.                                                        *)
on_recv_message(r, m, nb) ==
    LET a == response_acknowledgement_message(r, nb)
    IN  CASE m.type = MsgWindowAckSize -> [a EXCEPT !.r.window = IF m.payload[1] > 0 THEN m.payload[1] ELSE @]
          [] m.type = MsgSetChunkSize -> [a EXCEPT !.r.in_chunk_size = m.payload[1]]
          [] m.type = MsgUserControl /\ m.payload[1] = SetBufferLength ->
               [a EXCEPT !.r.in_buffer_length = m.payload[2]]
          [] m.type = MsgUserControl /\ m.payload[1] = PingRequest ->
               [a EXCEPT !.responses = Append(@, Message(CidProtocolControl, MsgUserControl, 0, 0,
                                                         <<PingResponse, m.payload[2]>>))]
          [] OTHER -> a

(* A chunk size that on_recv_message refuses.                              *)
ChunkSizeRefused(m) == m.type = MsgSetChunkSize /\ m.payload[1] < MinChunk
=============================================================================
