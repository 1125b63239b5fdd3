------------------------------ MODULE TsStream ------------------------------
(***************************************************************************)
(* MPEG transport streams (srs_kernel_ts): frames are collected into       *)
(* messages, a message is cut into packets, and on the other side the      *)
(* packets become messages again.  The line between them may lose, repeat  *)
(* and delay packets, and a write may fail.                                *)
(*                                                                         *)
(* A packet is a record of its fields; of the payload it says which bytes  *)
(* (from, to) of which message (of) it carries.  The number of bytes of    *)
(* every part is the code's.                                               *)
(***************************************************************************)
EXTENDS Integers, Sequences, FiniteSets, SequencesExt

CONSTANTS LengthLimit,    \* the largest PES_packet_length, 0xFFFF in the code
          TsFrames,       \* frames: medium, size in the message, dts, pts, key
          TsCodecs,       \* the codecs <<audio, video>> of a writer
          FirstCounter,   \* where the continuity counters stand
          MaxTsFrames, MaxSegments, MaxFaults

VARIABLES mux,      \* SrsTsContextWriter, SrsTsMessageCache, the writing context
          line,     \* the packets under way
          demux,    \* the reading SrsTsContext
          log       \* what happened: messages sent, those hit by a fault

tsVars == <<mux, line, demux, log>>

SRS_TS_PACKET_SIZE == 188
PatPid == 0
PmtPid == 4097
MediaPids == {256, 257, 258}
Pids == {PatPid, PmtPid} \cup MediaPids

(* The streams an audio or video codec is carried as, and their pids.      *)
StreamOf(codec) ==
    CASE codec = "AVC" -> "H264" [] codec = "AAC" -> "AAC" [] codec = "MP3" -> "Mp3" [] OTHER -> "Reserved"

PidOf(stream) ==
    CASE stream = "H264" -> 256 [] stream = "AAC" -> 257 [] stream = "Mp3" -> 258 [] OTHER -> 0

ApplyOf(stream) == IF stream = "H264" THEN "Video" ELSE "Audio"

NoMessage == [size |-> 0]

-----------------------------------------------------------------------------
(* Packets                                                                 *)

NoField == [on |-> FALSE, pcr |-> FALSE, reserved |-> 0]

(* SrsTsAdaptationField::size()                                            *)
field_size(field) == IF field.on THEN 2 + (IF field.pcr THEN 6 ELSE 0) + field.reserved ELSE 0

(* SrsTsPayloadPES::size(): six bytes, three of flags, one or two times.   *)
pes_size(m) == 9 + (IF m.dts = m.pts THEN 5 ELSE 10)

(* The length of create_pes_first(), and what encode() writes for it: 0    *)
(* for a message that is too long for the field.                           *)
PES_packet_length(m) ==
    LET n == m.size + pes_size(m) - 6
    IN  IF m.size > LengthLimit \/ n > LengthLimit THEN 0 ELSE n

TsPacket(pid, start, cc, field, header, pes) ==
    [pid |-> pid, start |-> start, cc |-> cc % 16, field |-> field, header |-> header, pes |-> pes,
     table |-> {}, of |-> 0, from |-> 1, to |-> 0]

(* A time of 33 bits, in three parts.                                      *)
encode_33bits_dts_pts(v) == <<(v \div 2 ^ 30) % 8, (v \div 2 ^ 15) % 2 ^ 15, v % 2 ^ 15>>
decode_33bits_dts_pts(t) == t[1] * 2 ^ 30 + t[2] * 2 ^ 15 + t[3]

NoPes == [sid |-> "none", length |-> 0, header |-> 0, times |-> <<>>]

(* SrsTsPayloadPES::encode(): one time when dts and pts are the same.      *)
pes_encode(m) ==
    [sid |-> m.sid, length |-> PES_packet_length(m), header |-> pes_size(m) - 6,
     times |-> IF m.dts = m.pts THEN <<encode_33bits_dts_pts(m.pts)>>
               ELSE <<encode_33bits_dts_pts(m.pts), encode_33bits_dts_pts(m.dts)>>]

create_pes_first(pid, m, cc, write_pcr) ==
    TsPacket(pid, TRUE, cc, IF write_pcr THEN [NoField EXCEPT !.on = TRUE, !.pcr = TRUE] ELSE NoField,
             pes_size(m), pes_encode(m))

create_pes_continue(pid, cc) == TsPacket(pid, FALSE, cc, NoField, 0, NoPes)

(* SrsTsPayloadPSI::size(): the pointer, three bytes, the table, the CRC.  *)
psi_size(n) == 1 + 3 + n + 4

create_pat == [TsPacket(PatPid, TRUE, 0, NoField, psi_size(5 + 4), NoPes) EXCEPT !.table = {<<PmtPid, "PMT">>}]

create_pmt(streams) ==
    [TsPacket(PmtPid, TRUE, 0, NoField, psi_size(9 + 5 * Cardinality(streams)), NoPes)
        EXCEPT !.table = {<<PidOf(s), ApplyOf(s)>> : s \in streams}]

packet_size(p) == 4 + field_size(p.field) + p.header

(* SrsTsAdaptationField::encode() and decode() take a length up to 182     *)
(* where a payload follows.                                                *)
field_encode(field) == field.on => field_size(field) - 1 <= 182
field_decode(field) == field.on => field_size(field) - 1 <= 182

Room(p) == SRS_TS_PACKET_SIZE - packet_size(p)

(* Mutant: a field that is there already is counted once more.             *)
padding_twice(p, n) ==
    [p EXCEPT !.field = IF p.field.on THEN [p.field EXCEPT !.reserved = IF n > 2 THEN n - 2 ELSE 0]
                        ELSE [on |-> TRUE, pcr |-> FALSE, reserved |-> IF n > 2 THEN n - 2 ELSE 0]]

(* A field that there was not takes two bytes itself, also when only one   *)
(* is to be filled.                                                        *)
padding(p, n) ==
    [p EXCEPT !.field = IF p.field.on THEN [p.field EXCEPT !.reserved = n]
                        ELSE [on |-> TRUE, pcr |-> FALSE, reserved |-> IF n > 2 THEN n - 2 ELSE 0]]

(* encode_pes(): the packets of the bytes of m from number from on.        *)
RECURSIVE PesPackets(_, _, _, _, _)
PesPackets(m, pid, cc, pure_audio, from) ==
    LET new  == IF from = 1
                THEN create_pes_first(pid, m, cc, m.write_pcr \/ (pure_audio /\ m.sid = "audio"))
                ELSE create_pes_continue(pid, cc)
        rest == m.size - from + 1
        p    == IF rest < Room(new) THEN padding(new, Room(new) - rest) ELSE new
        n    == IF rest < Room(p) THEN rest ELSE Room(p)
    IN  IF rest <= 0 THEN <<>>
        ELSE <<[p EXCEPT !.from = from, !.to = from + n - 1]>>
             \o PesPackets(m, pid, cc + 1, pure_audio, from + n)

-----------------------------------------------------------------------------
(* The writer                                                              *)

(* SrsTsMessageCache::cache_audio(), cache_video(): the frame joins what   *)
(* an earlier write left; a video message takes its time, an audio message *)
(* keeps the first one.                                                    *)
Cached(f) ==
    LET old == mux.cache[f.medium]
    IN  CASE old = NoMessage ->
               [sid |-> f.medium, size |-> f.size, dts |-> f.dts, write_pcr |-> f.medium = "video" /\ f.key,
                pts |-> IF f.medium = "video" THEN f.pts ELSE f.dts]
          [] f.medium = "video" -> [old EXCEPT !.size = @ + f.size, !.dts = f.dts, !.pts = f.pts]
          [] OTHER -> [old EXCEPT !.size = @ + f.size]

Streams == {StreamOf(mux.codecs[1]), StreamOf(mux.codecs[2])} \ {"Reserved"}

(* SrsTsContext::encode(): tables when the codecs are new, then the        *)
(* message; nothing is written while the tables of the segment are not.    *)
Encoded(m) ==
    LET stream == StreamOf(mux.codecs[IF m.sid = "audio" THEN 1 ELSE 2])
        tables == IF mux.written # mux.codecs THEN <<create_pat, create_pmt(Streams)>> ELSE <<>>
        pes    == IF stream = "Reserved" THEN <<>>
                  ELSE PesPackets(m, PidOf(stream), mux.counter[PidOf(stream)], "H264" \notin Streams, 1)
        able   == Streams # {} /\ (mux.ready \/ tables # <<>>)
    IN  [tables |-> IF able THEN tables ELSE <<>>, pes |-> IF able THEN pes ELSE <<>>, able |-> able,
         pid |-> PidOf(stream)]

(* How far the counter moves when n packets were written: it is taken      *)
(* before the write that may fail.                                         *)
Counted(e, n) ==
    LET k == n - Len(e.tables)
    IN  IF k < 0 THEN 0 ELSE IF k < Len(e.pes) THEN k + 1 ELSE k

(* psi_encode() of both tables: the channels exist before the write.       *)
TablePids(tables, n) ==
    IF tables = <<>> THEN {}
    ELSE {PatPid, PmtPid} \cup (IF n > 0 THEN {PidOf(s) : s \in Streams} ELSE {})

(* flush_audio(), flush_video(): the message is freed when it was written. *)
(* write_audio(), write_video() of SrsTsTransmuxer and SrsTsContextWriter  *)
(* with n packets that the file takes.                                     *)
WriteFrame(f, n) ==
    \E m \in {Cached(f)} : \E e \in {Encoded(m)} :
    LET all == e.tables \o e.pes
        ok  == e.able /\ n = Len(all)
        i   == Len(log.sent) + 1
        put == [j \in 1..n |-> [all[j] EXCEPT !.of = i]]
        new == IF e.pid = 0 THEN mux.counter
               ELSE [mux.counter EXCEPT ![e.pid] = (@ + Counted(e, n)) % 256]
    IN  /\ n <= Len(all) /\ \A j \in 1..n : field_encode(all[j].field)
        /\ mux' = [mux EXCEPT !.cache[f.medium] = IF ok THEN NoMessage ELSE m,
                              !.written = IF Streams # {} THEN mux.codecs ELSE @,
                              !.ready = @ \/ (e.tables # <<>> /\ n >= 2),
                              !.counter = new,
                              !.pids = @ \cup TablePids(e.tables, n)]
        /\ line' = line \o put
        /\ log' = [log EXCEPT !.sent = Append(@, [pid |-> e.pid, sid |-> m.sid, size |-> m.size, dts |-> m.dts,
                                                  pts |-> m.pts, segment |-> log.segment,
                                                  declared |-> PES_packet_length(m) > 0]),
                              !.hit = IF ok /\ e.pes # <<>> THEN @ ELSE @ \cup {i},
                              !.faults = IF n < Len(all) THEN @ + 1 ELSE @,
                              !.losses = IF n < Len(all) THEN @ + 1 ELSE @]
        /\ UNCHANGED demux

(* SrsTsContextWriter::open() of a writer made for the codecs: reset() of  *)
(* the context, whose counters and channels stay.                          *)
OpenSegment(codecs) ==
    /\ mux' = [mux EXCEPT !.codecs = codecs, !.written = <<"Reserved1", "Reserved">>, !.ready = FALSE]
    /\ log' = [log EXCEPT !.segment = @ + 1]
    /\ UNCHANGED <<line, demux>>

-----------------------------------------------------------------------------
(* The reader                                                              *)

NewTsMessage == [sid |-> "none", length |-> 0, cc |-> 0, dts |-> 0, pts |-> 0, data |-> <<>>]
NoTsMessage  == [NewTsMessage EXCEPT !.length = -1]

Bytes(data) == FoldLeft(LAMBDA n, d : n + d.to - d.from + 1, 0, data)

fresh(m) == m.data = <<>>
completed(m, start) == IF m.length = 0 THEN start ELSE Bytes(m.data) >= m.length

(* SrsTsMessage::dump(): not more than the length the message declared.    *)
dump(m, p) ==
    LET n == p.to - p.from + 1
        k == IF m.length > 0 /\ m.length - Bytes(m.data) < n THEN m.length - Bytes(m.data) ELSE n
    IN  IF k <= 0 THEN m
        ELSE [m EXCEPT !.data = Append(@, [of |-> p.of, from |-> p.from, to |-> p.from + k - 1])]

(* What a packet leaves in its channel, and the messages it finished.     *)
Parsed(msg, done) == [msg |-> msg, done |-> done]

Reaped(m, start, done) ==
    IF completed(m, start) THEN Parsed(NoTsMessage, Append(done, m)) ELSE Parsed(m, done)

(* The packet meets no message: it has to begin one.                       *)
ParseFresh(p, done) ==
    LET parsed == [NewTsMessage EXCEPT
                      !.cc = p.cc, !.sid = p.pes.sid,
                      !.pts = decode_33bits_dts_pts(p.pes.times[1]),
                      !.dts = decode_33bits_dts_pts(p.pes.times[Len(p.pes.times)]),
                      !.length = IF p.pes.length > p.pes.header THEN p.pes.length - p.pes.header ELSE 0]
        m == dump(parsed, p)
    IN  IF ~p.start THEN Parsed(NewTsMessage, done)
        ELSE IF m.length = 0 THEN Parsed(m, done)
        ELSE Reaped(m, TRUE, done)

(* Mutant: every packet that is not the next one makes the message be      *)
(* dropped, a repeated one too.                                            *)
LateCounter_never(m, p) == FALSE

(* A counter that is taken for one that was seen before.                   *)
LateCounter(m, p) == m.cc >= p.cc /\ (m.cc + 1) % 16 > p.cc

(* A message begins although the last one lacks bytes it declared.         *)
CutOff(m, p) == m.length > 0 /\ ~completed(m, p.start) /\ p.start

(* Mutant: packets may be missing.                                         *)
Gap_never(m, p) == FALSE

(* A counter that is not the next one.                                     *)
Gap(m, p) == (m.cc + 1) % 16 # p.cc

(* SrsTsPayloadPES::decode(); a message that is dropped or finished by the *)
(* packet leaves it to be parsed again.                                    *)
pes_decode(m, p) ==
    IF m = NoTsMessage \/ fresh(m) THEN ParseFresh(p, <<>>)
    ELSE IF CutOff(m, p) THEN ParseFresh(p, <<>>)
    ELSE IF LateCounter(m, p) THEN Parsed(m, <<>>)
    ELSE IF Gap(m, p) THEN ParseFresh(p, <<>>)
    ELSE LET next == [m EXCEPT !.cc = p.cc]
         IN  IF completed(next, p.start) THEN ParseFresh(p, <<next>>)
             ELSE Reaped(dump(next, p), p.start, <<>>)

(* set(): the channel is made or keeps its message.                        *)
Applied(table) ==
    [pid \in Pids |-> IF \E e \in table : e[1] = pid THEN (CHOOSE e \in table : e[1] = pid)[2] ELSE demux.apply[pid]]

on_pmt_parsed(apply) == \A pid \in Pids : apply[pid] # "Video"

(* SrsTsPayloadPAT::psi_decode(), which calls on_pmt_parsed(), and         *)
(* SrsTsPayloadPMT::psi_decode(), which does not.                          *)
pat_decode(p) ==
    LET apply == [Applied(p.table) EXCEPT ![PatPid] = "PAT"]
    IN  [demux EXCEPT !.apply = apply, !.pure_audio = on_pmt_parsed(apply)]

pmt_decode(p) == [demux EXCEPT !.apply = [Applied(p.table) EXCEPT ![p.pid] = "PMT"]]

(* SrsTsContext::decode() of one packet; a packet of a channel no table    *)
(* named is skipped.                                                       *)
packet_decode(p) ==
    LET r == pes_decode(demux.msg[p.pid], p)
    IN  CASE ~field_decode(p.field) -> demux
          [] field_decode(p.field) /\ p.pid = PatPid -> pat_decode(p)
          [] field_decode(p.field) /\ p.pid # PatPid /\ demux.apply[p.pid] = "PMT" -> pmt_decode(p)
          [] field_decode(p.field) /\ demux.apply[p.pid] \in {"Video", "Audio"} ->
               [demux EXCEPT !.msg[p.pid] = r.msg, !.out = @ \o r.done]
          [] OTHER -> demux

Receive ==
    /\ line # <<>>
    /\ demux' = packet_decode(Head(line))
    /\ line' = Tail(line)
    /\ UNCHANGED <<mux, log>>

-----------------------------------------------------------------------------
(* The line                                                                *)

IsTable(p) == p.table # {}

Fault(hit, blind, lost) ==
    log' = [log EXCEPT !.faults = @ + 1, !.losses = @ + lost, !.hit = @ \cup hit, !.blind = @ \cup blind]

Hits(ps) == {p.of : p \in {q \in ps : ~IsTable(q)}}
Blinds(ps) == {log.sent[p.of].segment : p \in {q \in ps : IsTable(q)}}

Lose ==
    /\ line # <<>>
    /\ Fault(Hits({Head(line)}), Blinds({Head(line)}), 1)
    /\ line' = Tail(line)
    /\ UNCHANGED <<mux, demux>>

(* A repeated packet is not recognised when its counter is 15, because the *)
(* counter after it is not greater, nor when its message is finished by it *)
(* alone.                                                                  *)
NotRecognised(p) == p.cc = 15 \/ (p.start /\ ~IsTable(p) /\ p.to = log.sent[p.of].size)

Repeat ==
    /\ line # <<>>
    /\ Fault(IF NotRecognised(Head(line)) THEN Hits({Head(line)}) ELSE {}, {}, 0)
    /\ line' = <<Head(line)>> \o line
    /\ UNCHANGED <<mux, demux>>

(* Packets of different media may change places freely.                    *)
Delay ==
    LET a == line[1]
        b == line[2]
    IN  /\ Len(line) > 1
        /\ LET ps == IF a.pid = b.pid \/ IsTable(a) \/ IsTable(b) THEN {a, b} ELSE {}
           IN  Fault(Hits(ps), Blinds(ps), 0)
        /\ line' = <<b, a>> \o SubSeq(line, 3, Len(line))
        /\ UNCHANGED <<mux, demux>>

TsInit ==
    /\ mux = [codecs |-> <<"Reserved1", "Reserved">>, written |-> <<"Reserved1", "Reserved">>, ready |-> FALSE,
              pids |-> {}, counter |-> [p \in MediaPids |-> FirstCounter],
              cache |-> [m \in {"audio", "video"} |-> NoMessage]]
    /\ line = <<>>
    /\ demux = [apply |-> [p \in Pids |-> "Reserved"], msg |-> [p \in Pids |-> NoTsMessage],
                pure_audio |-> FALSE, out |-> <<>>]
    /\ log = [sent |-> <<>>, hit |-> {}, blind |-> {}, segment |-> 0, faults |-> 0, losses |-> 0]

(* The next message is written when the last packet of the one before may  *)
(* still be under way.                                                     *)
TsNext ==
    \/ /\ Len(line) < 2
       /\ \/ /\ log.segment > 0 /\ Len(log.sent) < MaxTsFrames
             /\ \E f \in TsFrames :
                   LET all == Len(Encoded(Cached(f)).tables) + Len(Encoded(Cached(f)).pes)
                   IN  \E n \in 0..all : (n < all => log.faults < MaxFaults) /\ WriteFrame(f, n)
          \/ /\ log.segment < MaxSegments
             /\ \E codecs \in TsCodecs : OpenSegment(codecs)
    \/ Receive
    \/ log.faults < MaxFaults /\ (Lose \/ Repeat \/ Delay)

TsIdle == log.segment = 0

-----------------------------------------------------------------------------
(* Every packet that is written has exactly its 188 bytes, of which some   *)
(* are payload, on a channel the tables announced: encode_pes() asserts    *)
(* this after its stuffing, which the one byte that no field fits into and *)
(* the field that is there already both have to get right.                 *)
PacketsFull ==
    \A i \in DOMAIN line :
        LET p == line[i]
        IN  IsTable(p) \/ (p.pid \in mux.pids /\ p.to >= p.from /\ packet_size(p) + p.to - p.from + 1 = SRS_TS_PACKET_SIZE)

(* m is message i as it was sent.                                          *)
IsWhole(m, i) ==
    LET s == log.sent[i]
    IN  /\ m.sid = s.sid /\ m.dts = s.dts /\ m.pts = s.pts
        /\ Bytes(m.data) = s.size
        /\ \A k \in DOMAIN m.data : /\ m.data[k].of = i
                                    /\ m.data[k].from = IF k = 1 THEN 1 ELSE m.data[k - 1].to + 1

(* What the reader hands out is a message as it was sent, neither a part   *)
(* nor a mixture, if it declared its length and no second packet was lost: *)
(* "when got partially message, the continous count must be continuous, or *)
(* drop it" (SrsTsPayloadPES::decode).                                     *)
WholeMessages ==
    \A k \in DOMAIN demux.out :
        demux.out[k].length > 0 /\ log.losses <= 1 => \E i \in DOMAIN log.sent : IsWhole(demux.out[k], i)

(* The messages before and after i in its channel.                         *)
Before(i) == {j \in 1..i - 1 : log.sent[j].pid = log.sent[i].pid}
After(i)  == {j \in i + 1..Len(log.sent) : log.sent[j].pid = log.sent[i].pid}
Untouched(i) == i \notin log.hit /\ log.sent[i].segment \notin log.blind

(* A fault costs no message but those it touches, and a repeated packet    *)
(* that can be told from a new one costs none: every other message comes   *)
(* out once, whole.  A message that does not declare its length ends with  *)
(* the next start, so around one of those the others have to be sound too. *)
UntouchedDelivered ==
    line = <<>> =>
        \A i \in DOMAIN log.sent :
            /\ Untouched(i)
            /\ (\A j \in Before(i) : Untouched(j)) \/ (\A j \in Before(i) : log.sent[j].declared)
            /\ log.sent[i].declared \/ \E j \in After(i) : Untouched(j) /\ \A k \in After(i) : j <= k
            => Cardinality({k \in DOMAIN demux.out : IsWhole(demux.out[k], i)}) = 1
=============================================================================
