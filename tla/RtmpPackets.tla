----------------------------- MODULE RtmpPackets -----------------------------
(***************************************************************************)
(* The packets of srs_rtmp_stack: what each class writes (get_size and     *)
(* encode_packet go through the same values in the same order) and what    *)
(* its decode() takes from the bytes, and SrsProtocol::do_decode_message,  *)
(* which chooses the class.                                                *)
(*                                                                         *)
(* A packet is a record with its class, the type of the message that       *)
(* carries it, the chunk stream it prefers and its members.  A name is one *)
(* character: names are compared and never taken apart.                    *)
(***************************************************************************)
EXTENDS Amf0, UserControlEvents, FiniteSets, TLC

(* RTMP_AMF0_COMMAND_*, SRS_CONSTS_RTMP_* and SRS_BW_CHECK_*.              *)
CommandNames ==
    <<"connect", "createStream", "closeStream", "play", "pause", "onBWDone", "onStatus", "_result",
      "_error", "releaseStream", "FCPublish", "FCUnpublish", "publish", "|RtmpSampleAccess">>

DataNames == <<"@setDataFrame", "onMetaData">>

BandwidthNames ==
    <<"startPlay", "startingPlay", "playing", "stopPlay", "stoppedPlay", "startPublish",
      "startingPublish", "publishing", "stopPublish", "stoppedPublish", "finished", "final">>

OtherNames == <<"", "other", "live", "stream">>

AllNames == CommandNames \o DataNames \o BandwidthNames \o OtherNames

Chars(n) == IF n = "" THEN <<>> ELSE <<32 + CHOOSE i \in DOMAIN AllNames : AllNames[i] = n>>

Str(n) == SrsAmf0String(Chars(n))

NameOf(s) == IF s = <<>> THEN "" ELSE AllNames[s[1] - 32]

Bool(v) == v.s # <<0>>

(* The message types, and the chunk streams packets prefer.                *)
MessageTypes ==
    [SetChunkSize |-> 1, Acknowledgement |-> 3, UserControl |-> 4, WindowAcknowledgementSize |-> 5,
     SetPeerBandwidth |-> 6, AMF3Data |-> 15, AMF3Command |-> 17, AMF0Data |-> 18, AMF0Command |-> 20]

ChunkStreams == [ProtocolControl |-> 2, OverConnection |-> 3, OverConnection2 |-> 4, OverStream |-> 5]

Packet(class, type, cid, members) ==
    [class |-> class, type |-> MessageTypes[type], cid |-> ChunkStreams[cid]] @@ members

Failed == [class |-> "failed"]

-----------------------------------------------------------------------------
(* Reading a sequence of values                                            *)

ReadAs(kind, wire, pos) ==
    CASE kind = "string" -> srs_amf0_read_string(wire, pos)
      [] kind = "number" -> srs_amf0_read_number(wire, pos)
      [] kind = "boolean" -> srs_amf0_read_boolean(wire, pos)
      [] kind = "null" -> srs_amf0_read_null(wire, pos)
      [] kind = "undefined" -> srs_amf0_read_undefined(wire, pos)
      [] kind = "object" -> object_read(wire, pos)
      [] kind = "any" -> srs_amf0_read_any(wire, pos)

(* The values of the kinds req, then those of the kinds opt, each of which *)
(* is read only when bytes are left.                                       *)
Items(wire, start, req, opt) ==
    LET Taken(st, r) == [ok |-> r.ok, pos |-> r.pos, v |-> Append(st.v, r.v)]
        Step(st, k) ==
            IF ~st.ok THEN st
            ELSE IF k > Len(req) /\ st.pos = Len(wire) THEN [st EXCEPT !.v = Append(@, NoValue)]
            ELSE Taken(st, ReadAs((req \o opt)[k], wire, st.pos))
    IN  FoldLeft(Step, [ok |-> TRUE, pos |-> start, v |-> <<>>], [k \in 1..(Len(req) + Len(opt)) |-> k])

(* The values begin with one of the expected command names.                *)
Named(r, names) == r.ok /\ NameOf(r.v[1].s) \in names

OrIf(v, absent) == IF v = NoValue THEN absent ELSE v

Optional(v) == IF v = NoValue THEN <<>> ELSE <<v>>

-----------------------------------------------------------------------------
(* The packets of NetConnection                                            *)

SrsConnectAppPacket(obj, args) ==
    Packet("ConnectApp", "AMF0Command", "OverConnection",
           [name |-> "connect", tid |-> 1, obj |-> obj, args |-> args])

ConnectApp_items(p) == <<Str(p.name), Num(p.tid), p.obj>> \o Optional(p.args)

(* Another transaction id is only warned of; arguments that are not an     *)
(* object are dropped.                                                     *)
ConnectApp_decode(wire, pos) ==
    LET Made(r) ==
            IF ~Named(r, {"connect"}) THEN Failed
            ELSE [SrsConnectAppPacket(r.v[3], IF r.v[4].m = ObjectMark THEN r.v[4] ELSE NoValue)
                    EXCEPT !.tid = to_number(r.v[2])]
    IN  Made(Items(wire, pos, <<"string", "number", "object">>, <<"any">>))

SrsConnectAppResPacket(props, info) ==
    Packet("ConnectAppRes", "AMF0Command", "OverConnection",
           [name |-> "_result", tid |-> 1, props |-> props, info |-> info])

ConnectAppRes_items(p) == <<Str(p.name), Num(p.tid), p.props, p.info>>

(* Properties that are not an object leave the empty one.                  *)
ConnectAppRes_decode(wire, pos) ==
    LET Made(r, info) ==
            IF ~Named(r, {"_result"}) \/ ~info.ok THEN Failed
            ELSE [SrsConnectAppResPacket(IF r.v[3].m = ObjectMark THEN r.v[3] ELSE SrsAmf0Object(<<>>), info.v)
                    EXCEPT !.tid = to_number(r.v[2])]
        WithInfo(r) == Made(r, object_read(wire, r.pos))
    IN  WithInfo(Items(wire, pos, <<"string", "number">>, <<"any">>))

SrsCallPacket(name, tid, obj, args) ==
    Packet("Call", "AMF0Command", "OverConnection", [name |-> name, tid |-> tid, obj |-> obj, args |-> args])

Call_items(p) == <<Str(p.name), Num(p.tid)>> \o Optional(p.obj) \o Optional(p.args)

(* The writer may leave out the command object, the reader wants it.       *)
Call_decode(wire, pos) ==
    LET Made(r) ==
            IF ~r.ok \/ r.v[1].s = <<>> THEN Failed
            ELSE SrsCallPacket(NameOf(r.v[1].s), to_number(r.v[2]), r.v[3], r.v[4])
    IN  Made(Items(wire, pos, <<"string", "number", "any">>, <<"any">>))

(* No decode(): a response to a call is never read.                        *)
SrsCallResPacket(tid, obj, response) ==
    Packet("CallRes", "AMF0Command", "OverConnection",
           [name |-> "_result", tid |-> tid, obj |-> obj, response |-> response])

CallRes_items(p) == <<Str(p.name), Num(p.tid)>> \o Optional(p.obj) \o Optional(p.response)

SrsCreateStreamPacket ==
    Packet("CreateStream", "AMF0Command", "OverConnection", [name |-> "createStream", tid |-> 2])

CreateStream_items(p) == <<Str(p.name), Num(p.tid), SrsAmf0Null>>

CreateStream_decode(wire, pos) ==
    LET Made(r) == IF Named(r, {"createStream"}) THEN [SrsCreateStreamPacket EXCEPT !.tid = to_number(r.v[2])] ELSE Failed
    IN  Made(Items(wire, pos, <<"string", "number", "null">>, <<>>))

SrsCreateStreamResPacket(tid, sid) ==
    Packet("CreateStreamRes", "AMF0Command", "OverConnection", [name |-> "_result", tid |-> tid, sid |-> sid])

CreateStreamRes_items(p) == <<Str(p.name), Num(p.tid), SrsAmf0Null, Num(p.sid)>>

CreateStreamRes_decode(wire, pos) ==
    LET Made(r) == IF Named(r, {"_result"}) THEN SrsCreateStreamResPacket(to_number(r.v[2]), to_number(r.v[4])) ELSE Failed
    IN  Made(Items(wire, pos, <<"string", "number", "null", "number">>, <<>>))

(* Only ever read; the name is not looked at again.                        *)
SrsCloseStreamPacket(name, tid) ==
    Packet("CloseStream", "AMF0Command", "OverConnection", [name |-> name, tid |-> tid])

CloseStream_decode(wire, pos) ==
    LET Made(r) == IF r.ok THEN SrsCloseStreamPacket(NameOf(r.v[1].s), to_number(r.v[2])) ELSE Failed
    IN  Made(Items(wire, pos, <<"string", "number", "null">>, <<>>))

-----------------------------------------------------------------------------
(* The packets of publishing                                               *)

SrsFMLEStartPacket(name, tid, stream) ==
    Packet("FMLEStart", "AMF0Command", "OverConnection", [name |-> name, tid |-> tid, stream |-> stream])

create_release_stream(stream) == SrsFMLEStartPacket("releaseStream", 2, stream)

create_FC_publish(stream) == SrsFMLEStartPacket("FCPublish", 3, stream)

FMLEStart_items(p) == <<Str(p.name), Num(p.tid), SrsAmf0Null, Str(p.stream)>>

FMLEStart_decode(wire, pos) ==
    LET Made(r) ==
            IF Named(r, {"releaseStream", "FCPublish", "FCUnpublish"})
            THEN SrsFMLEStartPacket(NameOf(r.v[1].s), to_number(r.v[2]), NameOf(r.v[4].s)) ELSE Failed
    IN  Made(Items(wire, pos, <<"string", "number", "null", "string">>, <<>>))

SrsFMLEStartResPacket(tid) ==
    Packet("FMLEStartRes", "AMF0Command", "OverConnection", [name |-> "_result", tid |-> tid])

FMLEStartRes_items(p) == <<Str(p.name), Num(p.tid), SrsAmf0Null, SrsAmf0Undefined>>

FMLEStartRes_decode(wire, pos) ==
    LET Made(r) == IF Named(r, {"_result"}) THEN SrsFMLEStartResPacket(to_number(r.v[2])) ELSE Failed
    IN  Made(Items(wire, pos, <<"string", "number", "null", "undefined">>, <<>>))

SrsPublishPacket(stream, type) ==
    Packet("Publish", "AMF0Command", "OverStream",
           [name |-> "publish", tid |-> 0, stream |-> stream, how |-> type])

Publish_items(p) == <<Str(p.name), Num(p.tid), SrsAmf0Null, Str(p.stream), Str(p.how)>>

(* A publish without a type is live.                                       *)
Publish_decode(wire, pos) ==
    LET Made(r) ==
            IF ~Named(r, {"publish"}) THEN Failed
            ELSE [SrsPublishPacket(NameOf(r.v[4].s), NameOf(OrIf(r.v[5], Str("live")).s))
                    EXCEPT !.tid = to_number(r.v[2])]
    IN  Made(Items(wire, pos, <<"string", "number", "null", "string">>, <<"string">>))

-----------------------------------------------------------------------------
(* The packets of playing                                                  *)

SrsPausePacket(tid, is_pause, time_ms) ==
    Packet("Pause", "AMF0Command", "OverConnection",
           [name |-> "pause", tid |-> tid, is_pause |-> is_pause, time_ms |-> time_ms])

Pause_decode(wire, pos) ==
    LET Made(r) == IF Named(r, {"pause"}) THEN SrsPausePacket(to_number(r.v[2]), Bool(r.v[4]), to_number(r.v[5])) ELSE Failed
    IN  Made(Items(wire, pos, <<"string", "number", "null", "boolean", "number">>, <<>>))

(* start -2, duration -1 and reset TRUE are the defaults.                  *)
SrsPlayPacket(stream, start, duration, reset) ==
    Packet("Play", "AMF0Command", "OverStream",
           [name |-> "play", tid |-> 0, stream |-> stream, start |-> start, duration |-> duration, reset |-> reset])

(* An optional argument is written when it or one after it is not the      *)
(* default.                                                                *)
Play_items(p) ==
    <<Str(p.name), Num(p.tid), SrsAmf0Null, Str(p.stream)>>
    \o (IF p.start # -2 \/ p.duration # -1 \/ ~p.reset THEN <<Num(p.start)>> ELSE <<>>)
    \o (IF p.duration # -1 \/ ~p.reset THEN <<Num(p.duration)>> ELSE <<>>)
    \o (IF ~p.reset THEN <<SrsAmf0Boolean(p.reset)>> ELSE <<>>)

Play_decode(wire, pos) ==
    LET Made(r, reset) ==
            IF reset.m \notin {Boolean, Number} THEN Failed
            ELSE [SrsPlayPacket(NameOf(r.v[4].s), to_number(OrIf(r.v[5], Num(-2))), to_number(OrIf(r.v[6], Num(-1))),
                                IF reset.m = Boolean THEN Bool(reset) ELSE to_number(reset) # 0)
                    EXCEPT !.tid = to_number(r.v[2])]
        Checked(r) == IF Named(r, {"play"}) THEN Made(r, OrIf(r.v[7], SrsAmf0Boolean(TRUE))) ELSE Failed
    IN  Checked(Items(wire, pos, <<"string", "number", "null", "string">>, <<"number", "number", "any">>))

(* The answers: none of them has a decode() of its own.                    *)
SrsPlayResPacket(desc) == Packet("PlayRes", "AMF0Command", "OverStream", [name |-> "_result", tid |-> 0, data |-> desc])

SrsOnStatusCallPacket(data) == Packet("OnStatusCall", "AMF0Command", "OverStream", [name |-> "onStatus", tid |-> 0, data |-> data])

Status_items(p) == <<Str(p.name), Num(p.tid), SrsAmf0Null, p.data>>

SrsOnBWDonePacket == Packet("OnBWDone", "AMF0Command", "OverConnection", [name |-> "onBWDone", tid |-> 0])

OnBWDone_items(p) == <<Str(p.name), Num(p.tid), SrsAmf0Null>>

SrsOnStatusDataPacket(data) == Packet("OnStatusData", "AMF0Data", "OverStream", [name |-> "onStatus", data |-> data])

OnStatusData_items(p) == <<Str(p.name), p.data>>

SrsSampleAccessPacket(video, audio) ==
    Packet("SampleAccess", "AMF0Data", "OverStream", [name |-> "|RtmpSampleAccess", video |-> video, audio |-> audio])

SampleAccess_items(p) == <<Str(p.name), SrsAmf0Boolean(p.video), SrsAmf0Boolean(p.audio)>>

-----------------------------------------------------------------------------
(* Bandwidth checks and metadata                                           *)

SrsBandwidthPacket(command, data) ==
    Packet("Bandwidth", "AMF0Command", "OverStream", [name |-> command, tid |-> 0, data |-> data])

Bandwidth_items(p) == <<Str(p.name), Num(p.tid), SrsAmf0Null, p.data>>

(* The data is read for three of the commands only.                        *)
Bandwidth_decode(wire, pos) ==
    LET Made(r, data) == [SrsBandwidthPacket(NameOf(r.v[1].s), data) EXCEPT !.tid = to_number(r.v[2])]
        WithData(r, d) == IF d.ok THEN Made(r, d.v) ELSE Failed
        Checked(r) ==
            IF ~r.ok THEN Failed
            ELSE IF NameOf(r.v[1].s) \in {"stopPlay", "startPublish", "finished"}
            THEN WithData(r, object_read(wire, r.pos))
            ELSE Made(r, SrsAmf0Object(<<>>))
    IN  Checked(Items(wire, pos, <<"string", "number", "null">>, <<>>))

SrsOnMetaDataPacket(name, metadata) ==
    Packet("OnMetaData", "AMF0Data", "OverConnection2", [name |-> name, metadata |-> metadata])

OnMetaData_items(p) == <<Str(p.name), p.metadata>>

(* "@setDataFrame" is skipped; the properties of an ecma array are copied  *)
(* into an object; anything else is ignored.                               *)
OnMetaData_decode(wire, pos) ==
    LET Made(n, a) ==
            IF ~n.ok \/ ~a.ok THEN Failed
            ELSE SrsOnMetaDataPacket(NameOf(n.v.s),
                    CASE a.v.m = ObjectMark -> a.v
                      [] a.v.m = EcmaArray -> SrsAmf0Object(hashtable_copy(a.v.p))
                      [] OTHER -> SrsAmf0Object(<<>>))
        AfterName(n) == Made(n, srs_amf0_read_any(wire, n.pos))
        Skipped(h) ==
            IF h.ok /\ NameOf(h.v.s) = "@setDataFrame" THEN srs_amf0_read_string(wire, h.pos) ELSE h
    IN  AfterName(Skipped(srs_amf0_read_string(wire, pos)))

-----------------------------------------------------------------------------
(* Control messages: fixed fields                                          *)

SrsSetWindowAckSizePacket(size) ==
    Packet("SetWindowAckSize", "WindowAcknowledgementSize", "ProtocolControl", [value |-> size])

SrsAcknowledgementPacket(number) ==
    Packet("Acknowledgement", "Acknowledgement", "ProtocolControl", [value |-> number])

SrsSetChunkSizePacket(size) == Packet("SetChunkSize", "SetChunkSize", "ProtocolControl", [value |-> size])

SrsSetPeerBandwidthPacket(bandwidth, limit) ==
    Packet("SetPeerBandwidth", "SetPeerBandwidth", "ProtocolControl", [value |-> bandwidth, limit |-> limit])

SrsUserControlPacket(event, data, extra) ==
    Packet("UserControl", "UserControl", "ProtocolControl", [event |-> event, data |-> data, extra |-> extra])

UserControl_write(p) ==
    write_2bytes(p.event)
    \o (IF p.event = FmsEvent0 THEN <<p.data>> ELSE write_4bytes(p.data))
    \o (IF p.event = SetBufferLength THEN write_4bytes(p.extra) ELSE <<>>)

UserControl_size(p) == 2 + (IF p.event = FmsEvent0 THEN 1 ELSE 4) + (IF p.event = SetBufferLength THEN 4 ELSE 0)

UserControl_decode(wire, pos) ==
    LET event == read_2bytes(wire, pos)
        n == IF event = FmsEvent0 THEN 1 ELSE 4
        extra == event = SetBufferLength
    IN  IF ~Left(wire, pos, 2) THEN Failed
        ELSE IF ~Left(wire, pos + 2, n) \/ (extra /\ ~Left(wire, pos + 6, 4)) THEN Failed
        ELSE SrsUserControlPacket(event, IF n = 1 THEN wire[pos + 3] ELSE read_4bytes(wire, pos + 2),
                                  IF extra THEN read_4bytes(wire, pos + 6) ELSE 0)

FourBytes_decode(wire, pos, Make(_)) == IF Left(wire, pos, 4) THEN Make(read_4bytes(wire, pos)) ELSE Failed

-----------------------------------------------------------------------------
(* SrsPacket::encode()                                                     *)

AmfItems(p) ==
    CASE p.class = "ConnectApp" -> ConnectApp_items(p)
      [] p.class = "ConnectAppRes" -> ConnectAppRes_items(p)
      [] p.class = "Call" -> Call_items(p)
      [] p.class = "CallRes" -> CallRes_items(p)
      [] p.class = "CreateStream" -> CreateStream_items(p)
      [] p.class = "CreateStreamRes" -> CreateStreamRes_items(p)
      [] p.class = "FMLEStart" -> FMLEStart_items(p)
      [] p.class = "FMLEStartRes" -> FMLEStartRes_items(p)
      [] p.class = "Publish" -> Publish_items(p)
      [] p.class = "Play" -> Play_items(p)
      [] p.class \in {"PlayRes", "OnStatusCall"} -> Status_items(p)
      [] p.class = "OnBWDone" -> OnBWDone_items(p)
      [] p.class = "OnStatusData" -> OnStatusData_items(p)
      [] p.class = "SampleAccess" -> SampleAccess_items(p)
      [] p.class = "Bandwidth" -> Bandwidth_items(p)
      [] p.class = "OnMetaData" -> OnMetaData_items(p)

FourByteClasses == {"SetWindowAckSize", "Acknowledgement", "SetChunkSize"}

encode_packet(p) ==
    CASE p.class = "UserControl" -> UserControl_write(p)
      [] p.class \in FourByteClasses -> write_4bytes(p.value)
      [] p.class = "SetPeerBandwidth" -> write_4bytes(p.value) \o <<p.limit>>
      [] OTHER -> LET items == AmfItems(p) IN FlattenSeq([i \in DOMAIN items |-> srs_amf0_write_any(items[i])])

get_size(p) ==
    CASE p.class = "UserControl" -> UserControl_size(p)
      [] p.class \in FourByteClasses -> 4
      [] p.class = "SetPeerBandwidth" -> 5
      [] OTHER -> SumOver(AmfItems(p), total_size)

-----------------------------------------------------------------------------
(* SrsProtocol::do_decode_message()                                        *)

IsAmf3(type) == type = MessageTypes["AMF3Command"]

IsCommand(type) == type \in {MessageTypes["AMF0Command"], MessageTypes["AMF3Command"]}

(* requests maps the transaction ids of the requests that were sent to     *)
(* their names.                                                            *)
decode_response(requests, tid, wire, pos) ==
    IF tid \notin DOMAIN requests THEN Failed
    ELSE CASE requests[tid] = "connect" -> ConnectAppRes_decode(wire, pos)
           [] requests[tid] = "createStream" -> CreateStreamRes_decode(wire, pos)
           [] requests[tid] \in {"releaseStream", "FCPublish", "FCUnpublish"} -> FMLEStartRes_decode(wire, pos)
           [] OTHER -> Failed

decode_command(type, command, wire, pos) ==
    CASE command = "connect" -> ConnectApp_decode(wire, pos)
      [] command = "createStream" -> CreateStream_decode(wire, pos)
      [] command = "play" -> Play_decode(wire, pos)
      [] command = "pause" -> Pause_decode(wire, pos)
      [] command \in {"releaseStream", "FCPublish", "FCUnpublish"} -> FMLEStart_decode(wire, pos)
      [] command = "publish" -> Publish_decode(wire, pos)
      [] command \in {"@setDataFrame", "onMetaData"} -> OnMetaData_decode(wire, pos)
      [] command \in {BandwidthNames[i] : i \in DOMAIN BandwidthNames} -> Bandwidth_decode(wire, pos)
      [] command = "closeStream" -> CloseStream_decode(wire, pos)
      [] OTHER -> IF IsCommand(type) THEN Call_decode(wire, pos) ELSE [class |-> "dropped"]

do_decode_message(requests, type, wire) ==
    LET pos == IF IsAmf3(type) /\ Len(wire) > 0 THEN 1 ELSE 0
        Response(tid) == IF tid.ok THEN decode_response(requests, to_number(tid.v), wire, pos) ELSE Failed
        Command(named) ==
            IF ~named.ok THEN Failed
            ELSE IF NameOf(named.v.s) \in {"_result", "_error"}
            THEN Response(srs_amf0_read_number(wire, named.pos))
            ELSE decode_command(type, NameOf(named.v.s), wire, pos)
    IN  CASE IsCommand(type) \/ type \in {MessageTypes["AMF0Data"], MessageTypes["AMF3Data"]} ->
               Command(srs_amf0_read_string(wire, pos))
          [] type = MessageTypes["UserControl"] -> UserControl_decode(wire, 0)
          [] type = MessageTypes["WindowAcknowledgementSize"] ->
               FourBytes_decode(wire, 0, SrsSetWindowAckSizePacket)
          [] type = MessageTypes["SetChunkSize"] -> FourBytes_decode(wire, 0, SrsSetChunkSizePacket)
          [] OTHER -> [class |-> "dropped"]
=============================================================================
