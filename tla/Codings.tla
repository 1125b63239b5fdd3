------------------------------- MODULE Codings -------------------------------
(***************************************************************************)
(* One side writes an object, a message or file may end early, the other   *)
(* side reads it.                                                          *)
(***************************************************************************)
EXTENDS RtmpPackets, Mp4Tree, MediaFormat, FlvFile, TsStream

CONSTANTS MaxCut,    \* how many bytes the end of a message may lack
          MaxTags,   \* how many tags an FLV file or an aggregate has at most
          Nows       \* the times of aggregate messages

VARIABLES subject, stage, coded, readback

codingVars == <<subject, stage, coded, readback>>

allCodingVars == <<codingVars, mediaVars, tsVars>>

-----------------------------------------------------------------------------
(* The objects that are written                                            *)

Scalars == {Num(0), Num(9), Num(-1), SrsAmf0String(<<>>), SrsAmf0String(<<97>>), SrsAmf0Boolean(TRUE),
            SrsAmf0Boolean(FALSE), SrsAmf0Null, SrsAmf0Undefined, SrsAmf0Date(<<64, 1, 0, 0, 0, 0, 0, 0, 0, 9>>)}

Properties(vs) == {<<>>} \cup {<<<<<<1>>, v>>>> : v \in vs} \cup {<<<<<<1>>, Num(1)>>, <<<<>>, v>>>> : v \in vs}

Containers(vs) ==
    {SrsAmf0Object(p) : p \in Properties(vs)} \cup {SrsAmf0EcmaArray(p, Len(p)) : p \in Properties(vs)}
    \cup {SrsAmf0StrictArray(<<>>)} \cup {SrsAmf0StrictArray(<<v, Num(2)>>) : v \in vs}

AmfValues == Scalars \cup Containers(Scalars \cup Containers({Num(3), SrsAmf0Null}))

Obj0 == SrsAmf0Object(<<>>)

Obj1 == SrsAmf0Object(<<<<<<1>>, Num(1)>>, <<<<2>>, Str("live")>>>>)

Packets ==
    {SrsConnectAppPacket(Obj1, a) : a \in {NoValue, Obj0, Obj1}}
    \cup {SrsConnectAppResPacket(o, Obj1) : o \in {Obj0, Obj1}}
    \cup {SrsCallPacket("other", 5, o, a) : o \in {SrsAmf0Null, Obj1}, a \in {NoValue, Num(3), Obj0}}
    \cup {SrsCallResPacket(5, SrsAmf0Null, Obj1), SrsCreateStreamPacket, SrsCreateStreamResPacket(2, 1)}
    \cup {create_release_stream("stream"), create_FC_publish("stream"), SrsFMLEStartPacket("FCUnpublish", 6, "")}
    \cup {SrsFMLEStartResPacket(t) : t \in {3, 6}}
    \cup {SrsPublishPacket("stream", t) : t \in {"live", "other"}}
    \cup {SrsPlayPacket("stream", s, d, r) : s \in {-2, -1, 0}, d \in {-1, 7}, r \in BOOLEAN}
    \cup {SrsPlayResPacket(Obj1), SrsOnStatusCallPacket(Obj1), SrsOnBWDonePacket, SrsOnStatusDataPacket(Obj1),
          SrsSampleAccessPacket(TRUE, FALSE), SrsOnMetaDataPacket("onMetaData", Obj1)}
    \cup {SrsBandwidthPacket(n, Obj1) : n \in {"stopPlay", "startPublish", "finished", "final"}}
    \cup {SrsSetWindowAckSizePacket(250), SrsAcknowledgementPacket(300), SrsSetChunkSizePacket(4096),
          SrsSetPeerBandwidthPacket(250, 2)}
    \cup {SrsUserControlPacket(e, 1, IF e = SetBufferLength THEN 300 ELSE 0) :
             e \in {StreamBegin, SetBufferLength, PingRequest, PingResponse, FmsEvent0}}

Boxes == UNION {{Box(t, o, <<>>) : o \in Members[t]} : t \in DOMAIN Members}

(* Script data, whose time is not written, audio, and video twice, once    *)
(* with a time of more than 24 bits.                                       *)
FlvTags == {Tag(FlvScript, 0, <<2>>), Tag(FlvAudio, 4, <<175, 1>>),
            Tag(FlvVideo, 5, <<23>>), Tag(FlvVideo, 16777220, <<39, 1, 255>>)}

FlvFiles == BoundedSeq(FlvTags, MaxTags)

Aggregates == {[now |-> t, tags |-> f] : t \in Nows, f \in FlvFiles \ {<<>>}}

Subjects ==
    {[kind |-> "amf0", x |-> v] : v \in AmfValues}
    \cup {[kind |-> "packet", x |-> p] : p \in Packets}
    \cup {[kind |-> "amf3", x |-> p] : p \in {q \in Packets : q.type = MessageTypes["AMF0Command"]}}
    \cup {[kind |-> "box", x |-> b] : b \in Boxes}
    \cup {[kind |-> "flv", x |-> f] : f \in FlvFiles}
    \cup {[kind |-> "aggregate", x |-> a] : a \in Aggregates}

(* The requests the reader of the packets has sent.                        *)
Requests == (1 :> "connect") @@ (2 :> "createStream") @@ (3 :> "FCPublish") @@ (6 :> "FCUnpublish")

-----------------------------------------------------------------------------
TagsSize(tags) == FoldLeft(LAMBDA n, t : n + size_tag(Len(t.data)), 0, tags)

DeclaredSize(s) ==
    CASE s.kind = "amf0" -> total_size(s.x)
      [] s.kind = "packet" -> get_size(s.x)
      [] s.kind = "amf3" -> 1 + get_size(s.x)
      [] s.kind = "box" -> nb_bytes(s.x)
      [] s.kind = "flv" -> 13 + TagsSize(s.x)
      [] s.kind = "aggregate" -> TagsSize(s.x.tags)

Written(s) ==
    CASE s.kind = "amf0" -> srs_amf0_write_any(s.x)
      [] s.kind = "packet" -> encode_packet(s.x)
      [] s.kind = "amf3" -> <<0>> \o encode_packet(s.x)
      [] s.kind = "box" -> encode(s.x)
      [] s.kind = "flv" -> flv_header \o write_tags(s.x)
      [] s.kind = "aggregate" -> Aggregate(s.x.tags)

(* An AMF3 command is an AMF0 one after a byte.                            *)
ReadBack(s, bytes) ==
    CASE s.kind = "amf0" -> srs_amf0_read_any(bytes, 0)
      [] s.kind \in {"packet", "amf3"} ->
           do_decode_message(Requests, IF s.kind = "amf3" THEN MessageTypes["AMF3Command"] ELSE s.x.type, bytes)
      [] s.kind = "box" -> decode(bytes, 0)
      [] s.kind = "flv" -> [ok |-> read_header(bytes), tags |-> ReadTags(bytes, 13, <<>>),
                            summary |-> read_sequence_header_summary(bytes)]
      [] s.kind = "aggregate" -> on_aggregate(s.x.now, bytes)

NoSubject == [kind |-> "none", x |-> NoValue]

CodingInit == MediaInit /\ TsInit /\ subject = NoSubject /\ stage = "idle" /\ coded = <<>> /\ readback = Failed

WriteSubject(s) ==
    /\ subject' = s
    /\ stage' = "written"
    /\ coded' = Written(s)
    /\ UNCHANGED readback

(* The message is read whole, or n bytes shorter than it was written.      *)
ReadMessage(n) ==
    /\ stage = "written"
    /\ n < Len(coded)
    /\ stage' = IF n = 0 THEN "read" ELSE "short"
    /\ coded' = SubSeq(coded, 1, Len(coded) - n)
    /\ readback' = ReadBack(subject, coded')
    /\ UNCHANGED subject

(* The messages, the media and the transport stream are coded apart.       *)
CodingNext ==
    \/ /\ count = 0 /\ TsIdle
       /\ UNCHANGED <<mediaVars, tsVars>>
       /\ \/ stage = "idle" /\ \E s \in Subjects : WriteSubject(s)
          \/ \E n \in 0..MaxCut : ReadMessage(n)
    \/ stage = "idle" /\ TsIdle /\ UNCHANGED <<codingVars, tsVars>> /\ MediaNext
    \/ stage = "idle" /\ count = 0 /\ UNCHANGED <<codingVars, mediaVars>> /\ TsNext

CodingSpec == CodingInit /\ [][CodingNext]_allCodingVars

-----------------------------------------------------------------------------
(* Every get_size(), total_size() and nb_bytes() is the number of bytes    *)
(* that are then written: SrsPacket::encode and SrsMp4Box::encode allocate *)
(* or fix sizes by it before the bytes exist.                              *)
SizesAgree == stage = "written" => Len(coded) = DeclaredSize(subject)

(* An AMF0 value of any nesting is read as it was written, and the reader  *)
(* stops behind its last byte.                                             *)
ValuesRead ==
    stage = "read" /\ subject.kind = "amf0" => readback = Read(subject.x, DeclaredSize(subject))

(* The classes do_decode_message() creates packets of.                     *)
Decoded ==
    {"ConnectApp", "ConnectAppRes", "Call", "CreateStream", "CreateStreamRes", "FMLEStart", "FMLEStartRes",
     "Publish", "Play", "OnMetaData", "SetWindowAckSize", "SetChunkSize", "UserControl"}

(* A packet one side sends is the packet the other side has, over AMF0 and *)
(* AMF3; one that has no decode() is refused or ignored, or a call of the  *)
(* same name, and never taken for something else.                          *)
PacketsRead ==
    stage = "read" /\ subject.kind \in {"packet", "amf3"} =>
        IF subject.x.class \in Decoded THEN readback = subject.x
        ELSE \/ readback.class \in {"failed", "dropped"}
             \/ readback.class \in {"Call", "Bandwidth"} /\ readback.name = subject.x.name /\ readback.tid = subject.x.tid

(* Every box is read with the members it was written with, to its end.     *)
BoxesRead ==
    stage = "read" /\ subject.kind = "box" =>
        readback.ok /\ readback.pos = Len(coded) /\ SameBox(subject.x, readback.box)

(* a is b, or a container of which b has more: the end mark, the count and *)
(* what follows are not required at the end of a message.                  *)
RECURSIVE PartOf(_, _)
PartOf(a, b) ==
    \/ a = b
    \/ /\ a.m = b.m /\ a.m \in {ObjectMark, EcmaArray, StrictArray}
       /\ Len(a.p) <= Len(b.p)
       /\ \A i \in DOMAIN a.p : a.p[i][1] = b.p[i][1] /\ PartOf(a.p[i][2], b.p[i][2])

(* What the constructors leave in a member the message does not reach.     *)
Defaults == [args |-> NoValue, obj |-> NoValue, props |-> Obj0, how |-> "live", start |-> -2, duration |-> -1, reset |-> TRUE]

Values == {"obj", "args", "props", "info", "data", "metadata"}

(* A message that ends early is refused, or it yields less than was sent   *)
(* and nothing else: every member is the sender's, a part of it, or the    *)
(* default; a box is always refused.                                       *)
CutYieldsLess ==
    stage = "short" =>
        CASE subject.kind \in {"flv", "aggregate"} -> TRUE
          [] subject.kind = "box" -> ~readback.ok
          [] subject.kind = "amf0" -> readback.ok => PartOf(readback.v, subject.x)
          [] OTHER -> \/ readback.class \in {"failed", "dropped"} \/ subject.x.class \notin Decoded
                      \/ \A f \in DOMAIN readback \ {"class", "type", "cid"} :
                            \/ f \in Values /\ PartOf(readback[f], subject.x[f])
                            \/ f \notin Values /\ readback[f] = subject.x[f]
                            \/ f \in DOMAIN Defaults /\ readback[f] = Defaults[f]

(* The tags of which the first n bytes hold more than the data: a tag is   *)
(* taken when its data is whole and the size after it has begun.           *)
WholeTags(tags, n, least) ==
    LET k == CHOOSE k \in 0..Len(tags) :
                 /\ \A i \in 1..k : TagsSize(SubSeq(tags, 1, i)) - PreviousTagSize + least <= n
                 /\ k < Len(tags) =>
                        TagsSize(SubSeq(tags, 1, k + 1)) - PreviousTagSize + least > n
    IN  SubSeq(tags, 1, k)

(* Of a file that ends anywhere, exactly the tags that are whole are read, *)
(* with their types, times and data, and no byte that was not written,     *)
(* although no reader asks how much a read returned.                       *)
TagsRead ==
    stage \in {"read", "short"} /\ subject.kind = "flv" =>
        readback.tags = WholeTags(subject.x, Len(coded) - 13, 1)

(* Where a second tag of some medium tells that the headers are over, the  *)
(* range found begins with the first tag of a medium and holds exactly the *)
(* tags before that one, trailing script data aside; the file ends before  *)
(* there is one if it has not two of a medium.                             *)
SummaryFound ==
    stage = "read" /\ subject.kind = "flv" =>
        LET f == subject.x
            s == readback.summary
            Again == {i \in DOMAIN f : f[i].type # FlvScript /\ \E j \in 1..i - 1 : f[j].type = f[i].type}
            First == {i \in DOMAIN f : f[i].type # FlvScript /\ \A j \in 1..i - 1 : f[j].type # f[i].type}
            until == CHOOSE i \in Again : \A j \in Again : i <= j
            Heads == {i \in First : i < until}
            range == SubSeq(f, CHOOSE i \in Heads : \A j \in Heads : i <= j,
                               CHOOSE i \in Heads : \A j \in Heads : i >= j)
        IN  /\ s.ok <=> Again # {}
            /\ s.ok => /\ s.size = TagsSize(range)
                       /\ ReadTags(SubSeq(coded, 1, s.start + s.size), s.start, <<>>) = range

(* An aggregate becomes its audio and video, in order and none lost before *)
(* the place where it ends early, which is an error unless it is between   *)
(* two of them; the first message gets the time of the aggregate and the   *)
(* others keep their distance from it, unless that first shift is -1, the  *)
(* value that means there is none yet.                                     *)
AggregateSplit ==
    stage \in {"read", "short"} /\ subject.kind = "aggregate" =>
        LET tags  == subject.x.tags
            shift == subject.x.now - tags[1].time
            whole == WholeTags(tags, Len(coded), PreviousTagSize)
            media == SelectSeq(whole, LAMBDA t : t.type # FlvScript)
        IN  /\ readback.err = IF TagsSize(whole) = Len(coded) THEN "ok" ELSE "error"
            /\ Len(readback.msgs) = Len(media)
            /\ \A i \in DOMAIN media :
                  /\ readback.msgs[i].type = media[i].type /\ readback.msgs[i].data = media[i].data
                  /\ shift # -1 => readback.msgs[i].time = media[i].time + shift

(* What is written has the size that was declared before and is read as    *)
(* what it was: AMF0 values, RTMP packets and MP4 boxes.                   *)
ReadAsWritten == SizesAgree /\ ValuesRead /\ PacketsRead /\ BoxesRead

(* What muxers make of encoded pictures and sound, demuxers take apart     *)
(* again: picture size, units, audio frames, and the payload for TS.       *)
FramesKept == SizeRead /\ UnitsKept /\ AudioKept /\ TsPayloadRead

(* FLV tags, of a file or of an aggregate, whole or cut short, are the     *)
(* tags that were written, and the headers among them are found.           *)
TagsKept == TagsRead /\ SummaryFound /\ AggregateSplit
====
