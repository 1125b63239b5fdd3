------------------------------- MODULE Mp4Tree -------------------------------
(***************************************************************************)
(* Boxes inside boxes: SrsMp4Box::encode and decode.  A box is a record of *)
(* its type, its members o (see Mp4Boxes) and the boxes it contains; the   *)
(* entries of dref and stsd, which are boxes too, are its boxes.           *)
(***************************************************************************)
EXTENDS Mp4Boxes

Box(t, o, boxes) == [type |-> t, o |-> o, boxes |-> boxes]

NoBox == [type |-> "none", o |-> <<>>, boxes |-> <<>>]

(* get(): the first box of a type, or none.                                *)
get_box(b, t) ==
    IF \E i \in DOMAIN b.boxes : b.boxes[i].type = t
    THEN b.boxes[Min({i \in DOMAIN b.boxes : b.boxes[i].type = t})]
    ELSE NoBox

(* The set_xxx() functions: remove() the box of that type, push_back().    *)
put(b, kid) ==
    [b EXCEPT !.boxes = Append(SelectSeq(@, LAMBDA k : k.type # kid.type), kid)]

(* set_tkhd() and set_mdhd() insert at the beginning instead.              *)
put_first(b, kid) ==
    [b EXCEPT !.boxes = <<kid>> \o SelectSeq(@, LAMBDA k : k.type # kid.type)]

-----------------------------------------------------------------------------
(* The boxes that only contain others, set in the order of the arguments.  *)

(* add_trak() pushes without a remove().                                   *)
SrsMp4MovieBox(mvhd, traks, mvexs) ==
    LET head == put(Box("moov", <<>>, <<>>), mvhd)
    IN  FoldLeft(put, [head EXCEPT !.boxes = @ \o traks], mvexs)

SrsMp4MovieExtendsBox(trex) == put(Box("mvex", <<>>, <<>>), trex)

SrsMp4TrackBox(tkhd, mdia) == put(put_first(Box("trak", <<>>, <<>>), tkhd), mdia)

SrsMp4MediaBox(mdhd, hdlr, minf) == put(put(put_first(Box("mdia", <<>>, <<>>), mdhd), hdlr), minf)

SrsMp4MediaInformationBox(mhd, dinf, stbl) == put(put(put(Box("minf", <<>>, <<>>), mhd), dinf), stbl)

SrsMp4DataInformationBox(dref) == put(Box("dinf", <<>>, <<>>), dref)

SrsMp4SampleTableBox(tables) == FoldLeft(put, Box("stbl", <<>>, <<>>), tables)

SrsMp4MovieFragmentBox(mfhd, traf) == put(put(Box("moof", <<>>, <<>>), mfhd), traf)

SrsMp4TrackFragmentBox(tfhd, tfdt, trun) == put(put(put(Box("traf", <<>>, <<>>), tfhd), tfdt), trun)

(* track_type(): what the handler of the media says.                       *)
track_type(trak) == V(get_box(get_box(trak, "mdia"), "hdlr").o, "handler_type")

(* video() and audio(): the first track of that type.                      *)
TrackOf(moov, handler) ==
    LET is == {i \in DOMAIN moov.boxes : moov.boxes[i].type = "trak" /\ track_type(moov.boxes[i]) = handler}
    IN  IF is = {} THEN NoBox ELSE moov.boxes[Min(is)]

(* The accessors of a track that look into its boxes.                      *)
stbl_of(trak) == get_box(get_box(get_box(trak, "mdia"), "minf"), "stbl")

avcc_of(trak) == get_box(get_box(get_box(stbl_of(trak), "stsd"), "avc1"), "avcC")

asc_of(trak) == get_box(get_box(get_box(stbl_of(trak), "stsd"), "mp4a"), "esds")

(* Two trees with the same boxes and the same members; a member that is    *)
(* not set is 0.                                                           *)
RECURSIVE SameBox(_, _)
SameBox(a, b) ==
    /\ a.type = b.type
    /\ \A k \in DOMAIN a.o : (IF k \in DOMAIN b.o THEN b.o[k] ELSE 0) = a.o[k]
    /\ Len(a.boxes) = Len(b.boxes)
    /\ \A i \in DOMAIN a.boxes : SameBox(a.boxes[i], b.boxes[i])

-----------------------------------------------------------------------------
(* Encoding                                                                *)

(* The boxes whose contained boxes belong to the header.                   *)
EntriesInHeader == {"dref", "stsd"}

RECURSIVE nb_bytes(_)
nb_bytes(b) ==
    discovery(b.type, b.o).nb + V(b.o, "nb_data") + FoldLeft(LAMBDA n, kid : n + nb_bytes(kid), 0, b.boxes)

(* The members encode() fixes before it writes: the size, the lengths of   *)
(* the descriptors, the number of entries, the flags of an empty url.      *)
Prepared(b) ==
    LET Described(o) == IF b.type = "esds" THEN DescriptorLengths(o) @@ o ELSE o
        Entered(o)   == IF b.type \in EntriesInHeader THEN Set(o, "entry_count", Len(b.boxes)) ELSE o
        Located(o)   == IF b.type = "url" /\ V(o, "location") = 0 THEN Set(o, "flags", 1) ELSE o
    IN  Located(Entered(Described(Set(Set(b.o, "smallsize", nb_bytes(b)), "type", TypeCode(b.type)))))

(* One item; srs_mp4_string_write() writes nothing for an empty string.    *)
encode_item(o, item) ==
    LET k == <<item[1], item[2]>>
        v == IF k \in DOMAIN o THEN o[k] ELSE 0
    IN  CASE item[3] > 0 -> Put(v, item[3])
          [] item[3] = VarLen -> Put(v, LengthBytes(v))
          [] item[3] = CString -> IF v = 0 THEN <<>> ELSE [i \in 1..v |-> <<1, 1, 1>>] \o Put(0, 1)

encode_header(t, o) ==
    LET Written(l) == FlattenSeq([i \in DOMAIN l |-> encode_item(o, l[i])]) IN Written(discovery(t, o).w)

RECURSIVE encode(_)
encode(b) ==
    encode_header(b.type, Prepared(b)) \o FlattenSeq([i \in DOMAIN b.boxes |-> encode(b.boxes[i])])

-----------------------------------------------------------------------------
(* A reading position: the members read so far, where, and no error yet.   *)
At(o, pos, ok) == [o |-> o, pos |-> pos, ok |-> ok]

(* Mutant: a string may lack its zero.                                     *)
read_string_open(wire, pos, left) ==
    LET ends == {n \in 0..(left - 1) : Get(wire, pos + n, 1) = 0}
    IN  IF ends = {} THEN [n |-> left, w |-> left, ok |-> TRUE]
        ELSE [n |-> Min(ends), w |-> Min(ends) + 1, ok |-> TRUE]

(* srs_mp4_string_read(): up to the zero, which must lie inside the box.   *)
read_string(wire, pos, left) ==
    LET ends == {n \in 0..(left - 1) : Get(wire, pos + n, 1) = 0}
    IN  IF left = 0 THEN [n |-> 0, w |-> 0, ok |-> TRUE]
        ELSE IF ends = {} THEN [n |-> 0, w |-> 0, ok |-> FALSE]
        ELSE [n |-> Min(ends), w |-> Min(ends) + 1, ok |-> TRUE]

decode_item(at, item, wire, start) ==
    LET k == <<item[1], item[2]>>
        Store(v, w) == At(IF item[1] = "_" THEN at.o ELSE (k :> v) @@ at.o, at.pos + w, TRUE)
        str == read_string(wire, at.pos, V(at.o, "smallsize") - (at.pos - start))
    IN  CASE item[3] > 0 ->
                IF Require(wire, at.pos, item[3])
                THEN Store(IF item[1] = "_" THEN 0 ELSE Get(wire, at.pos, item[3]), item[3])
                ELSE At(at.o, at.pos, FALSE)
          [] item[3] = VarLen ->
                IF Require(wire, at.pos, 1)
                THEN Store(Get(wire, at.pos, wire[at.pos + 1][3]), wire[at.pos + 1][3])
                ELSE At(at.o, at.pos, FALSE)
          [] item[3] = CString ->
                IF str.ok THEN Store(str.n, str.w) ELSE At(at.o, at.pos, FALSE)

(* decode_header(): the items after the i-th are those of the members read *)
(* so far; an element of an array decides nothing.                         *)
RECURSIVE decode_header(_, _, _, _, _, _)
decode_header(t, l, i, at, wire, start) ==
    IF ~at.ok \/ i > Len(l) THEN at
    ELSE LET next == decode_item(at, l[i], wire, start)
         IN  decode_header(t, IF l[i][2] = 0 THEN discovery(t, next.o).r ELSE l, i + 1, next, wire, start)

(* The entries dref and stsd keep; dref gives its own version and flags to *)
(* every entry.                                                            *)
AcceptEntry(parent, t, kid) ==
    CASE t = "dref" -> IF kid.type \in {"url", "urn"}
                       THEN <<[kid EXCEPT !.o = Set(Set(@, "version", V(parent, "version")),
                                                    "flags", V(parent, "flags"))]>>
                       ELSE <<>>
      [] t = "stsd" -> IF kid.type \in {"avc1", "mp4a"} THEN <<kid>> ELSE <<>>
      [] OTHER -> <<kid>>

(* decode_boxes() while bytes are left; the entries of dref and stsd by    *)
(* their number.                                                           *)
RECURSIVE decode(_, _), decode_boxes(_, _, _, _, _, _)
decode_boxes(t, o, wire, pos, left, kids) ==
    IF left <= 0 THEN [boxes |-> kids, pos |-> pos, ok |-> TRUE]
    ELSE LET After(d) ==
                IF ~d.ok THEN [boxes |-> kids, pos |-> pos, ok |-> FALSE]
                ELSE decode_boxes(t, o, wire, d.pos,
                       left - (IF t \in EntriesInHeader THEN 1 ELSE V(d.box.o, "smallsize")),
                       kids \o AcceptEntry(o, t, d.box))
         IN  After(decode(wire, pos))

(* discovery() of the type, then decode(); mdat contains no boxes.         *)
decode(wire, start) ==
    LET code == Get(wire, start + 4, 4)
        fail == [box |-> NoBox, pos |-> start, ok |-> FALSE]
        Left(t, h) == IF t \in EntriesInHeader THEN V(h.o, "entry_count") ELSE V(h.o, "smallsize") - (h.pos - start)
        AfterBoxes(t, h, kids) ==
            IF kids.ok THEN [box |-> Box(t, h.o, kids.boxes), pos |-> kids.pos, ok |-> TRUE] ELSE fail
        AfterHeader(t, h) ==
            IF ~h.ok THEN fail
            ELSE IF t = "mdat" THEN [box |-> Box(t, h.o, <<>>), pos |-> h.pos, ok |-> TRUE]
            ELSE AfterBoxes(t, h, decode_boxes(t, h.o, wire, h.pos, Left(t, h), <<>>))
        Header(t) == decode_header(t, discovery(t, <<>>).r, 1, At(<<>>, start, TRUE), wire, start)
    IN  IF ~Require(wire, start, 8) \/ code \notin DOMAIN BoxTypes THEN fail
        ELSE AfterHeader(BoxTypes[code], Header(BoxTypes[code]))
=============================================================================
