------------------------------- MODULE FlvFile -------------------------------
(***************************************************************************)
(* FLV tags: the writer (SrsFlvTransmuxer), the readers (SrsFlvDecoder,    *)
(* SrsFlvVodStreamDecoder) over a file that may end anywhere, and the      *)
(* aggregate messages of RTMP, which are tags too (SrsSource).             *)
(*                                                                         *)
(* Bytes are numbers; Unread stands for a byte of a buffer that nobody has *)
(* written.  A tag has a type, a time below 2^31 and data.                 *)
(***************************************************************************)
EXTENDS Integers, Sequences, SequencesExt

FlvAudio  == 8
FlvVideo  == 9
FlvScript == 18

TagHeaderSize   == 11
PreviousTagSize == 4
Unread == -1

Tag(type, time, data) == [type |-> type, time |-> time, data |-> data]

(* The w bytes of n, and the number bytes s make.                          *)
BigEndian(n, w) == [i \in 1..w |-> (n \div 256 ^ (w - i)) % 256]
FromBytes(s)    == FoldLeft(LAMBDA n, b : 256 * n + b, 0, s)

-----------------------------------------------------------------------------
(* SrsFlvTransmuxer                                                        *)

flv_header == <<70, 76, 86, 1, 5, 0, 0, 0, 9>> \o <<0, 0, 0, 0>>

(* The extended byte of the time comes after the lower three.              *)
TagHeader(type, size, time) ==
    <<type>> \o BigEndian(size, 3) \o BigEndian(time % 16777216, 3)
             \o BigEndian(time \div 16777216, 1) \o <<0, 0, 0>>

write_metadata_to_cache(size)    == TagHeader(FlvScript, size, 0)
write_audio_to_cache(time, size) == TagHeader(FlvAudio, size, time)
write_video_to_cache(time, size) == TagHeader(FlvVideo, size, time)
write_pts_to_cache(size)         == BigEndian(size, PreviousTagSize)

write_tag(header, data) == header \o data \o write_pts_to_cache(Len(header) + Len(data))

size_tag(n) == TagHeaderSize + n + PreviousTagSize

write_tags(tags) ==
    FlattenSeq([i \in DOMAIN tags |->
        LET t == tags[i]
            n == Len(t.data)
        IN  write_tag(CASE t.type = FlvAudio -> write_audio_to_cache(t.time, n)
                        [] t.type = FlvVideo -> write_video_to_cache(t.time, n)
                        [] OTHER -> write_metadata_to_cache(n), t.data)])

-----------------------------------------------------------------------------
(* SrsFileReader: a read fails only when nothing at all is left; what it   *)
(* does not reach of the buffer keeps its old bytes.                       *)
file_read(file, pos, old) ==
    [ok    |-> old # <<>> /\ pos < Len(file),
     bytes |-> [i \in DOMAIN old |-> IF pos + i <= Len(file) THEN file[pos + i] ELSE old[i]],
     pos   |-> IF pos + Len(old) <= Len(file) THEN pos + Len(old) ELSE Len(file)]

Buffer(n) == [i \in 1..n |-> Unread]

read_tag_header(file, pos) ==
    LET r == file_read(file, pos, Buffer(TagHeaderSize))
        h == r.bytes
    IN  [ok |-> r.ok, pos |-> r.pos, type |-> h[1] % 32, size |-> FromBytes(SubSeq(h, 2, 4)),
         time |-> 16777216 * h[8] + FromBytes(SubSeq(h, 5, 7))]

read_tag_data(file, pos, size) == file_read(file, pos, Buffer(size))
read_previous_tag_size(file, pos) == file_read(file, pos, Buffer(PreviousTagSize))

(* A program that takes tag after tag until a read fails.                  *)
RECURSIVE ReadTags(_, _, _)
ReadTags(file, pos, tags) ==
    LET h == read_tag_header(file, pos)
        d == read_tag_data(file, h.pos, h.size)
        p == read_previous_tag_size(file, d.pos)
    IN  IF h.ok /\ d.ok /\ p.ok
        THEN ReadTags(file, p.pos, Append(tags, Tag(h.type, h.time, d.bytes)))
        ELSE tags

read_header(file) ==
    LET r == file_read(file, 0, Buffer(9))
    IN  r.ok /\ SubSeq(r.bytes, 1, 3) = <<70, 76, 86>>

(* read_sequence_header_summary() with the file at pos, the header read    *)
(* before, the media got and the range found so far.                       *)
(* Mutant: the range ends before the size of its last tag.                 *)
Grown_less(range, pos, size) ==
    [start |-> IF range.start < 0 THEN pos - TagHeaderSize ELSE range.start,
     end   |-> pos + size]

Grown(range, pos, size) ==
    [start |-> IF range.start < 0 THEN pos - TagHeaderSize ELSE range.start,
     end   |-> pos + size + PreviousTagSize]

RECURSIVE Summary(_, _, _, _, _)
Summary(file, pos, old, media, range) ==
    LET r    == file_read(file, pos, old)
        type == r.bytes[1]
        size == FromBytes(SubSeq(r.bytes, 2, 4))
        Next == r.pos + size + PreviousTagSize
    IN  IF ~r.ok THEN [ok |-> FALSE, start |-> -1, size |-> 0]
        ELSE IF type \notin {FlvAudio, FlvVideo} THEN Summary(file, Next, r.bytes, media, range)
        ELSE IF type \in media
        THEN [ok |-> TRUE, start |-> range.start, size |-> range.end - range.start]
        ELSE Summary(file, Next, r.bytes, media \cup {type}, Grown(range, r.pos, size))

(* After read_header_ext(), which takes the first previous size as well.   *)
read_sequence_header_summary(file) ==
    Summary(file, file_read(file, 0, Buffer(13)).pos, [i \in 1..TagHeaderSize |-> 0], {},
            [start |-> -1, end |-> -1])

-----------------------------------------------------------------------------
(* SrsSource::on_aggregate(): the audio and video it hands on, with the    *)
(* times made relative to the aggregate's by a delta that -1 marks as not  *)
(* yet known, and whether it ends with an error.                           *)
Delta(delta, now, time) == IF delta = -1 THEN now - time ELSE delta

RECURSIVE Aggregated(_, _, _, _, _)
Aggregated(now, s, pos, delta, out) ==
    LET left  == Len(s) - pos
        type  == s[pos + 1]
        size  == FromBytes(SubSeq(s, pos + 2, pos + 4))
        time  == FromBytes(SubSeq(s, pos + 5, pos + 7)) + (s[pos + 8] % 128) * 16777216
        d     == Delta(delta, now, time)
        data  == SubSeq(s, pos + TagHeaderSize + 1, pos + TagHeaderSize + size)
    IN  IF left = 0 THEN [msgs |-> out, err |-> "ok"]
        ELSE IF left < TagHeaderSize THEN [msgs |-> out, err |-> "error"]
        ELSE IF left < size_tag(size) THEN [msgs |-> out, err |-> "error"]
        ELSE Aggregated(now, s, pos + size_tag(size), d,
                        IF type \in {FlvAudio, FlvVideo} THEN Append(out, Tag(type, time + d, data)) ELSE out)

on_aggregate(now, s) == Aggregated(now, s, 0, -1, <<>>)

(* What a publisher packs into one aggregate.                              *)
Aggregate(tags) ==
    FlattenSeq([i \in DOMAIN tags |->
        write_tag(TagHeader(tags[i].type, Len(tags[i].data), tags[i].time), tags[i].data)])
=============================================================================
