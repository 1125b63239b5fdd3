------------------------------- MODULE Mp4File -------------------------------
(***************************************************************************)
(* A recording: SrsMp4Encoder writes the samples of a stream and, when it  *)
(* is flushed, the index; SrsMp4Decoder reads the file back, or what is    *)
(* left of it when the recorder stopped before the flush.                  *)
(* SrsMp4M2tsInitEncoder and SrsMp4M2tsSegmentEncoder write fragments.     *)
(*                                                                         *)
(* The file is a sequence of bytes (see ByteLayout); the payload of the    *)
(* n-th sample is Put(Payload + n, size), of a sequence header h Put(h, 2).*)
(***************************************************************************)
EXTENDS Mp4Samples

CONSTANTS
    BufSize,     \* SRS_MP4_BUF_SIZE: how much the box reader reads at once
    MaxSamples,  \* bound: samples of a recording
    Deltas,      \* how far a sample may be from the sample before it
    Ctss         \* the composition offsets of video samples

ASSUME Mp4FileAssumption == BufSize \in Nat \ {0} /\ Deltas \subseteq Nat /\ Ctss \subseteq Nat

VARIABLES
    mode,     \* what is going on: "new", "file", "segment", "decode"
    enc,      \* the encoder
    file,     \* the bytes written
    flushed,  \* did flush() return?
    dec       \* the decoder

mp4Vars == <<mode, enc, file, flushed, dec>>

Payload == 1000

(* How many bytes a sample has.                                            *)
SizeOf(track, key) == IF track = "audio" THEN 1 ELSE IF key THEN 4 ELSE 2

(* SrsMp4Encoder: its members.                                             *)
NewEncoder ==
    [pavcc |-> 0, pasc |-> 0, nb_videos |-> 0, nb_audios |-> 0, vduration |-> 0, aduration |-> 0,
     samples |-> <<>>, mdat_bytes |-> 0, mdat_offset |-> 0]

(* SrsMp4Decoder: its members, its box reader (the stream holds the bytes  *)
(* of the file from spos to fpos, where the file is positioned), and what  *)
(* read_sample() has returned so far.                                      *)
NewDecoder ==
    [state |-> "new", spos |-> 0, fpos |-> 0, brand |-> 0, offset |-> -1, pavcc |-> 0, pasc |-> 0,
     avcc_written |-> FALSE, asc_written |-> FALSE, samples |-> <<>>, current_index |-> 0,
     current_offset |-> 0, out |-> <<>>]

Mp4Init ==
    /\ mode = "new"
    /\ enc = NewEncoder
    /\ file = <<>>
    /\ flushed = FALSE
    /\ dec = NewDecoder

-----------------------------------------------------------------------------
(* SrsMp4Encoder                                                           *)

MdatBox(n) == NewBox("mdat", [nb_data |-> n], <<>>)

(* The brands: isom is 1, iso5 2, msdh 3; the legal ones of parse_ftyp().  *)
Brands(t, major, minor, others) == NewBox(t, [major_brand |-> major, minor_version |-> minor], [compatible_brands |-> others])

LegalBrands == {1, 2, 4, 5, 6}

(* What each of some boxes is written as.                                  *)
Encoded(boxes) == [i \in DOMAIN boxes |-> encode(boxes[i])]

(* initialize(): ftyp and the header of an empty mdat.                     *)
initialize ==
    /\ mode = "new"
    /\ mode' = "file"
    /\ \E wire \in {Encoded(<<Brands("ftyp", 1, 512, <<1, 4, 5, 6>>), MdatBox(0)>>)} :
          /\ file' = wire[1] \o wire[2]
          /\ enc' = [enc EXCEPT !.mdat_offset = Len(wire[1]), !.mdat_bytes = 0]
    /\ UNCHANGED <<flushed, dec>>

(* copy_sequence_header(): the first one is kept, an equal one ignored, a  *)
(* different one refused.                                                  *)
copy_sequence_header(vsh, h) ==
    /\ enc' = IF vsh /\ enc.pavcc = 0 THEN [enc EXCEPT !.pavcc = h]
              ELSE IF ~vsh /\ enc.pasc = 0 THEN [enc EXCEPT !.pasc = h]
              ELSE enc
    /\ UNCHANGED <<mode, file, flushed, dec>>

(* Times grow along each track, not over the tracks.                       *)
LastDts(track) == LET ts == Of(enc.samples, track) IN IF ts = <<>> THEN 0 ELSE ts[Len(ts)].dts

Sample(track, key, dts, cts) ==
    [type |-> track, offset |-> Len(file), dts |-> dts, pts |-> dts + cts, key |-> key, adjust |-> 0,
     index |-> IF track = "video" THEN enc.nb_videos ELSE enc.nb_audios, size |-> SizeOf(track, key)]

Counted(s) ==
    IF s.type = "video" THEN [enc EXCEPT !.nb_videos = @ + 1, !.vduration = s.dts]
    ELSE [enc EXCEPT !.nb_audios = @ + 1, !.aduration = s.dts]

(* do_write_sample(): the payload goes to the end of the file.             *)
do_write_sample(s) ==
    /\ file' = file \o Put(Payload + Len(enc.samples) + 1, s.size)
    /\ enc' = [Counted(s) EXCEPT !.mdat_bytes = @ + s.size, !.samples = Append(@, s)]

(* write_sample() of a sequence header and of a sample.  The recorder that *)
(* uses the encoder sends the headers before the samples; flush() aborts   *)
(* when there is audio and no header for it.                               *)
write_header(vsh, h) ==
    /\ mode = "file" /\ ~flushed /\ enc.samples = <<>>
    /\ copy_sequence_header(vsh, h)

write_sample(track, key, delta, cts) ==
    /\ mode = "file" /\ ~flushed /\ Len(enc.samples) < MaxSamples
    /\ track = "audio" => enc.pasc # 0 /\ cts = 0 /\ ~key
    /\ do_write_sample(Sample(track, key, LastDts(track) + delta, cts))
    /\ UNCHANGED <<mode, flushed, dec>>

-----------------------------------------------------------------------------
(* The tree flush() builds.                                                *)

With(b, kids) == [b EXCEPT !.boxes = kids]

Entries(t, kid) == With(NewBox(t, <<>>, <<>>), <<kid>>)

Dinf == SrsMp4DataInformationBox(Entries("dref", NewBox("url", [flags |-> 0], <<>>)))

Mdhd(duration) == NewBox("mdhd", [timescale |-> 1000, duration |-> duration, language |-> 1], <<>>)

VideoTrak(id, duration, avcc, tables) ==
    LET avcC == NewBox("avcC", <<>>, [avc_config |-> IF avcc = 0 THEN <<>> ELSE <<avcc, avcc>>])
        avc1 == With(NewBox("avc1", [data_reference_index |-> 1], <<>>), <<avcC>>)
        stbl == SrsMp4SampleTableBox(<<Entries("stsd", avc1)>> \o tables)
    IN  SrsMp4TrackBox(
          NewBox("tkhd", [flags |-> 3, track_ID |-> id, duration |-> duration], <<>>),
          SrsMp4MediaBox(Mdhd(duration), NewBox("hdlr", [handler_type |-> 1, name |-> 12], <<>>),
            SrsMp4MediaInformationBox(NewBox("vmhd", [flags |-> 1], <<>>), Dinf, stbl)))

AudioTrak(id, duration, asc, tables) ==
    LET esds == NewBox("esds", [ES_ID |-> 2, objectTypeIndication |-> 64, predefined |-> 2],
                       [asc |-> IF asc = 0 THEN <<>> ELSE <<asc, asc>>])
        mp4a == With(NewBox("mp4a", [data_reference_index |-> 1, channelcount |-> 2, samplesize |-> 16,
                                     samplerate |-> 44100], <<>>), <<esds>>)
        stbl == SrsMp4SampleTableBox(<<Entries("stsd", mp4a)>> \o tables)
    IN  SrsMp4TrackBox(
          NewBox("tkhd", [flags |-> 3, volume |-> 256, track_ID |-> id, duration |-> duration], <<>>),
          SrsMp4MediaBox(Mdhd(duration), NewBox("hdlr", [handler_type |-> 2, name |-> 12], <<>>),
            SrsMp4MediaInformationBox(NewBox("smhd", <<>>, <<>>), Dinf, stbl)))

Moov ==
    LET video == IF enc.nb_videos > 0
                 THEN <<VideoTrak(1, enc.vduration, enc.pavcc, TablesOf(enc.samples, "video"))>> ELSE <<>>
        WithAudio(traks) ==
            IF enc.nb_audios > 0
            THEN Append(traks, AudioTrak(1 + Len(traks), enc.aduration, enc.pasc, TablesOf(enc.samples, "audio")))
            ELSE traks
        Movie(traks) ==
            SrsMp4MovieBox(NewBox("mvhd", [timescale |-> 1000, duration_in_tbn |-> Max({enc.vduration, enc.aduration}),
                                           next_track_ID |-> 1 + Len(traks)], <<>>), traks, <<>>)
    IN  Movie(WithAudio(video))

(* flush(): the index at the end, then the header of mdat anew with the    *)
(* size it has got.                                                        *)
flush ==
    /\ mode = "file" /\ ~flushed
    /\ enc.nb_videos + enc.nb_audios > 0
    /\ \E wire \in {Encoded(<<MdatBox(enc.mdat_bytes), Moov>>)} :
          file' = SubSeq(file, 1, enc.mdat_offset) \o wire[1]
                  \o SubSeq(file, enc.mdat_offset + Len(wire[1]) + 1, Len(file)) \o wire[2]
    /\ flushed' = TRUE
    /\ UNCHANGED <<mode, enc, dec>>

-----------------------------------------------------------------------------
(* Fragments                                                               *)

(* SrsMp4M2tsInitEncoder::write(): the tables are empty and the track is   *)
(* extended by fragments.                                                  *)
EmptyTables == <<NewBox("stts", <<>>, <<>>), NewBox("stsc", <<>>, <<>>), NewBox("stsz", <<>>, <<>>), NewBox("stco", <<>>, <<>>)>>

InitSegment(video, tid) ==
    LET trak == IF video THEN VideoTrak(tid, 0, enc.pavcc, EmptyTables) ELSE AudioTrak(tid, 0, enc.pasc, EmptyTables)
        trex == NewBox("trex", [track_ID |-> tid, default_sample_description_index |-> 1], <<>>)
        mvhd == NewBox("mvhd", [timescale |-> 1000, next_track_ID |-> tid + 1], <<>>)
    IN  <<Brands("ftyp", 2, 0, <<1, 2, 7, 8>>), SrsMp4MovieBox(mvhd, <<trak>>, <<SrsMp4MovieExtendsBox(trex)>>)>>

(* SrsMp4M2tsSegmentEncoder: initialize(), write_sample(), flush().  The   *)
(* samples wait in memory; the segment is one run of all of them.          *)
segment_initialize ==
    /\ mode = "new"
    /\ mode' = "segment"
    /\ file' = encode(Brands("styp", 3, 0, <<3, 7>>))
    /\ UNCHANGED <<enc, flushed, dec>>

segment_write_sample(track, key, delta, cts) ==
    LET s == Sample(track, key, LastDts(track) + delta, cts)
    IN  /\ mode = "segment" /\ ~flushed /\ Len(enc.samples) < MaxSamples
        /\ track = "audio" => cts = 0 /\ ~key
        /\ enc.samples # <<>> => enc.samples[1].type = track
        /\ enc' = [Counted(s) EXCEPT !.mdat_bytes = @ + s.size, !.samples = Append(@, s)]
        /\ UNCHANGED <<mode, file, flushed, dec>>

segment_flush(sequence, tid) ==
    LET run  == write_moof(enc.samples, 0)
        moof(offset) == SrsMp4MovieFragmentBox(NewBox("mfhd", [sequence_number |-> sequence], <<>>),
            SrsMp4TrackFragmentBox(NewBox("tfhd", [flags |-> 131072, track_id |-> tid], <<>>),
                NewBox("tfdt", [version |-> 1, base_media_decode_time |-> 0], <<>>),
                [run EXCEPT !.o = Set(@, "data_offset", offset)]))
        data_offset == Len(file) + nb_bytes(moof(0)) + SrsMp4Box(<<>>).nb
    IN  /\ mode = "segment" /\ ~flushed
        /\ enc.nb_videos + enc.nb_audios > 0
        /\ file' = file \o FlattenSeq(Encoded(<<moof(data_offset), MdatBox(enc.mdat_bytes)>>))
                        \o FlattenSeq([i \in DOMAIN enc.samples |-> Put(Payload + i, enc.samples[i].size)])
        /\ flushed' = TRUE
        /\ UNCHANGED <<mode, enc, dec>>

-----------------------------------------------------------------------------
(* SrsMp4BoxReader                                                         *)

(* CanRead of BufSize bytes until n are in the stream: where the file is     *)
(* positioned then, or -1 when it ends before.                             *)
Fill(d, n) ==
    IF d.fpos - d.spos >= n THEN d.fpos
    ELSE IF Len(file) - d.spos < n THEN -1
    ELSE Min({Len(file), d.fpos + BufSize * ((n - (d.fpos - d.spos) + BufSize - 1) \div BufSize)})

TypeAt(pos) == Get(file, pos + 4, 4)

(* read(): four bytes, then the box is looked at; a box whose type is not  *)
(* in the stream yet is looked at again and again, nothing is read.        *)
Stuck(d) == LET f == Fill(d, 4) IN f # -1 /\ f - d.spos < 8

(* The bytes read() wants of the box at the head of the stream.            *)
Required(d) == IF BoxTypes[TypeAt(d.spos)] = "mdat" THEN SrsMp4Box(<<>>).nb ELSE Get(file, d.spos, 4)

(* skip(): a box of sz bytes is taken from the stream; mdat in the file.   *)
skip(d, t, sz) ==
    LET beyond == sz - (d.fpos - d.spos)
    IN  IF t = "mdat" /\ beyond > 0 THEN [d EXCEPT !.spos = d.fpos + beyond, !.fpos = @ + beyond]
        ELSE [d EXCEPT !.spos = @ + sz]

-----------------------------------------------------------------------------
(* SrsMp4Decoder                                                           *)

Fail(d) == [d EXCEPT !.state = "error"]

(* parse_moov(): the headers, and the samples of the first video and the   *)
(* first audio track.                                                      *)
parse_moov(d, moov) ==
    LET vide == TrackOf(moov, 1)
        soun == TrackOf(moov, 2)
        avcc == avcc_of(vide)
        esds == asc_of(soun)
        none == [tses |-> <<>>, ok |-> TRUE]
        Parsed(v, a) ==
            IF ~v.ok \/ ~a.ok THEN Fail(d)
            ELSE [d EXCEPT !.pavcc = IF Size(avcc.o, "avc_config") = 0 THEN 0 ELSE avcc.o[<<"avc_config", 1>>],
                           !.pasc = IF Size(esds.o, "asc") = 0 THEN 0 ELSE esds.o[<<"asc", 1>>],
                           !.samples = load(a.tses)]
        AfterVideo(v) == Parsed(v, IF soun = NoBox THEN v ELSE load_trak(v.tses, stbl_of(soun), "audio"))
    IN  IF \/ get_box(moov, "mvhd") = NoBox
           \/ vide = NoBox /\ soun = NoBox
           \/ vide # NoBox /\ avcc = NoBox
           \/ soun # NoBox /\ Size(esds.o, "asc") = 0
        THEN Fail(d)
        ELSE AfterVideo(IF vide = NoBox THEN none ELSE load_trak(<<>>, stbl_of(vide), "video"))

(* The end of initialize(): there was a brand; the file is positioned at   *)
(* the payload.                                                            *)
Ready(d) ==
    IF d.state = "error" \/ d.brand = 0 THEN Fail(d)
    ELSE IF d.offset >= 0 THEN [d EXCEPT !.state = "ready", !.fpos = d.offset, !.current_offset = d.offset]
    ELSE [d EXCEPT !.state = "ready"]

(* One box of the loop of initialize(): load_next_box() and what is done   *)
(* with the box b it decodes.                                              *)
BoxLoaded(d, b) ==
    LET f1 == Fill(d, 4)
        d1 == [d EXCEPT !.fpos = f1]
        f2 == Fill(d1, Required(d1))
        d2 == [d1 EXCEPT !.fpos = f2]
        t  == b.box.type
        sz == V(b.box.o, "smallsize")
        d3 == skip(d2, t, sz)
    IN  IF f1 = -1 \/ TypeAt(d.spos) \notin DOMAIN BoxTypes THEN Fail(d)
        ELSE IF f2 = -1 \/ ~b.ok THEN Fail(d1)
        ELSE CASE t = "ftyp" -> IF V(b.box.o, "major_brand") \in LegalBrands
                                THEN [d3 EXCEPT !.brand = V(b.box.o, "major_brand")] ELSE Fail(d3)
               [] t = "mdat" -> [d3 EXCEPT !.offset = d3.fpos - sz]
               [] t = "moov" -> Ready(parse_moov(d3, b.box))
               [] OTHER -> d3

(* The file is opened: after flush(), or after the recorder was stopped.   *)
decoder_initialize ==
    /\ mode = "file"
    /\ mode' = "decode"
    /\ dec' = [dec EXCEPT !.state = "load"]
    /\ UNCHANGED <<enc, file, flushed>>

load_next_box ==
    /\ mode = "decode" /\ dec.state = "load"
    /\ ~Stuck(dec)
    /\ \E b \in {decode(file, dec.spos)} : dec' = BoxLoaded(dec, b)
    /\ UNCHANGED <<mode, enc, file, flushed>>

(* The loop of read() that makes no progress.                              *)
discovery_again ==
    /\ mode = "decode" /\ dec.state = "load"
    /\ Stuck(dec)
    /\ UNCHANGED mp4Vars

Result(ht, content, dts, pts, key) == [ht |-> ht, content |-> content, dts |-> dts, pts |-> pts, key |-> key]

(* read_sample(): the sequence headers first, then the samples by index,   *)
(* seeking when the next one is not where the file is positioned.          *)
read_sample ==
    LET ps == at(dec.samples, dec.current_index)
        s  == ps[1]
        from == IF s.offset # dec.current_offset THEN s.offset ELSE dec.fpos
    IN  /\ mode = "decode" /\ dec.state = "ready"
        /\ dec' =
            IF ~dec.avcc_written /\ dec.pavcc # 0
            THEN [dec EXCEPT !.avcc_written = TRUE, !.out = Append(@, Result("vsh", dec.pavcc, 0, 0, TRUE))]
            ELSE IF ~dec.asc_written /\ dec.pasc # 0
            THEN [dec EXCEPT !.asc_written = TRUE, !.out = Append(@, Result("ash", dec.pasc, 0, 0, FALSE))]
            ELSE IF ps = <<>> THEN [dec EXCEPT !.state = "eof", !.current_index = @ + 1]
            ELSE [dec EXCEPT !.current_index = @ + 1,
                             !.fpos = from + s.size,
                             !.current_offset = s.offset + s.size,
                             !.out = Append(@, Result(s.type, Get(file, from, s.size), dts_ms(s), pts_ms(s), s.key))]
        /\ UNCHANGED <<mode, enc, file, flushed>>

Done == (mode = "decode" /\ dec.state \in {"error", "eof"}) \/ (mode = "segment" /\ flushed)

(* Bounds on the inputs: the first and the last of MaxSamples samples come *)
(* early, those between are not key frames, and a keyframe has no          *)
(* composition offset.                                                     *)
Considered(key, delta, cts) ==
    /\ IF Len(enc.samples) \in {0, MaxSamples - 1} THEN delta = Min(Deltas) ELSE ~key
    /\ key => cts = 0

Mp4Next ==
    \/ initialize
    \/ segment_initialize
    \/ \E vsh \in BOOLEAN, h \in 1..2 : (enc.pavcc = 0 => h = 1) /\ write_header(vsh, h)
    \/ \E track \in {"video", "audio"}, key \in BOOLEAN, delta \in Deltas, cts \in Ctss :
          /\ Considered(key, delta, cts)
          /\ \/ write_sample(track, key, delta, cts)
             \/ segment_write_sample(track, key, delta, cts)
    \/ flush
    \/ segment_flush(1, 1)
    \/ decoder_initialize
    \/ load_next_box
    \/ discovery_again
    \/ read_sample
    \/ Done /\ UNCHANGED mp4Vars

Mp4Spec == Mp4Init /\ [][Mp4Next]_mp4Vars

(* The program that opens a file goes on until the decoder refuses it or   *)
(* is at its end.  The last conjunct is WF_mp4Vars(load_next_box), with the    *)
(* state predicate that says when it is enabled.                           *)
CanRead == mode = "decode" /\ dec.state = "load" /\ ~Stuck(dec)

Mp4FairSpec ==
    /\ Mp4Spec
    /\ WF_mp4Vars(discovery_again)
    /\ WF_mp4Vars(read_sample)
    /\ []<>~CanRead \/ []<><<load_next_box>>_mp4Vars

-----------------------------------------------------------------------------
(* Properties                                                              *)

Samples(out) == SelectSeq(out, LAMBDA r : r.ht \in {"video", "audio"})

(* What read_sample() returns of a flushed file is what write_sample() was *)
(* given, payload, track and keyframes, in order and none left out before  *)
(* the last one it returns, after the sequence headers; opening it never   *)
(* fails.                                                                  *)
SamplesReadBack ==
    LET out == Samples(dec.out)
    IN  mode = "decode" /\ flushed =>
        /\ dec.state # "error"
        /\ \A i \in DOMAIN out :
              /\ out[i].ht = enc.samples[i].type
              /\ out[i].content = Payload + i
              /\ out[i].key = enc.samples[i].key
        /\ \A i \in 1..(Len(dec.out) - Len(out)) :
              \/ dec.out[i].ht = "vsh" /\ dec.out[i].content = enc.pavcc
              \/ dec.out[i].ht = "ash" /\ dec.out[i].content = enc.pasc

(* "NULL if exceed the max index", srs_kernel_mp4.hpp:1977: the decoder is *)
(* at the end of a flushed file when it has returned every sample of it.   *)
(* Expected to be violated: SrsMp4SampleManager::at() gives NULL for the   *)
(* last index too (srs_kernel_mp4.cpp:4715).                               *)
AllSamplesRead ==
    flushed /\ dec.state = "eof" => Len(Samples(dec.out)) = Len(enc.samples)

(* "Read a MP4 box to pbox, the stream is fill with the bytes of box to    *)
(* decode", srs_kernel_mp4.hpp:2017: a flushed file that is opened is      *)
(* refused, or its samples can be read.  Expected to be violated: with 4 to 7 bytes of *)
(* the header of a box in the stream, discovery() asks for more and        *)
(* SrsMp4BoxReader::read() reads no more (srs_kernel_mp4.cpp:5121-5152).   *)
FileOpened == mode = "decode" /\ flushed ~> dec.state # "load"

Increasing(track) ==
    LET ts == Of(enc.samples, track) IN \A i \in 2..Len(ts) : ts[i - 1].dts < ts[i].dts

(* The distances in time between the samples of a track survive the run    *)
(* lengths of stts, whichever deltas they merge, and so do the composition *)
(* offsets but the first one; for a track whose times increase strictly    *)
(* (an equal time makes stts_entries give the run another delta).          *)
TimesKept ==
    mode = "decode" /\ flushed =>
        \A track \in {"video", "audio"} : Increasing(track) =>
            LET ts  == Of(enc.samples, track)
                out == SelectSeq(dec.out, LAMBDA r : r.ht = track)
            IN  \A i \in 2..Len(out) :
                    /\ out[i].dts = (out[1].dts + ts[i].dts - ts[1].dts) % Wrap
                    /\ (out[i].pts - out[i].dts) % Wrap = ts[i].pts - ts[i].dts

(* A recording that was stopped before flush() is refused: the size of     *)
(* mdat and the index are written by flush() only.                         *)
UnflushedRefused == ~flushed => dec.state \notin {"ready", "eof"}

(* The tree of boxes flush() and the init segment write is the tree their  *)
(* decoder reads, to the last member and byte; mdat ends where it begins.  *)
IndexReadBack ==
    /\ mode = "file" /\ flushed =>
        \A moov \in {decode(file, enc.mdat_offset + Get(file, enc.mdat_offset, 4))} :
            moov.ok /\ moov.pos = Len(file) /\ SameBox(Moov, moov.box)
    /\ mode = "file" /\ enc.samples = <<>> /\ enc.pasc # 0 =>
        \A b \in {InitSegment(video, 5)[i] : video \in BOOLEAN, i \in 1..2} :
            \A wire \in {encode(b)} : \A read \in {decode(wire, 0)} :
                read.pos = Len(wire) /\ SameBox(b, read.box)

(* The first n boxes of the file: styp, moof and mdat of a segment.        *)
FirstBoxes(n) ==
    FoldLeft(LAMBDA read, k : Append(read, decode(file, IF read = <<>> THEN 0 ELSE Last(read).pos)),
             <<>>, [k \in 1..n |-> k])

(* The samples of a segment are in its mdat one after the other, as long   *)
(* as the run says, and mdat ends the file with the last of them.          *)
FragmentReadBack ==
    mode = "segment" /\ flushed =>
        \A read \in {FirstBoxes(3)} : \A trun \in {get_box(get_box(read[2].box, "traf"), "trun")} :
            LET sizes == Column(trun, "sample_size")
                Start(i) == read[2].pos + SrsMp4Box(<<>>).nb + FoldLeft(+, 0, SubSeq(sizes, 1, i - 1))
            IN  /\ \A k \in 1..3 : read[k].ok
                /\ Len(sizes) = Len(enc.samples)
                /\ \A i \in DOMAIN sizes : Get(file, Start(i), sizes[i]) = Payload + i
                /\ read[2].pos + V(read[3].box.o, "smallsize") = Len(file)

(* "if base-data-offset-present is zero, this indicates that the           *)
(* base-data-offset for this track fragment is the position of the first   *)
(* byte of the enclosing Movie Fragment Box", srs_kernel_mp4.hpp:422-423   *)
(* of the flag the segment sets: from that byte, data_offset leads to the  *)
(* payload of mdat.  Expected to be violated: the offset counts styp too.  *)
FragmentLocated ==
    mode = "segment" /\ flushed =>
        \A read \in {FirstBoxes(2)} : \A trun \in {get_box(get_box(read[2].box, "traf"), "trun")} :
            read[1].pos + V(trun.o, "data_offset") = read[2].pos + SrsMp4Box(<<>>).nb

(* A recording gives back the samples it was made of, with their distances *)
(* in time, if it was flushed, and is refused if it was not.               *)
RecordingReadBack == SamplesReadBack /\ TimesKept /\ UnflushedRefused
=============================================================================
