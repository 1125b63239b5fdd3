----------------------------- MODULE MediaFormat -----------------------------
(***************************************************************************)
(* SrsFormat: what the server learns from the audio and video of a stream, *)
(* and the muxers of raw H.264 and AAC (srs_raw_avc, srs_kernel_aac) that  *)
(* produce such a stream.  Bytes are numbers.                              *)
(***************************************************************************)
EXTENDS Integers, Sequences, SequencesExt

CONSTANTS Widths,     \* picture widths, in macroblocks minus one
          Units,      \* the NAL units frames are made of, without SPS and PPS
          MaxUnits,   \* how many of them a frame has at most
          MaxFrames   \* how many payloads are given to the format

ASSUME MediaFormatAssumption ==
    /\ Widths \subseteq Nat
    /\ \A u \in Units : Len(u) > 0
    /\ MaxUnits \in Nat \ {0} /\ MaxFrames \in Nat

VARIABLES acodec, vcodec, audio, video, result, given, count

mediaVars == <<acodec, vcodec, audio, video, result, given, count>>

(* SrsAvcNaluType, SrsVideoAvcFrameType, ...FrameTrait, SrsAudioCodecId.   *)
IDR == 5
SPS == 7
PPS == 8
AUD == 9
KeyFrame == 1
InterFrame == 2
InfoFrame == 5
SequenceHeader == 0
NALU == 1
RawData == 1
AVC == 7
AAC == 10
MP3 == 2

nal_unit_type(unit) == unit[1] % 32

From(s, i) == SubSeq(s, i, Len(s))

-----------------------------------------------------------------------------
(* Bits: SrsBitBuffer and the Exp-Golomb numbers of H.264                  *)

BitsOf(bytes) == [i \in 1..(8 * Len(bytes)) |-> (bytes[((i - 1) \div 8) + 1] \div 2 ^ (7 - ((i - 1) % 8))) % 2]

BytesOf(bits) ==
    LET padded == bits \o <<1, 0, 0, 0, 0, 0, 0, 0>>
    IN  [k \in 1..(Len(padded) \div 8) |->
            FoldLeft(LAMBDA v, b : 2 * v + b, 0, SubSeq(padded, 8 * k - 7, 8 * k))]

(* What the standard writes for v: as many zeros as v + 1 has bits after   *)
(* the first, then v + 1.                                                  *)
Golomb(v) ==
    LET n == CHOOSE k \in 0..29 : 2 ^ k <= v + 1 /\ v + 1 < 2 ^ (k + 1)
    IN  [i \in 1..(2 * n + 1) |-> IF i <= n THEN 0 ELSE ((v + 1) \div 2 ^ (2 * n + 1 - i)) % 2]

(* srs_avc_nalu_read_uev(): -1 where the bits end.                         *)
srs_avc_nalu_read_uev(bits, pos) ==
    LET ones == {k \in (pos + 1)..Len(bits) : bits[k] = 1}
        zeros == IF ones = {} THEN Len(bits) - pos - 1 ELSE (CHOOSE k \in ones : \A j \in ones : k <= j) - pos - 1
        tail == SubSeq(bits, pos + zeros + 2, pos + 2 * zeros + 1)
    IN  IF pos >= Len(bits) \/ pos + 2 * zeros + 1 > Len(bits) THEN [v |-> -1, pos |-> Len(bits)]
        ELSE [v |-> 2 ^ zeros - 1 + FoldLeft(LAMBDA v, b : 2 * v + b, 0, tail), pos |-> pos + 2 * zeros + 1]

(* The profiles with the chroma fields.                                    *)
HighProfiles == {100, 110, 122, 244, 44, 83, 86, 118, 128}

(* The bits of a sequence parameter set after the level: the fields in the *)
(* order of the standard, up to the picture size.                          *)
SpsBits(profile, poc, width, height) ==
    Golomb(0)
    \o (IF profile \in HighProfiles THEN Golomb(1) \o Golomb(0) \o Golomb(0) \o <<0, 0>> ELSE <<>>)
    \o Golomb(0) \o Golomb(poc)
    \o (CASE poc = 0 -> Golomb(2)
          [] poc = 1 -> <<0>> \o Golomb(0) \o Golomb(0) \o Golomb(2) \o Golomb(1) \o Golomb(3)
          [] OTHER -> <<>>)
    \o Golomb(1) \o <<0>> \o Golomb(width) \o Golomb(height)

(* A three is put before a byte 0..3 that follows two zeros.               *)
Escaped(bytes) ==
    FoldLeft(LAMBDA out, b :
        IF Len(out) >= 2 /\ b <= 3 /\ out[Len(out)] = 0 /\ out[Len(out) - 1] = 0
        THEN out \o <<3, b>> ELSE Append(out, b), <<>>, bytes)

SpsUnit(profile, poc, width, height) ==
    Escaped(<<96 + SPS, profile, 0, 30>> \o BytesOf(SpsBits(profile, poc, width, height)))

PpsUnit == <<96 + PPS, 206>>

-----------------------------------------------------------------------------
(* SrsRawH264Stream, SrsRawAacStream, SrsAacTransmuxer                     *)

(* avcC: version, profile, compatibility, level, length size; the sps; the *)
(* pps.                                                                    *)
mux_sequence_header(sps, pps) ==
    <<1, sps[2], 0, sps[4], 3>> \o <<1, 0, Len(sps)>> \o sps \o <<1, 0, Len(pps)>> \o pps

mux_ipb_frame(unit) == <<0, 0, 0, Len(unit)>> \o unit

mux_avc2flv(bytes, frame_type, packet_type, cts) ==
    <<frame_type * 16 + AVC, packet_type, 0, 0, cts>> \o bytes

(* srs_aac_rtmp2ts() and srs_aac_ts2rtmp(): HE and HEv2 travel as LC.      *)
srs_aac_rtmp2ts(object) ==
    CASE object = 1 -> 0
      [] object \in {2, 5, 29} -> 1
      [] object = 3 -> 2
      [] OTHER -> 3

srs_aac_ts2rtmp(profile) == IF profile \in 0..2 THEN profile + 1 ELSE 0

(* SrsAacTransmuxer::write_audio(): the seven bytes before a raw frame.    *)
adts_header(object, rate, channels, n) ==
    <<255, 241,
      srs_aac_rtmp2ts(object) * 64 + rate * 4 + ((channels \div 4) % 2),
      (channels % 4) * 64 + (((n + 7) \div 2048) % 4),
      ((n + 7) \div 8) % 256,
      ((n + 7) % 8) * 32,
      252>>

(* adts_demux(): the codec and the raw frame, or nothing.                  *)
adts_demux(s) ==
    LET header == IF s[2] % 2 = 1 THEN 7 ELSE 9
        length == (s[4] % 4) * 2048 + s[5] * 8 + s[6] \div 32
        rate   == (s[3] \div 4) % 16
    IN  IF Len(s) < 7 \/ s[1] # 255 \/ s[2] < 240 THEN [ok |-> FALSE]
        ELSE IF Len(s) < header \/ length < header \/ Len(s) < length THEN [ok |-> FALSE]
        ELSE [ok |-> TRUE,
              object |-> srs_aac_ts2rtmp(s[3] \div 64),
              rate |-> rate,
              channels |-> (s[3] % 2) * 4 + s[4] \div 64,
              sound_rate |-> CASE rate \in 11..12 -> 0
                               [] rate \in 8..10 -> 1
                               [] rate \in 5..7 -> 2
                               [] OTHER -> 3,
              frame |-> SubSeq(s, header + 1, length)]

(* SrsRawAacStream::mux_sequence_header(): the rate of FLV overrides the   *)
(* index the frame had.                                                    *)
AscRate(codec) ==
    CASE codec.sound_rate = 1 -> 10
      [] codec.sound_rate = 2 -> 7
      [] codec.sound_rate = 3 -> 4
      [] OTHER -> codec.rate

aac_mux_sequence_header(codec) ==
    LET rate == AscRate(codec)
    IN  <<codec.object * 8 + rate \div 2, (rate % 2) * 128 + codec.channels * 8>>

mux_aac2flv(bytes, codec, packet_type) ==
    <<AAC * 16 + codec.sound_rate * 4 + 2 + (IF codec.channels > 1 THEN 1 ELSE 0), packet_type>> \o bytes

-----------------------------------------------------------------------------
(* SrsFormat                                                               *)

NewVideoCodec ==
    [extra |-> <<>>, profile |-> 0, level |-> 0, NAL_unit_length |-> 0, sps |-> <<>>, pps |-> <<>>,
     width |-> 0, height |-> 0, payload_format |-> "Guess"]

NewVideoFrame ==
    [frame_type |-> 0, avc_packet_type |-> -1, has_idr |-> FALSE, has_aud |-> FALSE, has_sps_pps |-> FALSE,
     first_nalu_type |-> 0, samples |-> <<>>, cts |-> 0]

NewAudioCodec == [extra |-> <<>>, object |-> 0, rate |-> -1, channels |-> 0, sound_rate |-> -1]

NewAudioFrame == [aac_packet_type |-> -1, samples |-> <<>>]

(* Mutant: the samples of the last frame stay.                             *)
initialize_kept(frame) == frame

(* SrsFrame::initialize(): the samples go, the flags of the video frame    *)
(* stay.                                                                   *)
initialize(frame) == [frame EXCEPT !.samples = <<>>]

(* SrsVideoFrame::add_sample(); the type is taken from the byte at the     *)
(* unit's place, which an empty unit does not own.                         *)
add_sample(v, unit, byte) ==
    LET t == byte % 32
    IN  [v EXCEPT !.samples = Append(@, unit),
                  !.has_idr = @ \/ t = IDR,
                  !.has_sps_pps = @ \/ t \in {SPS, PPS},
                  !.has_aud = @ \/ t = AUD,
                  !.first_nalu_type = IF @ = 0 THEN t ELSE @]

(* srs_avc_startswith_annexb(): the length of a start code at pos, or 0.   *)
srs_avc_startswith_annexb(s, pos) ==
    LET codes == {n \in 2..(Len(s) - pos - 1) :
                     s[pos + n + 1] = 1 /\ \A k \in 1..n : s[pos + k] = 0}
    IN  IF codes = {} THEN 0 ELSE 1 + CHOOSE n \in codes : TRUE

(* The result of reading units: the video frame and an error.              *)
Demuxed(v, err) == [video |-> v, err |-> err]

RECURSIVE AnnexbUnits(_, _, _)
AnnexbUnits(s, pos, v) ==
    LET code  == srs_avc_startswith_annexb(s, pos)
        start == pos + code
        ends  == {k \in start..(Len(s) - 1) : srs_avc_startswith_annexb(s, k) > 0}
        stop  == IF ends = {} THEN Len(s) ELSE CHOOSE k \in ends : \A j \in ends : k <= j
    IN  IF pos >= Len(s) \/ code = 0 THEN Demuxed(v, "ok")
        ELSE AnnexbUnits(s, stop, IF stop > start THEN add_sample(v, SubSeq(s, start + 1, stop), s[start + 1]) ELSE v)

avc_demux_annexb_format(s, v) ==
    IF srs_avc_startswith_annexb(s, 0) = 0 THEN Demuxed(v, "try_others") ELSE AnnexbUnits(s, 0, v)

(* Length by length, each of NAL_unit_length + 1 bytes.                    *)
RECURSIVE avc_demux_ibmf_format(_, _, _)
avc_demux_ibmf_format(c, s, v) ==
    LET w == c.NAL_unit_length + 1
        n == FoldLeft(LAMBDA k, b : 256 * k + b, 0, SubSeq(s, 1, w))
    IN  IF s = <<>> THEN Demuxed(v, "ok")
        ELSE IF Len(s) < w THEN Demuxed(v, "error")
        ELSE IF Len(s) < w + n THEN Demuxed(v, "error")
        ELSE avc_demux_ibmf_format(c, From(s, w + n + 1), add_sample(v, SubSeq(s, w + 1, w + n), IF Len(s) > w THEN s[w + 1] ELSE 0))

(* video_nalu_demux(): AnnexB is tried first until a frame was not, then   *)
(* the length format for good.                                             *)
video_nalu_demux(c, v, s) ==
    LET Result(r, format) == [video |-> r.video, err |-> r.err,
                              codec |-> IF r.err = "ok" THEN [c EXCEPT !.payload_format = format] ELSE c]
        OrIbmf(annexb) ==
            IF annexb.err # "try_others" THEN Result(annexb, "Annexb")
            ELSE Result(avc_demux_ibmf_format(c, s, v), "Ibmf")
    IN  IF c.extra = <<>> THEN [video |-> v, err |-> "ok", codec |-> c]
        ELSE OrIbmf(IF c.payload_format = "Ibmf" THEN Demuxed(v, "try_others") ELSE avc_demux_annexb_format(s, v))

(* avc_demux_sps(): the third byte of 00 00 03 is taken out.               *)
RECURSIVE Unescaped(_, _)
Unescaped(s, out) ==
    IF s = <<>> THEN out
    ELSE LET n == Len(out)
         IN  IF n > 2 /\ s[1] = 3 /\ out[n] = 0 /\ out[n - 1] = 0
             THEN IF Len(s) = 1 THEN out ELSE Unescaped(From(s, 3), Append(out, s[2]))
             ELSE Unescaped(From(s, 2), Append(out, s[1]))

NoSize == [ok |-> FALSE, width |-> 0, height |-> 0]

(* avc_demux_sps_rbsp(): the fields up to the size, each where the one     *)
(* before ends.                                                            *)
avc_demux_sps_rbsp(rbsp) ==
    LET bits == BitsOf(From(rbsp, 4))
        UE(pos) == srs_avc_nalu_read_uev(bits, pos)
        Skip(pos, n) == FoldLeft(LAMBDA p, i : UE(p).pos, pos, [i \in 1..n |-> i])
        Size(width, height) ==
            IF height.v < 0 THEN NoSize
            ELSE [ok |-> TRUE, width |-> (width.v + 1) * 16, height |-> (height.v + 1) * 16]
        AtWidth(width) == Size(width, UE(width.pos))
        AtRefs(refs)   == AtWidth(UE(refs.pos + 1))
        Cycle(cycle)   == Skip(cycle.pos, cycle.v)
        AtPoc(poc) ==
            AtRefs(UE(CASE poc.v = 0 -> UE(poc.pos).pos
                        [] poc.v = 1 -> Cycle(UE(Skip(poc.pos + 1, 2)))
                        [] OTHER -> poc.pos))
        AtFrame(frame) == AtPoc(UE(frame.pos))
        Scaling(chroma, depth) ==
            depth + 2 + (IF depth + 2 <= Len(bits) /\ bits[depth + 2] = 1 THEN IF chroma.v = 3 THEN 12 ELSE 8 ELSE 0)
        Chroma(chroma) == Scaling(chroma, Skip(chroma.pos + (IF chroma.v = 3 THEN 1 ELSE 0), 2))
        AtId(id) == AtFrame(UE(IF rbsp[1] \in HighProfiles THEN Chroma(UE(id.pos)) ELSE id.pos))
    IN  IF Len(rbsp) < 3 THEN NoSize
        ELSE IF rbsp[1] = 0 \/ rbsp[2] % 4 # 0 \/ rbsp[3] = 0 THEN NoSize
        ELSE AtId(UE(0))

avc_demux_sps(sps) ==
    IF nal_unit_type(sps) # SPS \/ sps[1] \div 128 # 0 \/ (sps[1] \div 32) % 4 = 0 THEN NoSize
    ELSE avc_demux_sps_rbsp(Unescaped(From(sps, 2), <<>>))

(* avc_demux_sps_pps(): the extra data is kept before it is looked at, the *)
(* fields as far as they can be read.                                      *)
avc_demux_sps_pps(c, s) ==
    LET kept == [c EXCEPT !.extra = s]
        head == [kept EXCEPT !.profile = s[2], !.level = s[4], !.NAL_unit_length = s[5] % 4]
        nsps == s[8] + 256 * s[7]
        with == [head EXCEPT !.sps = SubSeq(s, 9, 8 + nsps)]
        npps == s[8 + nsps + 3] + 256 * s[8 + nsps + 2]
        both == [with EXCEPT !.pps = SubSeq(s, nsps + 12, nsps + 11 + npps)]
        Result(codec, err) == [codec |-> codec, err |-> err]
        WithSize(codec, size) ==
            IF size.ok THEN Result([codec EXCEPT !.width = size.width, !.height = size.height], "ok")
            ELSE Result(codec, "error")
        WithSets(codec) ==
            IF codec.sps = <<>> THEN Result(codec, "ok") ELSE WithSize(codec, avc_demux_sps(codec.sps))
    IN  IF Len(s) < 6 THEN Result(IF s = <<>> THEN c ELSE kept, "error")
        ELSE IF s[5] % 4 = 2 \/ s[6] % 32 # 1 \/ Len(s) < 8 THEN Result(head, "error")
        ELSE IF Len(s) < 8 + nsps THEN Result(head, "error")
        ELSE IF Len(s) < 8 + nsps + 3 THEN Result(with, "error")
        ELSE IF s[8 + nsps + 1] % 32 # 1 \/ Len(s) < nsps + 11 + npps THEN Result(with, "error")
        ELSE WithSets(both)

(* video_avc_demux(): the codec, the frame and an error.                   *)
video_avc_demux(s) ==
    LET v1 == [initialize(video) EXCEPT !.frame_type = s[1] \div 16]
        v2 == [v1 EXCEPT !.avc_packet_type = s[2], !.cts = s[5]]
        Header(h) == [codec |-> h.codec, video |-> v2, err |-> h.err]
        Result(codec, v, err) == [codec |-> codec, video |-> v, err |-> err]
    IN  CASE s[1] \div 16 = InfoFrame -> Result(vcodec, v1, "ok")
          [] Len(s) < 5 -> Result(vcodec, v1, "error")
          [] s[2] = SequenceHeader -> Header(avc_demux_sps_pps(vcodec, From(s, 6)))
          [] s[2] = NALU -> video_nalu_demux(vcodec, v2, From(s, 6))
          [] OTHER -> Result(vcodec, v2, "ok")

(* on_video(): anything but H.264 is ignored.                              *)
on_video(s) ==
    /\ UNCHANGED <<acodec, audio>>
    /\ IF s = <<>> \/ s[1] % 16 # AVC THEN UNCHANGED <<vcodec, video>> /\ result' = "ok"
       ELSE \E d \in {video_avc_demux(s)} : video' = d.video /\ vcodec' = d.codec /\ result' = d.err

(* audio_aac_sequence_header_demux().                                      *)
asc_demux(c, s) ==
    [c EXCEPT !.channels = (s[2] \div 8) % 16, !.rate = (s[1] % 8) * 2 + s[2] \div 128, !.object = s[1] \div 8]

(* The FLV rate an AAC rate overrides.                                     *)
FlvRate(c, flv) ==
    CASE c.rate = 10 -> 1
      [] c.rate = 7 -> 2
      [] c.rate = 4 -> 3
      [] OTHER -> flv

(* audio_aac_demux(): raw data without a sequence header before it is      *)
(* ignored.                                                                *)
Heard(codec, frame, err) == [codec |-> codec, audio |-> frame, err |-> err]

audio_aac_demux(s) ==
    LET flv  == (s[1] \div 4) % 4
        c0   == [acodec EXCEPT !.sound_rate = flv]
        a0   == [initialize(audio) EXCEPT !.aac_packet_type = s[2]]
        kept == [c0 EXCEPT !.extra = From(s, 3)]
        sh   == asc_demux(kept, From(s, 3))
        Named(c) == [c EXCEPT !.sound_rate = FlvRate(c, flv)]
    IN  CASE Len(s) < 2 -> Heard(c0, initialize(audio), "error")
          [] s[2] = SequenceHeader /\ Len(s) = 2 -> Heard(Named(c0), a0, "ok")
          [] s[2] = SequenceHeader /\ Len(s) = 3 -> Heard(kept, a0, "error")
          [] s[2] = SequenceHeader /\ Len(s) > 3 ->
               IF sh.object = 0 THEN Heard(sh, a0, "error") ELSE Heard(Named(sh), a0, "ok")
          [] s[2] = RawData /\ acodec.extra = <<>> -> Heard(c0, a0, "ok")
          [] OTHER -> Heard(Named(c0), IF s[2] = RawData THEN [a0 EXCEPT !.samples = <<From(s, 3)>>] ELSE a0, "ok")

audio_mp3_demux(s) ==
    Heard([acodec EXCEPT !.sound_rate = (s[1] \div 4) % 4],
          [initialize(audio) EXCEPT !.samples = IF Len(s) <= 2 THEN <<>> ELSE <<From(s, 3)>>], "ok")

(* on_audio(): anything but AAC and MP3 is ignored.                        *)
on_audio(s) ==
    /\ UNCHANGED <<vcodec, video>>
    /\ IF s = <<>> \/ s[1] \div 16 \notin {AAC, MP3} THEN UNCHANGED <<acodec, audio>> /\ result' = "ok"
       ELSE \E d \in {IF s[1] \div 16 = MP3 THEN audio_mp3_demux(s) ELSE audio_aac_demux(s)} :
              acodec' = d.codec /\ audio' = d.audio /\ result' = d.err

-----------------------------------------------------------------------------
(* SrsTsMessageCache: what a transport stream carries of a frame.          *)

(* srs_avc_insert_aud(): four bytes before the first unit, three before    *)
(* the others.                                                             *)
srs_avc_insert_aud(i) == IF i = 1 THEN <<0, 0, 0, 1>> ELSE <<0, 0, 1>>

DefaultAud == <<9, 240>>

(* The parameter sets the codec has.                                       *)
SpsPps(c) == SelectSeq(<<c.sps, c.pps>>, LAMBDA u : u # <<>>)

(* The units of do_cache_avc(): a delimiter and, before the first IDR, the *)
(* parameter sets, unless a frame had them.                                *)
TsUnits(c, v) ==
    LET IsIdr(i) == nal_unit_type(v.samples[i]) = IDR /\ \A j \in 1..i - 1 : nal_unit_type(v.samples[j]) # IDR
        Unit(i)  == (IF IsIdr(i) /\ ~v.has_sps_pps THEN SpsPps(c) ELSE <<>>) \o <<v.samples[i]>>
    IN  (IF v.has_aud THEN <<>> ELSE <<DefaultAud>>) \o FlattenSeq([i \in DOMAIN v.samples |-> Unit(i)])

do_cache_avc(c, v) ==
    LET units == TsUnits(c, v)
    IN  FlattenSeq([i \in DOMAIN units |-> srs_avc_insert_aud(i) \o units[i]])

(* do_cache_aac(): ADTS before each sample, another one than that of       *)
(* SrsAacTransmuxer.                                                       *)
do_cache_aac(c, a) ==
    FlattenSeq([i \in DOMAIN a.samples |->
        LET n == Len(a.samples[i]) + 7
        IN  <<255, 249,
              srs_aac_rtmp2ts(c.object) * 64 + c.rate * 4 + ((c.channels \div 4) % 2),
              (c.channels % 4) * 64 + ((n \div 2048) % 4),
              (n \div 8) % 256,
              (n % 8) * 32 + 31,
              252>> \o a.samples[i]])

-----------------------------------------------------------------------------
(* A stream: headers and frames, muxed as the raw streams are; a header    *)
(* may be cut short.                                                       *)

MediaInit ==
    /\ acodec = NewAudioCodec /\ vcodec = NewVideoCodec
    /\ audio = NewAudioFrame /\ video = NewVideoFrame
    /\ result = "ok" /\ given = [kind |-> "none", units |-> <<>>, n |-> 0] /\ count = 0

Given(kind, units, n) == given' = [kind |-> kind, units |-> units, n |-> n] /\ count' = count + 1

VideoHeader(profile, poc, w, cut) ==
    \E h \in {mux_sequence_header(SpsUnit(profile, poc, w, 2), PpsUnit)} :
        /\ Given(IF cut = 0 THEN "header" ELSE "short", <<>>, w)
        /\ on_video(mux_avc2flv(SubSeq(h, 1, Len(h) - cut), KeyFrame, SequenceHeader, 0))

VideoFrame(units) ==
    /\ Given("frame", units, 0)
    /\ on_video(mux_avc2flv(FlattenSeq([i \in DOMAIN units |-> mux_ipb_frame(units[i])]), InterFrame, NALU, 1))

(* An encoder that writes start codes.                                     *)
AnnexbFrame(units) ==
    /\ Given("annexb", units, 0)
    /\ on_video(mux_avc2flv(FlattenSeq([i \in DOMAIN units |-> <<0, 0, 0, 1>> \o units[i]]), InterFrame, NALU, 1))

VideoInfo == Given("info", <<>>, 0) /\ on_video(<<InfoFrame * 16 + AVC, 0>>)

AudioHeader(object, rate, channels) ==
    \E d \in {adts_demux(adts_header(object, rate, channels, 2) \o <<33, 34>>)} :
        /\ Given("asc", <<<<object, rate, channels>>>>, IF d.ok THEN 1 ELSE 0)
        /\ on_audio(mux_aac2flv(aac_mux_sequence_header(d), d, SequenceHeader))

AudioFrame(frame) ==
    \E d \in {adts_demux(adts_header(2, 4, 2, Len(frame)) \o frame)} :
        /\ Given("aac", <<frame>>, 0)
        /\ on_audio(mux_aac2flv(d.frame, d, RawData))

Mp3Frame(frame) == Given("mp3", <<frame>>, 0) /\ on_audio(<<MP3 * 16 + 15>> \o frame)

MediaNext ==
    /\ count < MaxFrames
    /\ \/ \E profile \in {66, 100}, poc \in 0..2, w \in Widths, cut \in {0, 1, 20} : VideoHeader(profile, poc, w, cut)
       \/ \E units \in BoundedSeq(Units, MaxUnits) \ {<<>>} : VideoFrame(units) \/ AnnexbFrame(units)
       \/ VideoInfo
       \/ \E object \in {1, 2, 5}, rate \in {3, 4, 7, 11}, channels \in {1, 6} : AudioHeader(object, rate, channels)
       \/ \E frame \in {<<33>>, <<33, 34, 35>>} : AudioFrame(frame) \/ Mp3Frame(frame)

-----------------------------------------------------------------------------
(* The picture size of a complete header is the one its encoder wrote.     *)
SizeRead == given.kind = "header" => result = "ok" /\ vcodec.width = 16 * (given.n + 1) /\ vcodec.height = 48

(* A frame has exactly the units it was muxed from: always once the length *)
(* format is known, and with the format still open when the first unit is  *)
(* not a single byte (00 00 00 01 is a start code, too).                   *)
UnitsKept ==
    /\ given.kind = "frame" /\ vcodec.NAL_unit_length = 3
       /\ (vcodec.payload_format = "Ibmf" \/ Len(given.units[1]) > 1) => video.samples = given.units
    /\ given.kind = "annexb" /\ vcodec.payload_format = "Annexb" => video.samples = given.units

(* An AAC frame comes out of ADTS and of FLV as it went in, and what the   *)
(* sequence header says of it is what ADTS said, with HE as LC and a rate  *)
(* that FLV names overriding the frame's own.                              *)
AudioKept ==
    /\ given.kind = "aac" /\ acodec.extra # <<>> => audio.samples = given.units
    /\ given.kind = "asc" =>
         LET asc == given.units[1]
         IN  /\ given.n = 1 /\ result = "ok"
             /\ acodec.object = IF asc[1] = 5 THEN 2 ELSE asc[1]
             /\ acodec.channels = asc[3]
             /\ acodec.rate = IF asc[2] = 3 THEN 4 ELSE asc[2]

(* A transport stream carries the frame so that it can be read again: its  *)
(* units in order, with a delimiter in front and the parameter sets before *)
(* an IDR that has none; its audio with what the sequence header said.     *)
TsPayloadRead ==
    /\ given.kind = "frame" /\ video.samples = given.units =>
         \A r \in {avc_demux_annexb_format(do_cache_avc(vcodec, video), NewVideoFrame)} :
         LET units == r.video.samples
             added == {DefaultAud} \cup Range(SpsPps(vcodec))
             Idrs  == {i \in DOMAIN units : nal_unit_type(units[i]) = IDR}
         IN  /\ r.err = "ok"
             /\ SelectSeq(units, LAMBDA u : u \notin added) = video.samples
             /\ ~video.has_aud => units[1] = DefaultAud
             /\ Idrs # {} /\ ~video.has_sps_pps =>
                   LET first == CHOOSE i \in Idrs : \A j \in Idrs : i <= j
                   IN  SubSeq(units, first - Len(SpsPps(vcodec)), first - 1) = SpsPps(vcodec)
    /\ given.kind = "aac" /\ acodec.extra # <<>> =>
         \A d \in {adts_demux(do_cache_aac(acodec, audio))} :
             d.ok /\ d.frame = audio.samples[1] /\ d.rate = acodec.rate /\ d.channels = acodec.channels
             /\ d.object = IF acodec.object = 5 THEN 2 ELSE acodec.object
=============================================================================
