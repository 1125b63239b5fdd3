------------------------------ MODULE Mp4Boxes ------------------------------
(***************************************************************************)
(* The boxes of an MP4 file (srs_kernel_mp4): for every class the members  *)
(* (the definition named after the class, from its declaration) and its    *)
(* layout: nb is what nb_header() answers, w what encode_header() writes   *)
(* and r what decode_header() reads, item by item.  r is a function of the *)
(* members already read, as the branches of decode_header() are.           *)
(* Widths 0 and -1 stand for the two variable items: the length of a       *)
(* descriptor (seven bits a byte) and a string that ends with a zero.      *)
(***************************************************************************)
EXTENDS ByteLayout, FiniteSets

(* SrsMp4BoxType: the types SrsMp4Box::discovery can create a box for.     *)
BoxTypes ==
    <<"ftyp", "mdat", "free", "skip", "moov", "mvhd", "trak", "tkhd", "edts", "elst",
      "mdia", "mdhd", "hdlr", "minf", "vmhd", "smhd", "dinf", "url", "urn", "dref",
      "stbl", "stsd", "stts", "ctts", "stss", "stsc", "stco", "co64", "stsz", "avc1",
      "avcC", "mp4a", "esds", "udta", "mvex", "trex", "pasp", "styp", "moof", "mfhd",
      "traf", "tfhd", "tfdt", "trun">>

TypeCode(t) == CHOOSE i \in DOMAIN BoxTypes : BoxTypes[i] = t

(* v.size() of a vector member.                                            *)
Size(o, f) == Cardinality({k \in DOMAIN o : k[1] = f /\ k[2] > 0})

When(cond, item) == IF cond THEN <<item>> ELSE <<>>

(* The entries of a list of <<flag, entry>> whose flag is set.             *)
Flagged(flags, list) ==
    LET on == SelectSeq(list, LAMBDA e : Bit(flags, e[1])) IN [i \in DOMAIN on |-> on[i][2]]

(* The widths of the items a 32 or 64 bit version of a box uses.           *)
Time(o) == IF V(o, "version") = 1 THEN 8 ELSE 4

VarLen == 0
CString == -1

(* srs_mp4_string_length(): the terminator always counts.                  *)
srs_mp4_string_length(n) == n + 1

(* SrsMp4BaseDescriptor::nb_bytes(): the bytes the length field takes.     *)
LengthBytes(n) == IF n > 2097151 THEN 4 ELSE IF n > 16383 THEN 3 ELSE IF n > 127 THEN 2 ELSE 1

-----------------------------------------------------------------------------
(* The base classes                                                        *)

(* SrsMp4Box: the size, the large size when the size is 1, the type.  The  *)
(* writer puts the large size before the type, the reader after it.        *)
SrsMp4Box(o) ==
    [nb |-> 8 + (IF V(o, "smallsize") = 1 THEN 8 ELSE 0),
     w  |-> <<F("smallsize", 4)>> \o When(V(o, "smallsize") = 1, F("largesize", 8)) \o <<F("type", 4)>>,
     r  |-> <<F("smallsize", 4), F("type", 4)>> \o When(V(o, "smallsize") = 1, F("largesize", 8))]

(* A class that adds members to its base.                                  *)
Extends(base, nb, w, r) == [nb |-> base.nb + nb, w |-> base.w \o w, r |-> base.r \o r]

SrsMp4FullBox(o) ==
    Extends(SrsMp4Box(o), 1 + 3, <<F("version", 1), F("flags", 3)>>, <<F("version", 1), F("flags", 3)>>)

(* left_space() once the layout l has been read.                           *)
LeftSpace(o, l) ==
    (IF V(o, "smallsize") = 1 THEN V(o, "largesize") ELSE V(o, "smallsize")) - Width(l)

-----------------------------------------------------------------------------
(* ftyp and styp, fragments                                                *)

FileType == {Object([minor_version |-> 512], <<"major_brand">>, <<<<"compatible_brands", n>>>>) : n \in {0, 2, 4}}

SrsMp4FileTypeBox(o) ==
    LET fixed == <<F("major_brand", 4), F("minor_version", 4)>>
        base  == SrsMp4Box(o)
    IN  Extends(base, 8 + Size(o, "compatible_brands") * 4,
            fixed \o A("compatible_brands", Size(o, "compatible_brands"), 4),
            fixed \o A("compatible_brands", LeftSpace(o, base.r \o fixed) \div 4, 4))

MovieFragmentHeader == {Object(<<>>, <<"sequence_number">>, <<>>)}

SrsMp4MovieFragmentHeaderBox(o) ==
    Extends(SrsMp4FullBox(o), 4, <<F("sequence_number", 4)>>, <<F("sequence_number", 4)>>)

TrackFragmentHeader ==
    {Object([flags |-> f],
        <<"track_id">> \o Flagged(f, <<<<1, "base_data_offset">>, <<2, "sample_description_index">>,
            <<8, "default_sample_duration">>, <<16, "default_sample_size">>,
            <<32, "default_sample_flags">>>>), <<>>) : f \in {0, 1, 2, 8, 16, 32, 59, 131072}}

SrsMp4TrackFragmentHeaderBox(o) ==
    LET flags == V(o, "flags")
        On(m, n) == IF Bit(flags, m) THEN n ELSE 0
    IN  Extends(SrsMp4FullBox(o), 4 + On(1, 8) + On(2, 4) + On(8, 4) + On(16, 4) + On(32, 4),
            <<F("track_id", 4)>> \o Flagged(flags, <<<<1, F("base_data_offset", 8)>>,
                <<2, F("sample_description_index", 4)>>, <<8, F("default_sample_duration", 4)>>,
                <<16, F("default_sample_size", 4)>>, <<32, F("default_sample_flags", 4)>>>>),
            <<F("track_id", 4)>> \o Flagged(flags, <<<<1, F("base_data_offset", 8)>>,
                <<2, F("sample_description_index", 4)>>, <<8, F("default_sample_duration", 4)>>,
                <<16, F("default_sample_size", 4)>>, <<32, F("default_sample_flags", 4)>>>>))

TrackFragmentDecodeTime == {Object([version |-> v], <<"base_media_decode_time">>, <<>>) : v \in {0, 1}}

SrsMp4TrackFragmentDecodeTimeBox(o) ==
    LET w == IF V(o, "version") # 0 THEN 8 ELSE 4
    IN  Extends(SrsMp4FullBox(o), w, <<F("base_media_decode_time", w)>>, <<F("base_media_decode_time", w)>>)

(* One row per sample; which columns there are is said by the flags.       *)
TrunColumns(flags) ==
    Flagged(flags, <<<<256, <<"sample_duration", 4>>>>, <<512, <<"sample_size", 4>>>>,
        <<1024, <<"sample_flags", 4>>>>, <<2048, <<"sample_composition_time_offset", 4>>>>>>)

TrackFragmentRun ==
    {Object([flags |-> f, version |-> 0, sample_count |-> n],
        Flagged(f, <<<<1, "data_offset">>, <<4, "first_sample_flags">>>>),
        [i \in DOMAIN TrunColumns(f) |-> <<TrunColumns(f)[i][1], n>>]) :
            f \in {0, 1, 4, 256, 512, 1024, 2048, 3841}, n \in {0, 2}}

SrsMp4TrackFragmentRunBox(o) ==
    LET flags == V(o, "flags")
        On(m, n) == IF Bit(flags, m) THEN n ELSE 0
        entry == On(256, 4) + On(512, 4) + On(1024, 4) + On(2048, 4)
        fixed == <<F("sample_count", 4)>> \o
                 Flagged(flags, <<<<1, F("data_offset", 4)>>, <<4, F("first_sample_flags", 4)>>>>)
    IN  Extends(SrsMp4FullBox(o), 4 + On(1, 4) + On(4, 4) + V(o, "sample_count") * entry,
            fixed \o Rows(V(o, "sample_count"), TrunColumns(flags)),
            fixed \o Rows(V(o, "sample_count"), TrunColumns(flags)))

-----------------------------------------------------------------------------
(* mdat, free space                                                        *)

(* nb_data is not written: the payload follows the box, and decode() takes *)
(* the count from the size.                                                *)
SrsMp4MediaDataBox(o) == SrsMp4Box(o)

FreeSpace == {Object(<<>>, <<>>, <<<<"data", n>>>>) : n \in {0, 3}}

SrsMp4FreeSpaceBox(o) ==
    Extends(SrsMp4Box(o), Size(o, "data"), A("data", Size(o, "data"), 1),
        A("data", LeftSpace(o, SrsMp4Box(o).r), 1))

-----------------------------------------------------------------------------
(* moov and trak                                                           *)

MovieHeader ==
    {Object([version |-> v], <<"creation_time", "modification_time", "timescale", "duration_in_tbn",
        "rate", "volume", "next_track_ID">>, <<<<"matrix", 9>>>>) : v \in {0, 1}}

(* Mutant: the duration is read before the time scale.                     *)
SrsMp4MovieHeaderBox_swapped(o) ==
    LET times(a, b) == <<F("creation_time", Time(o)), F("modification_time", Time(o)), F(a, 4), F(b, Time(o))>>
    IN  Extends(SrsMp4FullBox(o),
            (IF V(o, "version") = 1 THEN 8+8+4+8 ELSE 4+4+4+4) + 4+2+2+8+36+24+4,
            times("timescale", "duration_in_tbn")
                \o <<F("rate", 4), F("volume", 2), F("reserved0", 2), F("reserved1", 8)>>
                \o A("matrix", 9, 4) \o A("pre_defined", 6, 4) \o <<F("next_track_ID", 4)>>,
            times("duration_in_tbn", "timescale") \o <<F("rate", 4), F("volume", 2), Skip(2), Skip(8)>>
                \o A("matrix", 9, 4) \o <<Skip(24), F("next_track_ID", 4)>>)

SrsMp4MovieHeaderBox(o) ==
    LET times == <<F("creation_time", Time(o)), F("modification_time", Time(o)),
                   F("timescale", 4), F("duration_in_tbn", Time(o))>>
    IN  Extends(SrsMp4FullBox(o),
            (IF V(o, "version") = 1 THEN 8+8+4+8 ELSE 4+4+4+4) + 4+2+2+8+36+24+4,
            times \o <<F("rate", 4), F("volume", 2), F("reserved0", 2), F("reserved1", 8)>>
                  \o A("matrix", 9, 4) \o A("pre_defined", 6, 4) \o <<F("next_track_ID", 4)>>,
            times \o <<F("rate", 4), F("volume", 2), Skip(2), Skip(8)>>
                  \o A("matrix", 9, 4) \o <<Skip(24), F("next_track_ID", 4)>>)

TrackExtends ==
    {Object(<<>>, <<"track_ID", "default_sample_description_index", "default_sample_duration",
        "default_sample_size", "default_sample_flags">>, <<>>)}

SrsMp4TrackExtendsBox(o) ==
    Extends(SrsMp4FullBox(o), 4*5,
        <<F("track_ID", 4), F("default_sample_description_index", 4), F("default_sample_duration", 4),
          F("default_sample_size", 4), F("default_sample_flags", 4)>>,
        <<F("track_ID", 4), F("default_sample_description_index", 4), F("default_sample_duration", 4),
          F("default_sample_size", 4), F("default_sample_flags", 4)>>)

TrackHeader ==
    {Object([version |-> v, flags |-> 3], <<"creation_time", "modification_time", "track_ID", "duration",
        "layer", "alternate_group", "volume", "width", "height">>, <<<<"matrix", 9>>>>) : v \in {0, 1}}

SrsMp4TrackHeaderBox(o) ==
    Extends(SrsMp4FullBox(o),
        (IF V(o, "version") = 1 THEN 8+8+4+4+8 ELSE 4+4+4+4+4) + 8+2+2+2+2+36+4+4,
        <<F("creation_time", Time(o)), F("modification_time", Time(o)), F("track_ID", 4),
          F("reserved0", 4), F("duration", Time(o)), F("reserved1", 8), F("layer", 2),
          F("alternate_group", 2), F("volume", 2), F("reserved2", 2)>>
            \o A("matrix", 9, 4) \o <<F("width", 4), F("height", 4)>>,
        <<F("creation_time", Time(o)), F("modification_time", Time(o)), F("track_ID", 4),
          Skip(4), F("duration", Time(o)), Skip(8), F("layer", 2),
          F("alternate_group", 2), F("volume", 2), Skip(2)>>
            \o A("matrix", 9, 4) \o <<F("width", 4), F("height", 4)>>)

EditList ==
    {Object([version |-> v, entry_count |-> n], <<>>,
        <<<<"segment_duration", n>>, <<"media_time", n>>, <<"media_rate_integer", n>>,
          <<"media_rate_fraction", n>>>>) : v \in {0, 1}, n \in {0, 2}}

SrsMp4EditListBox(o) ==
    LET cols == <<<<"segment_duration", Time(o)>>, <<"media_time", Time(o)>>,
                  <<"media_rate_integer", 2>>, <<"media_rate_fraction", 2>>>>
    IN  Extends(SrsMp4FullBox(o),
            4 + V(o, "entry_count") * (IF V(o, "version") = 1 THEN 2+2+8+8 ELSE 2+2+4+4),
            <<F("entry_count", 4)>> \o Rows(V(o, "entry_count"), cols),
            <<F("entry_count", 4)>> \o Rows(V(o, "entry_count"), cols))

-----------------------------------------------------------------------------
(* mdia, minf, dinf                                                        *)

MediaHeader ==
    {Object([version |-> v], <<"creation_time", "modification_time", "timescale", "duration", "language">>, <<>>) :
        v \in {0, 1}}

SrsMp4MediaHeaderBox(o) ==
    LET times == <<F("creation_time", Time(o)), F("modification_time", Time(o)),
                   F("timescale", 4), F("duration", Time(o))>>
    IN  Extends(SrsMp4FullBox(o),
            (IF V(o, "version") = 1 THEN 8+8+4+8 ELSE 4+4+4+4) + 2+2,
            times \o <<F("language", 2), F("pre_defined", 2)>>,
            times \o <<F("language", 2), Skip(2)>>)

(* The members named as strings hold the length of the string; the boxes   *)
(* this library builds have the names VideoHandler and SoundHandler, never *)
(* the empty one.                                                          *)
HandlerReference == {Object([handler_type |-> h, name |-> n], <<>>, <<>>) : h \in {0, 1, 2}, n \in {1, 12}}

SrsMp4HandlerReferenceBox(o) ==
    Extends(SrsMp4FullBox(o), 4+4+12 + srs_mp4_string_length(V(o, "name")),
        <<F("pre_defined", 4), F("handler_type", 4)>> \o A("reserved", 3, 4) \o <<F("name", CString)>>,
        <<Skip(4), F("handler_type", 4), Skip(12), F("name", CString)>>)

VideoMeidaHeader == {Object([flags |-> 1], <<"graphicsmode">>, <<<<"opcolor", 3>>>>)}

SrsMp4VideoMeidaHeaderBox(o) ==
    Extends(SrsMp4FullBox(o), 2+6, <<F("graphicsmode", 2)>> \o A("opcolor", 3, 2),
        <<F("graphicsmode", 2)>> \o A("opcolor", 3, 2))

SoundMeidaHeader == {Object(<<>>, <<"balance">>, <<>>)}

SrsMp4SoundMeidaHeaderBox(o) ==
    Extends(SrsMp4FullBox(o), 2+2, <<F("balance", 2), F("reserved", 2)>>, <<F("balance", 2), Skip(2)>>)

(* An entry without a location says so in its flags.                       *)
DataEntryUrl == {Object([flags |-> IF n = 0 THEN 1 ELSE 0, location |-> n], <<>>, <<>>) : n \in {0, 3}}

SrsMp4DataEntryUrlBox(o) ==
    Extends(SrsMp4FullBox(o),
        IF V(o, "location") = 0 THEN 0 ELSE srs_mp4_string_length(V(o, "location")),
        When(V(o, "location") # 0, F("location", CString)),
        When(V(o, "flags") # 1, F("location", CString)))

DataEntryUrn == {Object([location |-> l, name |-> n], <<>>, <<>>) : l \in {1, 3}, n \in {1, 2}}

SrsMp4DataEntryUrnBox(o) ==
    Extends(SrsMp4FullBox(o),
        srs_mp4_string_length(V(o, "location")) + srs_mp4_string_length(V(o, "name")),
        <<F("location", CString), F("name", CString)>>,
        <<F("location", CString), F("name", CString)>>)

(* dref and stsd: the entries are boxes and part of the header; entry_count *)
(* is how many there are, the entries are coded by the module Mp4Tree.     *)
SrsMp4DataReferenceBox(o) ==
    Extends(SrsMp4FullBox(o), 4, <<F("entry_count", 4)>>, <<F("entry_count", 4)>>)

SrsMp4SampleDescriptionBox(o) ==
    Extends(SrsMp4FullBox(o), 4, <<F("entry_count", 4)>>, <<F("entry_count", 4)>>)

-----------------------------------------------------------------------------
(* Sample descriptions                                                     *)

SrsMp4SampleEntry(o) ==
    Extends(SrsMp4Box(o), 6+2, A("reserved", 6, 1) \o <<F("data_reference_index", 2)>>,
        <<Skip(6), F("data_reference_index", 2)>>)

VisualSampleEntry ==
    {Object(<<>>, <<"data_reference_index", "width", "height", "horizresolution", "vertresolution",
        "frame_count", "depth">>, <<<<"compressorname", 32>>>>)}

SrsMp4VisualSampleEntry(o) ==
    Extends(SrsMp4SampleEntry(o), 2+2+12+2+2+4+4+4+2+32+2+2,
        <<F("pre_defined0", 2), F("reserved0", 2)>> \o A("pre_defined1", 3, 4) \o
        <<F("width", 2), F("height", 2), F("horizresolution", 4), F("vertresolution", 4),
          F("reserved1", 4), F("frame_count", 2)>> \o A("compressorname", 32, 1) \o
        <<F("depth", 2), F("pre_defined2", 2)>>,
        <<Skip(2), Skip(2), Skip(12), F("width", 2), F("height", 2), F("horizresolution", 4),
          F("vertresolution", 4), Skip(4), F("frame_count", 2)>> \o A("compressorname", 32, 1) \o
        <<F("depth", 2), Skip(2)>>)

Avcc == {Object(<<>>, <<>>, <<<<"avc_config", n>>>>) : n \in {0, 3}}

SrsMp4AvccBox(o) ==
    Extends(SrsMp4Box(o), Size(o, "avc_config"), A("avc_config", Size(o, "avc_config"), 1),
        A("avc_config", LeftSpace(o, SrsMp4Box(o).r), 1))

AudioSampleEntry ==
    {Object(<<>>, <<"data_reference_index", "channelcount", "samplesize", "samplerate">>, <<>>)}

SrsMp4AudioSampleEntry(o) ==
    Extends(SrsMp4SampleEntry(o), 8+2+2+2+2+4,
        <<F("reserved0", 8), F("channelcount", 2), F("samplesize", 2), F("pre_defined0", 2),
          F("reserved1", 2), F("samplerate", 4)>>,
        <<Skip(8), F("channelcount", 2), F("samplesize", 2), Skip(2), Skip(2), F("samplerate", 4)>>)

(* SrsMp4BaseDescriptor::nb_bytes(): tag, length, payload.                 *)
SrsMp4BaseDescriptor(payload) == 1 + LengthBytes(payload) + payload

(* nb_payload() of the four descriptors of esds; the config descriptor has *)
(* a specific info when there is an asc.                                   *)
SrsMp4DecoderSpecificInfo(o) == Size(o, "asc")

SrsMp4DecoderConfigDescriptor(o) ==
    13 + (IF Size(o, "asc") > 0 THEN SrsMp4BaseDescriptor(SrsMp4DecoderSpecificInfo(o)) ELSE 0)

SrsMp4SLConfigDescriptor(o) == 1

SrsMp4ES_Descriptor(o) ==
    2 + 1 + (IF Bit(V(o, "es_flags"), 128) THEN 2 ELSE 0)
      + (IF Bit(V(o, "es_flags"), 64) THEN 1 + Size(o, "URLstring") ELSE 0)
      + (IF Bit(V(o, "es_flags"), 32) THEN 2 ELSE 0)
      + SrsMp4BaseDescriptor(SrsMp4DecoderConfigDescriptor(o))
      + SrsMp4BaseDescriptor(SrsMp4SLConfigDescriptor(o))

(* vlen = nb_payload(), for each descriptor.                               *)
DescriptorLengths(o) ==
    Object([es_vlen |-> SrsMp4ES_Descriptor(o), dec_vlen |-> SrsMp4DecoderConfigDescriptor(o),
            asc_vlen |-> SrsMp4DecoderSpecificInfo(o), sl_vlen |-> SrsMp4SLConfigDescriptor(o)], <<>>, <<>>)

(* The flags byte of the ES descriptor: dependence, url and OCR stream.    *)
Esds ==
    {Object([es_flags |-> f, url_len |-> IF Bit(f, 64) THEN 2 ELSE 0, predefined |-> 2],
        <<"ES_ID", "objectTypeIndication", "dec_flags", "bufferSizeDB", "maxBitrate", "avgBitrate">>
            \o Flagged(f, <<<<128, "dependsOn_ES_ID">>, <<32, "OCR_ES_Id">>>>),
        <<<<"asc", n>>, <<"URLstring", IF Bit(f, 64) THEN 2 ELSE 0>>>>) :
            f \in {0, 32, 64, 128}, n \in {0, 2, 120}}

SrsMp4EsdsBox(o) ==
    LET flags == V(o, "es_flags")
        config == <<F("objectTypeIndication", 1), F("dec_flags", 1), F("bufferSizeDB", 3),
                    F("maxBitrate", 4), F("avgBitrate", 4)>>
        head == <<F("es_tag", 1), F("es_vlen", VarLen), F("ES_ID", 2), F("es_flags", 1)>>
                \o When(Bit(flags, 128), F("dependsOn_ES_ID", 2))
    IN  Extends(SrsMp4FullBox(o), SrsMp4BaseDescriptor(SrsMp4ES_Descriptor(o)),
            head \o (IF Bit(flags, 64) /\ Size(o, "URLstring") > 0
                     THEN <<F("url_len", 1)>> \o A("URLstring", Size(o, "URLstring"), 1) ELSE <<>>)
                \o When(Bit(flags, 32), F("OCR_ES_Id", 2))
                \o <<F("dec_tag", 1), F("dec_vlen", VarLen)>> \o config
                \o (IF Size(o, "asc") > 0
                     THEN <<F("asc_tag", 1), F("asc_vlen", VarLen)>> \o A("asc", Size(o, "asc"), 1) ELSE <<>>)
                \o <<F("sl_tag", 1), F("sl_vlen", VarLen), F("predefined", 1)>>,
            head \o (IF Bit(flags, 64) THEN <<F("url_len", 1)>> \o A("URLstring", V(o, "url_len"), 1) ELSE <<>>)
                \o When(Bit(flags, 32), F("OCR_ES_Id", 2))
                \o <<F("dec_tag", 1), F("dec_vlen", VarLen)>> \o config
                \o (IF V(o, "dec_vlen") - 13 > 0
                     THEN <<F("asc_tag", 1), F("asc_vlen", VarLen)>> \o A("asc", V(o, "asc_vlen"), 1) ELSE <<>>)
                \o <<F("sl_tag", 1), F("sl_vlen", VarLen), F("predefined", 1)>>)

-----------------------------------------------------------------------------
(* The sample table                                                        *)

(* A count and that many rows, as stts, ctts, stss, stsc, stco, co64 are.  *)
Table(o, row, cols) ==
    Extends(SrsMp4FullBox(o), 4 + row * V(o, "entry_count"),
        <<F("entry_count", 4)>> \o Rows(V(o, "entry_count"), cols),
        <<F("entry_count", 4)>> \o Rows(V(o, "entry_count"), cols))

TableOf(names) ==
    {Object([entry_count |-> n], <<>>, [i \in DOMAIN names |-> <<names[i], n>>]) : n \in {0, 1, 3}}

DecodingTime2Sample == TableOf(<<"sample_count", "sample_delta">>)

SrsMp4DecodingTime2SampleBox(o) == Table(o, 8, <<<<"sample_count", 4>>, <<"sample_delta", 4>>>>)

CompositionTime2Sample == {Set(o, "version", v) : o \in TableOf(<<"sample_count", "sample_offset">>), v \in {0, 1}}

SrsMp4CompositionTime2SampleBox(o) == Table(o, 8, <<<<"sample_count", 4>>, <<"sample_offset", 4>>>>)

SyncSample == TableOf(<<"sample_numbers">>)

SrsMp4SyncSampleBox(o) == Table(o, 4, <<<<"sample_numbers", 4>>>>)

Sample2Chunk == TableOf(<<"first_chunk", "samples_per_chunk", "sample_description_index">>)

SrsMp4Sample2ChunkBox(o) ==
    Table(o, 12, <<<<"first_chunk", 4>>, <<"samples_per_chunk", 4>>, <<"sample_description_index", 4>>>>)

ChunkOffset == TableOf(<<"entries">>)

SrsMp4ChunkOffsetBox(o) == Table(o, 4, <<<<"entries", 4>>>>)

SrsMp4ChunkLargeOffsetBox(o) == Table(o, 8, <<<<"entries", 8>>>>)

(* One size for all samples, or a table when that size is zero.            *)
SampleSize ==
    {Object([sample_size |-> s, sample_count |-> n], <<>>, <<<<"entry_sizes", IF s = 0 THEN n ELSE 0>>>>) :
        s \in {0, 7}, n \in {0, 2}}

SrsMp4SampleSizeBox(o) ==
    LET sizes == IF V(o, "sample_size") = 0 THEN V(o, "sample_count") ELSE 0
    IN  Extends(SrsMp4FullBox(o), 4+4 + 4 * sizes,
            <<F("sample_size", 4), F("sample_count", 4)>> \o A("entry_sizes", sizes, 4),
            <<F("sample_size", 4), F("sample_count", 4)>> \o A("entry_sizes", sizes, 4))

UserData == FreeSpace

SrsMp4UserDataBox(o) ==
    Extends(SrsMp4Box(o), Size(o, "data"), A("data", Size(o, "data"), 1),
        A("data", LeftSpace(o, SrsMp4Box(o).r), 1))

-----------------------------------------------------------------------------
(* SrsMp4Box::discovery(): the class of every type.                        *)
discovery(t, o) ==
    CASE t \in {"ftyp", "styp"} -> SrsMp4FileTypeBox(o)
      [] t = "mdat" -> SrsMp4MediaDataBox(o)
      [] t \in {"free", "skip", "pasp"} -> SrsMp4FreeSpaceBox(o)
      [] t \in {"moov", "trak", "edts", "mdia", "minf", "dinf", "stbl", "mvex", "moof", "traf"} -> SrsMp4Box(o)
      [] t = "mvhd" -> SrsMp4MovieHeaderBox(o)
      [] t = "tkhd" -> SrsMp4TrackHeaderBox(o)
      [] t = "elst" -> SrsMp4EditListBox(o)
      [] t = "mdhd" -> SrsMp4MediaHeaderBox(o)
      [] t = "hdlr" -> SrsMp4HandlerReferenceBox(o)
      [] t = "vmhd" -> SrsMp4VideoMeidaHeaderBox(o)
      [] t = "smhd" -> SrsMp4SoundMeidaHeaderBox(o)
      [] t = "url"  -> SrsMp4DataEntryUrlBox(o)
      [] t = "urn"  -> SrsMp4DataEntryUrnBox(o)
      [] t = "dref" -> SrsMp4DataReferenceBox(o)
      [] t = "stsd" -> SrsMp4SampleDescriptionBox(o)
      [] t = "stts" -> SrsMp4DecodingTime2SampleBox(o)
      [] t = "ctts" -> SrsMp4CompositionTime2SampleBox(o)
      [] t = "stss" -> SrsMp4SyncSampleBox(o)
      [] t = "stsc" -> SrsMp4Sample2ChunkBox(o)
      [] t = "stco" -> SrsMp4ChunkOffsetBox(o)
      [] t = "co64" -> SrsMp4ChunkLargeOffsetBox(o)
      [] t = "stsz" -> SrsMp4SampleSizeBox(o)
      [] t = "avc1" -> SrsMp4VisualSampleEntry(o)
      [] t = "avcC" -> SrsMp4AvccBox(o)
      [] t = "mp4a" -> SrsMp4AudioSampleEntry(o)
      [] t = "esds" -> SrsMp4EsdsBox(o)
      [] t = "udta" -> SrsMp4UserDataBox(o)
      [] t = "trex" -> SrsMp4TrackExtendsBox(o)
      [] t = "mfhd" -> SrsMp4MovieFragmentHeaderBox(o)
      [] t = "tfhd" -> SrsMp4TrackFragmentHeaderBox(o)
      [] t = "tfdt" -> SrsMp4TrackFragmentDecodeTimeBox(o)
      [] t = "trun" -> SrsMp4TrackFragmentRunBox(o)

(* The objects of every type that has members.                             *)
Members ==
    [ftyp |-> FileType, styp |-> FileType, free |-> FreeSpace, mvhd |-> MovieHeader,
     tkhd |-> TrackHeader, elst |-> EditList, mdhd |-> MediaHeader, hdlr |-> HandlerReference,
     vmhd |-> VideoMeidaHeader, smhd |-> SoundMeidaHeader, url |-> DataEntryUrl, urn |-> DataEntryUrn,
     stts |-> DecodingTime2Sample, ctts |-> CompositionTime2Sample, stss |-> SyncSample,
     stsc |-> Sample2Chunk, stco |-> ChunkOffset, co64 |-> ChunkOffset, stsz |-> SampleSize,
     avc1 |-> VisualSampleEntry, avcC |-> Avcc, mp4a |-> AudioSampleEntry, esds |-> Esds,
     udta |-> UserData, trex |-> TrackExtends, mfhd |-> MovieFragmentHeader,
     tfhd |-> TrackFragmentHeader, tfdt |-> TrackFragmentDecodeTime, trun |-> TrackFragmentRun]
=============================================================================
