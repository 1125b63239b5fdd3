------------------------------ MODULE Mp4Samples ------------------------------
(***************************************************************************)
(* SrsMp4SampleManager: the samples of a file written to the sample tables *)
(* of its tracks, and loaded from them.  A sample is a record              *)
(*   [type, offset, index, dts, pts, key, size, adjust]                    *)
(* with times in milliseconds (the time base of every track written here   *)
(* is 1000); tables are the members of the boxes of Mp4Boxes.              *)
(***************************************************************************)
EXTENDS Mp4Tree

(* uint32_t, scaled to what fits the model checker's integers.             *)
Wrap == 1073741824

(* A box of type t with scalar members and array members.                  *)
Arrays(cols) ==
    [k \in UNION {{<<f, i>> : i \in DOMAIN cols[f]} : f \in DOMAIN cols} |-> cols[k[1]][k[2]]]

NewBox(t, scalars, cols) == Box(t, Object(scalars, <<>>, <<>>) @@ Arrays(cols), <<>>)

(* The column f of a table.                                                *)
Column(b, f) == [i \in 1..Size(b.o, f) |-> b.o[<<f, i>>]]

Of(samples, track) == SelectSeq(samples, LAMBDA s : s.type = track)

-----------------------------------------------------------------------------
(* write_track()                                                           *)

(* Mutant: a run goes on whatever the delta is.                            *)
stts_entries_merged(ts) ==
    IF ts = <<>> THEN <<>> ELSE <<<<Len(ts), IF Len(ts) = 1 THEN 0 ELSE ts[2].dts - ts[1].dts>>>>

(* Time to sample: runs of equal deltas.  A run whose delta is still zero  *)
(* takes the next delta, whatever it is.                                   *)
stts_entries(ts) ==
    LET Step(a, i) ==
            LET delta == IF i = 1 THEN 0 ELSE ts[i].dts - ts[i - 1].dts
            IN  IF i = 1 THEN [a EXCEPT !.count = @ + 1]
                ELSE IF a.delta = 0 \/ a.delta = delta
                THEN [a EXCEPT !.delta = delta, !.count = @ + 1]
                ELSE [done |-> Append(a.done, <<a.count, a.delta>>), count |-> 1, delta |-> delta]
        end == FoldLeft(Step, [done |-> <<>>, count |-> 0, delta |-> 0], [i \in DOMAIN ts |-> i])
    IN  IF end.count # 0 THEN Append(end.done, <<end.count, end.delta>>) ELSE end.done

(* Composition offsets: runs of equal offsets.  The first run is opened    *)
(* without taking the offset of its sample.                                *)
ctts_entries(ts) ==
    LET Step(a, s) ==
            IF a.count = 0 \/ a.offset = s.pts - s.dts THEN [a EXCEPT !.count = @ + 1]
            ELSE [done |-> Append(a.done, <<a.count, a.offset>>), count |-> 1, offset |-> s.pts - s.dts]
        end == FoldLeft(Step, [done |-> <<>>, count |-> 0, offset |-> 0], ts)
    IN  IF end.count # 0 THEN Append(end.done, <<end.count, end.offset>>) ELSE end.done

(* The tables of one track; every sample is a chunk of its own.            *)
write_track(samples, track) ==
    LET ts   == Of(samples, track)
        stts == stts_entries(ts)
        ctts == ctts_entries(ts)
        keys == SelectSeq(ts, LAMBDA s : s.key)
        Pick(es, j) == [i \in DOMAIN es |-> es[i][j]]
        Counted(t, n, cols) == NewBox(t, [entry_count |-> n], cols)
    IN  [stts |-> Counted("stts", Len(stts), [sample_count |-> Pick(stts, 1), sample_delta |-> Pick(stts, 2)]),
         stss |-> Counted("stss", Len(keys), [sample_numbers |-> [i \in DOMAIN keys |-> keys[i].index + 1]]),
         ctts |-> Counted("ctts", Len(ctts), [sample_count |-> Pick(ctts, 1), sample_offset |-> Pick(ctts, 2)]),
         stsc |-> Counted("stsc", 1, [first_chunk |-> <<1>>, samples_per_chunk |-> <<1>>,
                                      sample_description_index |-> <<1>>]),
         stsz |-> NewBox("stsz", [sample_size |-> 0, sample_count |-> Len(ts)],
                         [entry_sizes |-> [i \in DOMAIN ts |-> ts[i].size]]),
         stco |-> Counted("stco", Len(ts), [entries |-> [i \in DOMAIN ts |-> ts[i].offset]])]

(* write(moov): which tables a track gets, in their order.  The offsets    *)
(* table is added when some sample, of any track, has one.                 *)
TablesOf(samples, track) ==
    LET has_cts == \E i \in DOMAIN samples : samples[i].dts # samples[i].pts
        Chosen(t) ==
            IF track = "video"
            THEN <<t.stts, t.stss>> \o (IF has_cts THEN <<t.ctts>> ELSE <<>>) \o <<t.stsc, t.stsz, t.stco>>
            ELSE <<t.stts, t.stsc, t.stsz, t.stco>>
    IN  Chosen(write_track(samples, track))

(* Mutant: all samples of a run have the size of the first.                *)
write_moof_even(samples, dts) ==
    LET Duration(i) ==
            LET d == Min({100, samples[i].dts - (IF i = 1 THEN dts ELSE samples[i - 1].dts)})
            IN  IF d = 0 THEN 40 ELSE d
    IN  NewBox("trun", [flags |-> 3841, version |-> 0, sample_count |-> Len(samples)],
            [sample_duration |-> [i \in DOMAIN samples |-> Duration(i)],
             sample_size |-> [i \in DOMAIN samples |-> samples[1].size],
             sample_flags |-> [i \in DOMAIN samples |-> IF i = 1 THEN 2 ELSE 1],
             sample_composition_time_offset |-> [i \in DOMAIN samples |-> samples[i].pts - samples[i].dts]])

(* write(moof): the run of a fragment.  dts is the time of the last sample *)
(* of the segment before; a duration is at most 100, and 40 for 0.         *)
write_moof(samples, dts) ==
    LET Duration(i) ==
            LET d == Min({100, samples[i].dts - (IF i = 1 THEN dts ELSE samples[i - 1].dts)})
            IN  IF d = 0 THEN 40 ELSE d
    IN  NewBox("trun", [flags |-> 3841, version |-> 0, sample_count |-> Len(samples)],
            [sample_duration |-> [i \in DOMAIN samples |-> Duration(i)],
             sample_size |-> [i \in DOMAIN samples |-> samples[i].size],
             sample_flags |-> [i \in DOMAIN samples |-> IF i = 1 THEN 2 ELSE 1],
             sample_composition_time_offset |-> [i \in DOMAIN samples |-> samples[i].pts - samples[i].dts]])

-----------------------------------------------------------------------------
(* load()                                                                  *)

(* on_sample() of stts and ctts: a cursor over the runs, moved by at most  *)
(* one run for a sample.                                                   *)
StartCursor(counts) == [i |-> 1, upto |-> IF counts = <<>> THEN 0 ELSE counts[1], ok |-> counts # <<>>]

on_sample(cur, counts, index) ==
    IF ~cur.ok \/ index + 1 <= cur.upto THEN cur
    ELSE IF cur.i + 1 > Len(counts) THEN [cur EXCEPT !.ok = FALSE]
    ELSE [cur EXCEPT !.i = @ + 1, !.upto = @ + counts[cur.i + 1]]

(* on_chunk() of stsc: the entry of a chunk, moved by at most one.         *)
on_chunk(i, first_chunks, ci) ==
    IF i >= Len(first_chunks) THEN i
    ELSE IF ci + 1 >= first_chunks[i + 1] THEN i + 1 ELSE i

(* The size of a sample, <<>> past the end of the table.                   *)
get_sample_size(stsz, index) ==
    IF V(stsz.o, "sample_size") # 0 THEN <<V(stsz.o, "sample_size")>>
    ELSE IF index >= V(stsz.o, "sample_count") THEN <<>>
    ELSE <<stsz.o[<<"entry_sizes", index + 1>>]>>

is_sync(stss, index) == stss.type = "none" \/ \E i \in 1..Size(stss.o, "sample_numbers") :
    stss.o[<<"sample_numbers", i>>] = index + 1

(* load_trak(): the samples of a track, chunk by chunk; two samples at one *)
(* offset leave only the second.  The result is not ok when a table is too *)
(* short or missing.                                                       *)
load_trak(tses, stbl, track) ==
    LET stts == get_box(stbl, "stts")   ctts == get_box(stbl, "ctts")
        stsc == get_box(stbl, "stsc")   stsz == get_box(stbl, "stsz")
        stco == get_box(stbl, "stco")
        counts  == Column(stts, "sample_count")
        ccounts == Column(ctts, "sample_count")
        useCtts == track = "video" /\ ctts.type # "none"
        OneSample(a, ci) ==
            LET index == a.n
                size  == get_sample_size(stsz, index)
                t     == on_sample(a.t, counts, index)
                c     == IF useCtts THEN on_sample(a.c, ccounts, index) ELSE a.c
                dts   == IF index = 0 THEN 0 ELSE a.dts + Column(stts, "sample_delta")[t.i]
                offset == Column(stco, "entries")[ci] + a.rel
                s == [type |-> track, offset |-> offset, index |-> index, dts |-> dts,
                      pts |-> IF useCtts THEN dts + Column(ctts, "sample_offset")[c.i] ELSE dts,
                      key |-> track = "video" /\ is_sync(get_box(stbl, "stss"), index),
                      size |-> size[1], adjust |-> 0]
            IN  IF ~a.ok \/ size = <<>> \/ ~t.ok \/ (useCtts /\ ~c.ok) THEN [a EXCEPT !.ok = FALSE]
                ELSE [a EXCEPT !.n = @ + 1, !.t = t, !.c = c, !.dts = dts, !.rel = @ + s.size,
                               !.tses = (offset :> s) @@ @]
        OneChunk(a, ci) ==
            LET i == on_chunk(a.sc, Column(stsc, "first_chunk"), ci - 1)
            IN  FoldLeft(LAMBDA b, k : OneSample(b, ci), [a EXCEPT !.sc = i, !.rel = 0],
                         [k \in 1..Column(stsc, "samples_per_chunk")[i] |-> k])
        start == [tses |-> tses, n |-> 0, t |-> StartCursor(counts), c |-> StartCursor(ccounts),
                  dts |-> 0, rel |-> 0, sc |-> 1, ok |-> counts # <<>> /\ (useCtts => ccounts # <<>>)]
        AtEnd(end) == [tses |-> end.tses, ok |-> end.ok /\ (end.n > 0 => end.n = V(stsz.o, "sample_count"))]
    IN  IF "none" \in {stts.type, stsc.type, stsz.type, stco.type} THEN [tses |-> tses, ok |-> FALSE]
        ELSE AtEnd(FoldLeft(OneChunk, start, [ci \in 1..Size(stco.o, "entries") |-> ci]))

dts_ms(s) == (s.dts + s.adjust) % Wrap

pts_ms(s) == (s.pts + s.adjust) % Wrap

(* The samples in the order of their offsets; when every audio sample that *)
(* follows a video sample is later (or every one is earlier) than it, all  *)
(* audio is moved by the largest difference.                               *)
load(tses) ==
    LET offsets == SetToSortSeq(DOMAIN tses, <)
        samples == [i \in DOMAIN offsets |-> tses[offsets[i]]]
        diffs == {samples[i].dts - samples[i - 1].dts :
                    i \in {j \in 2..Len(samples) : samples[j].type = "audio" /\ samples[j - 1].type = "video"}}
        maxp == Max({0} \cup diffs)
        maxn == Min({0} \cup diffs)
    IN  IF maxp * maxn = 0 /\ maxp + maxn # 0
        THEN [i \in DOMAIN samples |->
                IF samples[i].type = "audio" THEN [samples[i] EXCEPT !.adjust = 0 - maxp - maxn] ELSE samples[i]]
        ELSE samples

(* at(): nothing from the last index on.                                   *)
at(samples, index) == IF index >= Len(samples) - 1 THEN <<>> ELSE <<samples[index + 1]>>
=============================================================================
