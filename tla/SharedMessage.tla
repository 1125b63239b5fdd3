--------------------------- MODULE SharedMessage ---------------------------
(***************************************************************************)
(* The reference-counted media message (SrsSharedPtrMessage) as the live   *)
(* source sees it.  A payload is reduced to the answers of the FLV probes  *)
(* the source asks of it (kind) and to its identity (id), which is all     *)
(* that srs_bytes_equals can tell apart; a copy of a message shares the    *)
(* payload and owns its timestamp, so a record value is exactly a copy.    *)
(***************************************************************************)
EXTENDS Integers, Sequences, SequencesExt

\* Answers of SrsFlvVideo::{acceptable,h264,sh,keyframe} and of
\* SrsFlvAudio::sh.  "badsh" is a sequence header the demuxer rejects,
\* "other" a video of a codec that is not AVC, "unknown" one whose first
\* byte is no legal frame type or codec, "bravo" metadata that carries
\* bravo_atc = "true".
VideoKinds == {"sh", "badsh", "key", "inter", "other", "unknown"}
AudioKinds == {"sh", "badsh", "raw"}
DataKinds  == {"meta", "bravo"}

Message ==
    [type : {"video"}, kind : VideoKinds, id : Nat, ts : Int] \cup
    [type : {"audio"}, kind : AudioKinds, id : Nat, ts : Int] \cup
    [type : {"data"},  kind : DataKinds,  id : Nat, ts : Int]

\* The NULL pointer.
NoMessage == [type |-> "none", kind |-> "none", id |-> 0, ts |-> 0]

is_av(m)    == m.type \in {"video", "audio"}
is_video(m) == m.type = "video"
is_audio(m) == m.type = "audio"

sh(m)         == is_av(m) /\ m.kind \in {"sh", "badsh"}
h264(m)       == is_video(m) /\ m.kind \in {"sh", "badsh", "key", "inter"}
keyframe(m)   == is_video(m) /\ m.kind \in {"sh", "badsh", "key"}
acceptable(m) == is_video(m) /\ m.kind # "unknown"

\* Same payload bytes: size equal and srs_bytes_equals.
SamePayload(m, o) == m.type = o.type /\ m.kind = o.kind /\ m.id = o.id
=============================================================================
