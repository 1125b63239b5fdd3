------------------------------ MODULE MixQueue ------------------------------
(***************************************************************************)
(* The queue of the mix_correct algorithm (SrsMixQueue): audio and video   *)
(* ordered by time before they are consumed.  The multimap is a sequence   *)
(* sorted by time in which equal times keep their order of arrival.        *)
(***************************************************************************)
EXTENDS SharedMessage

CONSTANT MixPureAv   \* SRS_MIX_CORRECT_PURE_AV

ASSUME MixAssumption == MixPureAv \in Nat \ {0}

nb_videos(q) == Cardinality({i \in DOMAIN q : is_video(q[i])})
nb_audios(q) == Cardinality({i \in DOMAIN q : ~is_video(q[i])})

\* Mutant: no order.
MixPushLast(q, m) == Append(q, m)

\* Insert after every message that is not later.
MixPush(q, m) ==
    InsertAt(q, 1 + Cardinality({i \in DOMAIN q : q[i].ts <= m.ts}), m)

mix_ok(q) ==
    \/ nb_videos(q) >= MixPureAv /\ nb_audios(q) = 0
    \/ nb_audios(q) >= MixPureAv /\ nb_videos(q) = 0
    \/ nb_videos(q) >= 1 /\ nb_audios(q) >= 1

\* The message fetched, and what stays.
MixPopped(q)   == IF mix_ok(q) THEN q[1] ELSE NoMessage
MixAfterPop(q) == IF mix_ok(q) THEN Tail(q) ELSE q
=============================================================================
