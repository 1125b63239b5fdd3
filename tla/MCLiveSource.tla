---------------------------- MODULE MCLiveSource ----------------------------
(***************************************************************************)
(* LiveSource with the small inputs of the runs.                           *)
(***************************************************************************)
EXTENDS LiveSource

\* What a publisher may send, per run.
HeaderInputs == {<<"video", "sh", 1>>, <<"video", "sh", 2>>, <<"video", "badsh", 3>>,
                 <<"audio", "sh", 1>>, <<"audio", "sh", 2>>, <<"audio", "badsh", 3>>,
                 <<"audio", "raw", 0>>, <<"video", "inter", 0>>,
                 <<"video", "other", 0>>, <<"video", "unknown", 0>>}
FrameInputs  == {<<"video", "key", 0>>, <<"video", "inter", 0>>,
                 <<"audio", "raw", 0>>}
JoinInputs   == FrameInputs \cup {<<"data", "meta", 1>>}
GopInputs    == {<<"video", "key", 0>>, <<"video", "inter", 0>>,
                 <<"audio", "raw", 0>>, <<"video", "sh", 1>>}
AtcInputs    == {<<"video", "key", 0>>, <<"video", "sh", 1>>, <<"audio", "raw", 0>>,
                 <<"data", "meta", 1>>, <<"data", "bravo", 2>>}

AtcHeaderInputs == HeaderInputs \cup {<<"video", "key", 0>>, <<"data", "meta", 1>>, <<"data", "bravo", 2>>}

BothCacheConfs == {TRUE, FALSE}
CacheOn        == {TRUE}

\* Everything but the history of what was handed over, which no action reads.
WithoutReceived == <<sourceVars, consumers, consumer, player, publisher,
                     sessions, sent, nframes>>

Players == Permutations(Consumer)
=============================================================================
