------------------------------ MODULE GopCache ------------------------------
(***************************************************************************)
(* The cache of the last group of pictures (SrsGopCache): what a player    *)
(* that joins gets to start from a keyframe at once.                       *)
(***************************************************************************)
EXTENDS SharedMessage

CONSTANT PureAudioGuess   \* SRS_PURE_AUDIO_GUESS_COUNT

ASSUME GopAssumption == PureAudioGuess \in Nat

GopType == [enabled : BOOLEAN, msgs : Seq(Message),
            cached_video_count : Nat, audio_after_last_video_count : Nat]

NewGop == [enabled |-> TRUE, msgs |-> <<>>,
           cached_video_count |-> 0, audio_after_last_video_count |-> 0]

\* Mutant: the counters survive.
GopClearMsgs(g) == [g EXCEPT !.msgs = <<>>]

GopClear(g) == [g EXCEPT !.msgs = <<>>,
                         !.cached_video_count = 0,
                         !.audio_after_last_video_count = 0]

\* Mutant: switching the cache off leaves it filled.
GopSetOnly(g, v) == [g EXCEPT !.enabled = v]

GopSet(g, v) == IF v THEN [g EXCEPT !.enabled = TRUE]
                ELSE GopClear([g EXCEPT !.enabled = FALSE])

\* The counters after the message, before it is decided whether to keep it.
GopCount(g, m) ==
    IF is_video(m)
    THEN [g EXCEPT !.cached_video_count = @ + 1,
                   !.audio_after_last_video_count = 0]
    ELSE IF is_audio(m) /\ g.cached_video_count > 0
         THEN [g EXCEPT !.audio_after_last_video_count = @ + 1]
         ELSE g

GopPush(g, m) == [g EXCEPT !.msgs = Append(@, m)]

GopCacheMsg(g, m) ==
    LET c == GopCount(g, m)
    IN  CASE ~g.enabled                -> g
          [] g.enabled /\ is_video(m) /\ ~h264(m) -> g
          [] g.enabled /\ (is_video(m) => h264(m)) ->
                IF c.cached_video_count = 0 THEN c
                ELSE IF c.audio_after_last_video_count > PureAudioGuess
                     THEN GopClear(c)
                ELSE IF keyframe(m)
                     THEN GopPush([GopClear(c) EXCEPT !.cached_video_count = 1], m)
                ELSE GopPush(c, m)

GopStartTime(g) == IF g.msgs = <<>> THEN 0 ELSE g.msgs[1].ts

-----------------------------------------------------------------------------
\* What a decoder can start from: the cache begins with a video frame, only
\* its first message may be a keyframe, it holds no sequence header, and its
\* counters agree with it: no video counted means an empty cache, and the
\* audio count is the length of the run of audio after the last video, which
\* never passes the pure-audio guess.
GopOk(g) ==
    LET n == Len(g.msgs)
        a == g.audio_after_last_video_count
    IN  /\ g.msgs = <<>> <=> g.cached_video_count = 0
        /\ \A i \in 1..n : /\ ~sh(g.msgs[i])
                           /\ is_video(g.msgs[i]) => h264(g.msgs[i])
                           /\ keyframe(g.msgs[i]) => i = 1
        /\ a <= PureAudioGuess
        /\ IF g.msgs = <<>> THEN a = 0
           ELSE /\ a < n
                /\ is_video(g.msgs[1]) /\ is_video(g.msgs[n - a])
                /\ \A i \in n - a + 1 .. n : is_audio(g.msgs[i])
        /\ g.enabled \/ g.msgs = <<>>
=============================================================================
