----------------------------- MODULE LiveSource -----------------------------
(***************************************************************************)
(* One live stream: the source (SrsSource), the publisher's thread that    *)
(* feeds it and the players' threads that create, drain and destroy        *)
(* consumers.                                                              *)
(*                                                                         *)
(* The server runs one system thread per connection and the source has no  *)
(* lock.  A handler is therefore several steps here: the publisher's       *)
(* handler is its entry, one step per consumer of the dispatch loop, and   *)
(* its tail; create_consumer is the push_back and one step per message     *)
(* that is copied to the new consumer.  A step on one container (vector,   *)
(* queue, cache) is taken to be atomic; FastVector looks below that.       *)
(*                                                                         *)
(* Spec lets the threads interleave freely, as the port does.  SerialSpec  *)
(* lets a handler run to its end once it has begun, which is what the      *)
(* coroutines the code was written for guaranteed.                         *)
(***************************************************************************)
EXTENDS MessageQueue, GopCache, MixQueue

CONSTANTS
    Publisher,      \* ids of the connections that may publish
    Consumer,       \* the players
    Jitter,         \* time_jitter of the vhost
    Atc, AtcAuto,   \* atc and atc_auto of the vhost
    MixCorrect,     \* mix_correct of the vhost
    ReduceSh,       \* reduce_sequence_header of the vhost
    GopCacheConf,   \* the values gop_cache of the vhost takes over time
    MwMsgs,         \* SRS_PERF_MW_MSGS: the most messages dumped at once
    Stamps,         \* bound: timestamps the publisher sends
    Inputs,         \* bound: <<type, kind, id>> of what the publisher sends
    MaxMsgs,        \* bound: messages sent in one behaviour
    MaxSessions     \* bound: publications in one behaviour

ASSUME SourceAssumption ==
    /\ Publisher \subseteq Nat \ {0}
    /\ Jitter \in JitterAlgorithm
    /\ Atc \in BOOLEAN /\ AtcAuto \in BOOLEAN /\ MixCorrect \in BOOLEAN
    /\ ReduceSh \in BOOLEAN
    /\ GopCacheConf \subseteq BOOLEAN
    /\ MwMsgs \in Nat \ {0}
    /\ Stamps \subseteq Nat
    /\ MaxMsgs \in Nat /\ MaxSessions \in Nat
    /\ \A x \in Inputs : [type |-> x[1], kind |-> x[2], id |-> x[3], ts |-> 0]
                             \in Message

VARIABLES
    can_publish,     \* _can_publish
    source_id,       \* _source_id
    pre_source_id,   \* _pre_source_id
    atc,             \* atc, as the last metadata left it
    mix_queue,
    gop_cache,
    meta,            \* the meta cache: metadata and the two sequence headers
    is_monotonically_increase,
    last_packet_time,
    consumers,       \* the vector of consumers
    consumer,        \* the consumer object of each player
    player,          \* where each player's thread is in create_consumer
    publisher,       \* where the publisher's thread is in its handler
    sessions,        \* history: publications so far
    sent,            \* history: messages sent by publishers
    nframes,         \* history: AVC frames sent, which number their payloads
    received         \* history: what each player was handed

idVars      == <<can_publish, source_id, pre_source_id>>
monoVars    == <<is_monotonically_increase, last_packet_time>>
sourceVars  == <<idVars, atc, mix_queue, gop_cache, meta, monoVars>>
historyVars == <<sessions, sent, nframes, received>>
vars == <<sourceVars, consumers, consumer, player, publisher, historyVars>>

-----------------------------------------------------------------------------
MetaType == [data  : Message \cup {NoMessage},
             video : Message \cup {NoMessage},
             audio : Message \cup {NoMessage}]

ConsumerType == [jitter : JitterType, queue : QueueType,
                 paused : BOOLEAN, should_update_source_id : BOOLEAN]

NewConsumer == [jitter |-> NewJitter, queue |-> NewQueue,
                paused |-> FALSE, should_update_source_id |-> FALSE]

PlayerStep == {"gone", "size", "meta", "audio", "video", "gop", "playing"}
PublisherStep == {"none", "ready", "dispatch", "tail", "failed"}

\* The type invariant: program counters, locals, caches and queues have their
\* types; no NULL header is ever enqueued.
TypeOK ==
    /\ can_publish \in BOOLEAN
    /\ source_id \in Publisher \cup {-1}
    /\ pre_source_id \in Publisher \cup {-1}
    /\ atc \in BOOLEAN
    /\ mix_queue \in Seq(Message)
    /\ gop_cache \in GopType
    /\ meta \in MetaType
    /\ is_monotonically_increase \in BOOLEAN
    /\ last_packet_time \in Int
    /\ consumers \in Seq(Consumer)
    /\ consumer \in [Consumer -> ConsumerType]
    /\ player \in [Consumer -> [pc : PlayerStep, next : Nat]]
    /\ publisher \in [pc : PublisherStep, msg : Message \cup {NoMessage},
                      next : Nat]
    /\ sessions \in Nat /\ sent \in Nat /\ nframes \in Nat
    /\ received \in [Consumer -> Seq(Message)]

Init ==
    /\ can_publish = TRUE
    /\ source_id = -1 /\ pre_source_id = -1
    /\ atc = Atc
    /\ mix_queue = <<>>
    /\ gop_cache = NewGop
    /\ meta = [data |-> NoMessage, video |-> NoMessage, audio |-> NoMessage]
    /\ is_monotonically_increase = FALSE
    /\ last_packet_time = 0
    /\ consumers = <<>>
    /\ consumer = [c \in Consumer |-> NewConsumer]
    /\ player = [c \in Consumer |-> [pc |-> "gone", next |-> 0]]
    /\ publisher = [pc |-> "none", msg |-> NoMessage, next |-> 0]
    /\ sessions = 0 /\ sent = 0 /\ nframes = 0
    /\ received = [c \in Consumer |-> <<>>]

-----------------------------------------------------------------------------
\* SrsConsumer::enqueue: correct the time of a private copy, then queue it.
Enqueued(k, m) ==
    [k EXCEPT
        !.jitter = IF atc THEN @ ELSE JitterAfter(@, m, Jitter),
        !.queue  = enqueue(@, IF atc THEN m
                              ELSE Corrected(k.jitter, m, Jitter))]

\* A timestamp written through a pointer of the meta cache that may be NULL.
Retimed(m, t) == IF m = NoMessage THEN m ELSE [m EXCEPT !.ts = t]

-----------------------------------------------------------------------------
(* The publisher's thread. *)

Ready    == [pc |-> "ready",  msg |-> NoMessage, next |-> 0]
Failed   == [pc |-> "failed", msg |-> NoMessage, next |-> 0]
Dispatch(m)     == [pc |-> "dispatch", msg |-> m, next |-> 1]
SkipDispatch(m) == [pc |-> "tail", msg |-> m, next |-> 1]

\* on_publish, on behalf of a connection that found the stream free.
on_publish(p) ==
    /\ publisher.pc = "none"
    /\ can_publish
    /\ sessions < MaxSessions /\ sessions' = sessions + 1
    /\ can_publish' = FALSE
    /\ source_id' = p
    /\ pre_source_id' = IF source_id = p THEN pre_source_id
                        ELSE IF pre_source_id = -1 THEN p
                        ELSE source_id
    /\ consumer' = [c \in Consumer |->
          IF source_id # p /\ c \in ToSet(consumers)
          THEN [consumer[c] EXCEPT !.should_update_source_id = TRUE]
          ELSE consumer[c]]
    /\ mix_queue' = <<>>
    /\ is_monotonically_increase' = TRUE
    /\ last_packet_time' = 0
    /\ publisher' = Ready
    /\ UNCHANGED <<atc, gop_cache, meta, consumers, player, sent, nframes,
                   received>>

\* What follows the dispatch loop of on_audio_imp and on_video_imp.  The audio
\* header is cached here, after the dispatch; the video header was cached
\* before it.
MetaAfterDispatch(m) ==
    LET ash == IF is_audio(m) /\ (sh(m) \/ meta.audio = NoMessage)
               THEN m ELSE meta.audio
        retime == atc /\ ~sh(m)
    IN  [data  |-> IF retime THEN Retimed(meta.data, m.ts) ELSE meta.data,
         video |-> IF retime /\ is_video(m) THEN Retimed(meta.video, m.ts)
                   ELSE meta.video,
         audio |-> IF retime /\ is_audio(m) THEN Retimed(ash, m.ts) ELSE ash]

\* Mutant: any header after the first is taken for a duplicate.
DuplicateAny(m) ==
    /\ ReduceSh /\ sh(m)
    /\ (IF is_video(m) THEN meta.video ELSE meta.audio) # NoMessage

\* The entry of on_audio_imp / on_video_imp for message m: decide whether the
\* header is a duplicate, cache a video header, begin the dispatch.  A
\* duplicate skips the loop.
Duplicate(m) ==
    /\ ReduceSh /\ sh(m)
    /\ SamePayload(m, IF is_video(m) THEN meta.video ELSE meta.audio)

BeginImp(m) ==
    /\ meta' = IF is_video(m) /\ sh(m) THEN [meta EXCEPT !.video = m] ELSE meta
    /\ publisher' = IF is_video(m) /\ m.kind = "badsh" THEN Failed
                    ELSE IF Duplicate(m) THEN SkipDispatch(m)
                    ELSE Dispatch(m)

\* on_audio and on_video up to the dispatch loop.
on_av(m) ==
    /\ publisher.pc = "ready"
    /\ is_av(m)
    /\ is_monotonically_increase' =
          (is_monotonically_increase /\
             (MixCorrect \/ last_packet_time <= 0 \/ m.ts >= last_packet_time))
    /\ last_packet_time' = m.ts
    /\ IF is_video(m) /\ ~acceptable(m)
       THEN UNCHANGED <<mix_queue, meta, publisher>>
       ELSE IF ~MixCorrect
       THEN BeginImp(m) /\ UNCHANGED mix_queue
       ELSE LET q == MixPush(mix_queue, m)
            IN  /\ mix_queue' = MixAfterPop(q)
                /\ IF MixPopped(q) = NoMessage
                   THEN UNCHANGED <<meta, publisher>>
                   ELSE BeginImp(MixPopped(q))
    /\ UNCHANGED <<idVars, atc, gop_cache, consumers, consumer, player,
                   received>>

\* on_meta_data up to the dispatch loop.  The cache was just filled, so with
\* reduce_sequence_header the metadata goes to no consumer.
on_meta_data(m) ==
    /\ publisher.pc = "ready"
    /\ m.type = "data"
    /\ atc' = (Atc \/ (AtcAuto /\ m.kind = "bravo"))
    /\ meta' = [meta EXCEPT !.data = m]
    /\ publisher' = IF ReduceSh THEN Ready ELSE Dispatch(m)
    /\ UNCHANGED <<idVars, mix_queue, gop_cache, monoVars, consumers,
                   consumer, player, received>>

\* A message of the publisher arrives.
Receive ==
    /\ sent < MaxMsgs
    /\ sent' = sent + 1
    /\ UNCHANGED sessions
    /\ \E x \in Inputs, t \in Stamps :
         LET frame == x[1] = "video" /\ x[2] \in {"key", "inter"}
             m == [type |-> x[1], kind |-> x[2], ts |-> t,
                   id |-> IF frame THEN nframes + 1 ELSE x[3]]
         IN  /\ nframes' = IF frame THEN nframes + 1 ELSE nframes
             /\ on_av(m) \/ on_meta_data(m)

\* One turn of the dispatch loop.  Metadata is read from the cache each turn.
DispatchOne ==
    /\ publisher.pc = "dispatch"
    /\ publisher.next <= Len(consumers)
    /\ LET c == consumers[publisher.next]
           m == IF is_av(publisher.msg) THEN publisher.msg ELSE meta.data
       IN  consumer' = [consumer EXCEPT ![c] = Enqueued(@, m)]
    /\ publisher' = [publisher EXCEPT !.next = @ + 1]
    /\ UNCHANGED <<sourceVars, consumers, player, historyVars>>

\* The loop ends; the tail of the handler.
DispatchEnd ==
    /\ \/ publisher.pc = "dispatch" /\ publisher.next > Len(consumers)
       \/ publisher.pc = "tail"
    /\ LET m == publisher.msg
       IN  /\ meta' = IF is_av(m) THEN MetaAfterDispatch(m) ELSE meta
           /\ gop_cache' = IF is_av(m) /\ ~sh(m) THEN GopCacheMsg(gop_cache, m)
                           ELSE gop_cache
           /\ publisher' = IF m.kind = "badsh" THEN Failed ELSE Ready
    /\ UNCHANGED <<idVars, atc, mix_queue, monoVars, consumers, consumer,
                   player, historyVars>>

\* on_unpublish: the metadata and the sequence headers stay cached.
on_unpublish ==
    /\ publisher.pc \in {"ready", "failed"}
    /\ ~can_publish
    /\ gop_cache' = GopClear(gop_cache)
    /\ can_publish' = TRUE
    /\ source_id' = -1
    /\ publisher' = [publisher EXCEPT !.pc = "none"]
    /\ UNCHANGED <<pre_source_id, atc, mix_queue, meta, monoVars, consumers,
                   consumer, player, historyVars>>

-----------------------------------------------------------------------------
(* The players' threads. *)

At(c, pc) == player[c].pc = pc
Goto(c, pc) == player' = [player EXCEPT ![c] = [pc |-> pc, next |-> 1]]

\* create_consumer: the consumer is in the vector before its queue is given its
\* length and before anything is copied.
create_consumer(c) ==
    /\ At(c, "gone")
    /\ consumers' = Append(consumers, c)
    /\ consumer' = [consumer EXCEPT ![c] = NewConsumer]
    /\ Goto(c, "size")
    /\ UNCHANGED <<sourceVars, publisher, historyVars>>

set_queue_size(c) ==
    /\ At(c, "size")
    /\ consumer' = [consumer EXCEPT ![c].queue.queue_size_ms = QueueMs]
    /\ Goto(c, "meta")
    /\ UNCHANGED <<sourceVars, consumers, publisher, historyVars>>

\* With atc the cached messages take the time of the gop; then metadata.
DumpMeta(c) ==
    /\ At(c, "meta")
    /\ meta' = IF atc /\ gop_cache.msgs # <<>>
               THEN LET t == GopStartTime(gop_cache)
                    IN [data  |-> Retimed(meta.data, t),
                        video |-> Retimed(meta.video, t),
                        audio |-> Retimed(meta.audio, t)]
               ELSE meta
    /\ consumer' = IF meta.data = NoMessage THEN consumer
                   ELSE [consumer EXCEPT ![c] = Enqueued(@, meta'.data)]
    /\ Goto(c, "audio")
    /\ UNCHANGED <<idVars, atc, mix_queue, gop_cache, monoVars, consumers,
                   publisher, historyVars>>

\* Mutant: the pointer is not tested.
DumpHeaderUntested(c, from, to, m) ==
    /\ At(c, from)
    /\ consumer' = [consumer EXCEPT ![c] = Enqueued(@, m)]
    /\ Goto(c, to)
    /\ UNCHANGED <<sourceVars, consumers, publisher, historyVars>>

\* The audio header, then the video header.
DumpHeader(c, from, to, m) ==
    /\ At(c, from)
    /\ consumer' = IF m = NoMessage THEN consumer
                   ELSE [consumer EXCEPT ![c] = Enqueued(@, m)]
    /\ Goto(c, to)
    /\ UNCHANGED <<sourceVars, consumers, publisher, historyVars>>

DumpAsh(c) == DumpHeader(c, "audio", "video", meta.audio)
DumpVsh(c) == DumpHeader(c, "video", "gop", meta.video)

\* One turn of the loop over the cached gop, and its end.
DumpGop(c) ==
    /\ At(c, "gop")
    /\ IF player[c].next <= Len(gop_cache.msgs)
       THEN /\ consumer' = [consumer EXCEPT
                   ![c] = Enqueued(@, gop_cache.msgs[player[c].next])]
            /\ player' = [player EXCEPT ![c].next = @ + 1]
       ELSE /\ Goto(c, "playing")
            /\ UNCHANGED consumer
    /\ UNCHANGED <<sourceVars, consumers, publisher, historyVars>>

\* SrsConsumer::dump_packets; max is the caller's count, or the array's size.
dump_packets(c, max) ==
    /\ At(c, "playing")
    /\ consumer' = [consumer EXCEPT
           ![c].should_update_source_id = FALSE,
           ![c].queue = IF consumer[c].paused THEN @ ELSE AfterDump(@, max)]
    /\ received' = IF consumer[c].paused THEN received
                   ELSE [received EXCEPT
                           ![c] = @ \o Dumped(consumer[c].queue, max)]
    /\ UNCHANGED <<sourceVars, consumers, player, publisher, sessions, sent,
                   nframes>>

on_play_client_pause(c, is_pause) ==
    /\ At(c, "playing")
    /\ consumer' = [consumer EXCEPT ![c].paused = is_pause]
    /\ UNCHANGED <<sourceVars, consumers, player, publisher, historyVars>>

\* The destructor: out of the vector, the queue freed.
on_consumer_destroy(c) ==
    /\ At(c, "playing")
    /\ consumers' = RemoveFirst(consumers, c)
    /\ consumer' = [consumer EXCEPT ![c] = NewConsumer]
    /\ Goto(c, "gone")
    /\ received' = [received EXCEPT ![c] = <<>>]
    /\ UNCHANGED <<sourceVars, publisher, sessions, sent, nframes>>

\* Every connection that starts to play or publish sets the gop cache.
set_cache(v) ==
    /\ gop_cache' = GopSet(gop_cache, v)
    /\ UNCHANGED <<idVars, atc, mix_queue, meta, monoVars, consumers,
                   consumer, player, publisher, historyVars>>

-----------------------------------------------------------------------------
PublisherNext ==
    \/ \E p \in Publisher : on_publish(p)
    \/ Receive
    \/ DispatchOne
    \/ DispatchEnd
    \/ on_unpublish

PlayerNext(c) ==
    \/ create_consumer(c) \/ set_queue_size(c)
    \/ DumpMeta(c) \/ DumpAsh(c) \/ DumpVsh(c) \/ DumpGop(c)
    \/ \E max \in 1..MwMsgs : dump_packets(c, max)
    \/ \E b \in BOOLEAN : on_play_client_pause(c, b)
    \/ on_consumer_destroy(c)

Next ==
    \/ PublisherNext
    \/ \E c \in Consumer : PlayerNext(c)
    \/ \E v \in GopCacheConf : set_cache(v)

Spec == Init /\ [][Next]_vars

\* Handlers that have begun and not ended.
Publishing  == publisher.pc \in {"dispatch", "tail"}
Creating(c) == ~At(c, "gone") /\ ~At(c, "playing")
Quiet       == ~Publishing /\ \A c \in Consumer : ~Creating(c)

\* No step of another thread while a handler is under way.
SerialNext ==
    \/ PublisherNext /\ \A c \in Consumer : ~Creating(c)
    \/ \E c \in Consumer :
          /\ ~Publishing /\ \A d \in Consumer \ {c} : ~Creating(d)
          /\ PlayerNext(c)
    \/ Quiet /\ \E v \in GopCacheConf : set_cache(v)

SerialSpec == Init /\ [][SerialNext]_vars

-----------------------------------------------------------------------------
(* Properties. *)

\* Everything a player was handed, then what waits for it.
Stream(c) == received[c] \o consumer[c].queue.msgs

IsFrame(m) == is_video(m) /\ m.kind \in {"key", "inter"}
Frames(c)  == SelectSeq(Stream(c), IsFrame)
AvOf(c)    == SelectSeq(Stream(c), is_av)

\* Whatever the threads interleave, the cached gop is what a decoder can start
\* from (GopOk).
GopShape == GopOk(gop_cache)

\* The mix queue never holds back MixPureAv messages, whatever the mix of
\* audio and video: each message pushed beyond that frees one.
MixQueueBounded == Len(mix_queue) < MixPureAv

\* With mix_correct, no message is dispatched while an earlier one still waits
\* in the mix queue, in whatever order and with whatever ties they arrived.
MixedInOrder ==
    MixCorrect /\ Publishing /\ is_av(publisher.msg) =>
        \A i \in DOMAIN mix_queue : publisher.msg.ts <= mix_queue[i].ts

\* Between handlers, every player holds the sequence headers the source
\* holds: the last header of each medium in its stream has the payload of the
\* cached one, even when duplicates were dropped for reduce_sequence_header
\* and the queue was shrunk in between.
LastHeaderIs(c, h) ==
    LET i == SelectLastInSeq(Stream(c), LAMBDA m : sh(m) /\ m.type = h.type)
    IN  i # 0 /\ SamePayload(Stream(c)[i], h)

HeadersKnown ==
    Quiet => \A c \in Consumer : At(c, "playing") =>
                /\ meta.video.kind = "sh" => LastHeaderIs(c, meta.video)
                /\ meta.audio.kind = "sh" => LastHeaderIs(c, meta.audio)

\* Between handlers, the AVC frames a player got are consecutive and reach the
\* last one published: joining from the gop cache and switching to the live
\* dispatch neither skips nor repeats a frame.  (Read with a queue too long to
\* overflow.)
GaplessVideo ==
    Quiet => \A c \in Consumer :
                LET f == Frames(c)
                IN  /\ \A i \in 1..Len(f) - 1 : f[i + 1].id = f[i].id + 1
                    /\ f # <<>> => f[Len(f)].id = nframes

\* As long as the source itself judges the publisher's times monotonic, the
\* frames a player gets during the first publication carry times that never
\* go back: "enqueue the message, the timestamp always monotonically".
VideoTimeMonotone ==
    is_monotonically_increase /\ sessions = 1 =>
        \A c \in Consumer :
            \A i, j \in DOMAIN Frames(c) :
                i < j => Frames(c)[i].ts <= Frames(c)[j].ts

Span(ms) ==
    LET ts == {ms[i].ts : i \in {k \in DOMAIN ms : is_av(ms[k])}}
    IN  IF ts = {} THEN 0 ELSE Max(ts) - Min(ts)

\* From set_queue_size to its destruction.
Sized(c) == player[c].pc \notin {"gone", "size"}

\* A queue that has its length is only shrunk when what it holds, and the packet
\* before, cover about the configured duration: one jitter step is granted.
\* Said of streams without atc and metadata: nothing bounds the steps of
\* absolute times, and AfterDump may take the time of a metadata as the start of
\* what is left.  A frame that is dispatched while the queue is not Sized, which
\* only the free interleaving allows, shrinks it against 0.
ShrinkOnlyWhenFull ==
    publisher.pc = "dispatch" /\ publisher.next <= Len(consumers) =>
        LET c == consumers[publisher.next]
            k == consumer[c]
            m == Corrected(k.jitter, publisher.msg, Jitter)
        IN  Sized(c) /\ ~atc /\ meta.data = NoMessage /\ Overflows(k.queue, m) =>
                Span(Append(k.queue.msgs, m)) + MaxJitterMs > QueueMs

\* With the FULL algorithm, consecutive packets of a stream are never further
\* apart than one tolerated step.  (Read with a queue too long to overflow.)
JitterSmooth ==
    \A c \in Consumer :
        LET s == AvOf(c)
            step == srs_max(MaxJitterMs, FrameMs)
        IN  \A i \in 1..Len(s) - 1 : /\ s[i + 1].ts - s[i].ts <= step
                                     /\ s[i].ts - s[i + 1].ts <= step

\* With atc, what a player that joins is sent ahead of the cached gop carries
\* the time of that gop, so its clock starts where the gop starts.
AtcHeadersAtGop ==
    \A c \in Consumer :
        At(c, "gop") /\ player[c].next = 1 /\ atc /\ gop_cache.msgs # <<>> =>
            \A i \in DOMAIN Stream(c) : Stream(c)[i].ts = GopStartTime(gop_cache)

\* What a player needs to decode the stream is there, and in time: the headers
\* that the source caches, at the time of the gop under atc.
HeadersInTime == HeadersKnown /\ AtcHeadersAtGop

\* The video a player gets has no gap, no repetition and no step back in time.
VideoJoined == GaplessVideo /\ VideoTimeMonotone

\* With mix_correct, audio and video are merged by time, and a stream of one
\* medium is not held back for the other.
MixOrderly == MixedInOrder /\ MixQueueBounded
=============================================================================
