-------------------------- MODULE RtmpSessionProofs -------------------------
(***************************************************************************)
(* Theorems of RtmpSession, for any number of connections, streams and     *)
(* clients of every kind.                                                  *)
(*                                                                         *)
(* A connection asks the pool for a stream that there is.  The proof       *)
(* follows the names of streams from the scripts of the clients through    *)
(* the channels to the server.                                             *)
(*                                                                         *)
(* Every answer is to a request that the client remembers.  The proof      *)
(* follows the transaction ids, from the scripts through the channels to   *)
(* the server and back.                                                    *)
(*                                                                         *)
(* What the handshake writes is read back: the last section follows a key  *)
(* and a digest through the blocks of c1 and s1, for every offset and      *)
(* every size.                                                             *)
(***************************************************************************)
EXTENDS RtmpSession, SequenceTheorems, TLAPS

-----------------------------------------------------------------------------
(* The pool                                                                *)

PoolNext == \E c \in Conn : fetch_or_create(c) \/ \E u \in Url : request(c, u)

\* A connection in fetch_or_create asks for a stream, and who is served has
\* some source.
PoolSound ==
    /\ PoolTypeOK
    /\ \A c \in Conn : thread[c] # "idle" => url[c] \in Url
    /\ \A c \in Conn : thread[c] = "serve" => source[c] # None

LEMMA PoolInitSound == PoolInit => PoolSound
  BY DEF PoolInit, PoolSound, PoolTypeOK

LEMMA PoolNextSound ==
  ASSUME PoolSound, [PoolNext]_poolVars
  PROVE  PoolSound'
  <1> USE PoolAssumption DEF PoolSound, PoolTypeOK, Goto
  <1>1. CASE UNCHANGED poolVars
    BY <1>1 DEF poolVars
  <1>2. ASSUME NEW c \in Conn, NEW u \in Url, request(c, u) PROVE PoolSound'
    BY <1>2 DEF request
  <1>3. ASSUME NEW c \in Conn, fetch_or_create(c) PROVE PoolSound'
    <2>1. CASE fetch(c)
      BY <1>3, <2>1 DEF fetch_or_create, fetch
    <2>2. CASE assert_absent(c)
      BY <1>3, <2>2 DEF fetch_or_create, assert_absent
    <2>3. CASE insert(c)
      BY <1>3, <2>3 DEF fetch_or_create, insert
    <2> QED
      BY <1>3, <2>1, <2>2, <2>3 DEF fetch_or_create
  <1> QED
    BY <1>1, <1>2, <1>3 DEF PoolNext

-----------------------------------------------------------------------------
(* The names of streams                                                    *)

\* A call that the server takes the name of a stream from names a stream, or
\* none.
Named(m) == m.name \in FMLEStart \cup {"play", "publish"} => m.arg \in Url \cup {None}

\* A sequence of such messages, of whatever else they are made of.
AllNamed(ms) == \E S : ms \in Seq(S) /\ \A m \in S : Named(m)

\* The call that a client of each kind makes under a transaction id.
NameOf(kind, tid) ==
    CASE tid = 1 -> "connect"
      [] tid = 2 /\ kind = "fmle" -> "releaseStream"
      [] tid = 3 /\ kind = "fmle" -> "FCPublish"
      [] tid = 5 /\ kind = "fmle" -> "FCUnpublish"
      [] tid = 2 /\ kind = "haivision" -> "_checkbw"
      [] tid = 4 /\ kind = "haivision" -> "FCPublish"
      [] tid = 9 -> "getLength"
      [] OTHER -> "createStream"

\* What the server answers with the transaction id of the call.
Answered == FMLEStart \cup {"connect", "createStream", "_checkbw", "getLength"}

\* A call has an id when it is answered, and an id is used for one call only.
Numbered(kind, m) ==
    /\ m.tid # 0 => m.name = NameOf(kind, m.tid)
    /\ m.name \in Answered => m.tid # 0
    /\ m.name = "connect" => m.tid = 1

\* The steps of a script name streams and number calls.
Asks(kind, ops) ==
    \E S : ops \in Seq(S) /\ \A op \in S : Named(op.what) /\ Numbered(kind, op.what)

LEMMA AppendNamed ==
  ASSUME NEW ms, AllNamed(ms), NEW m, Named(m)
  PROVE  AllNamed(Append(ms, m))
  <1>1. PICK S : ms \in Seq(S) /\ \A x \in S : Named(x)
    BY DEF AllNamed
  <1>2. Append(ms, m) \in Seq(S \cup {m})
    BY <1>1
  <1>3. \A x \in S \cup {m} : Named(x)
    BY <1>1
  <1> QED
    BY <1>2, <1>3 DEF AllNamed

LEMMA TakeNamed ==
  ASSUME NEW ms, AllNamed(ms), ms # <<>>
  PROVE  Named(Head(ms)) /\ AllNamed(Tail(ms))
  <1>1. PICK S : ms \in Seq(S) /\ \A x \in S : Named(x)
    BY DEF AllNamed
  <1>2. Head(ms) \in S /\ Tail(ms) \in Seq(S)
    BY <1>1, HeadTailProperties, Zenon
  <1> QED
    BY <1>1, <1>2 DEF AllNamed

LEMMA ConcatAsks ==
  ASSUME NEW kind, NEW a, NEW b, Asks(kind, a), Asks(kind, b)
  PROVE  Asks(kind, a \o b)
  <1> DEFINE Fits(op) == Named(op.what) /\ Numbered(kind, op.what)
  <1>1. PICK S : a \in Seq(S) /\ \A x \in S : Fits(x)
    BY DEF Asks
  <1>2. PICK T : b \in Seq(T) /\ \A x \in T : Fits(x)
    BY DEF Asks
  <1>3. a \o b \in Seq(S \cup T)
    BY <1>1, <1>2
  <1>4. \A x \in S \cup T : Fits(x)
    BY <1>1, <1>2
  <1> QED
    BY <1>3, <1>4 DEF Asks

\* One to three steps.
LEMMA StepsAsk ==
  ASSUME NEW kind, NEW x, NEW y, NEW z,
         \A o \in {x, y, z} : Named(o.what) /\ Numbered(kind, o.what)
  PROVE  Asks(kind, <<x>>) /\ Asks(kind, <<x, y>>) /\ Asks(kind, <<x, y, z>>)
  <1>1. <<x>> \in Seq({x, y, z}) /\ <<x, y>> \in Seq({x, y, z}) /\ <<x, y, z>> \in Seq({x, y, z})
    OBVIOUS
  <1>2. ASSUME NEW ops \in Seq({x, y, z}) PROVE Asks(kind, ops)
    <2>1. \E S : ops \in Seq(S) /\ \A op \in S : Named(op.what) /\ Numbered(kind, op.what)
      <3> WITNESS {x, y, z}
      <3> QED
        OBVIOUS
    <2> QED
      BY <2>1 DEF Asks
  <1> QED
    BY <1>1, <1>2

\* Sending a message that names a stream, or does not name any, and expecting
\* one.
LEMMA OneStep ==
  /\ \A n, t, u : (n \in FMLEStart \cup {"play", "publish"} => u \in Url \cup {None})
        => Named(Send(Msg(n, t, u)).what)
  /\ \A w : w \notin FMLEStart \cup {"play", "publish"} => Named(Expect(w).what)
  /\ Named(Send(Control).what) /\ Named(Send(Media).what)
  BY DEF Named, Send, Expect, Msg, Control, Media, FMLEStart

\* A call with its id, and what is not answered.
LEMMA OneCall ==
  /\ \A kind, n, t, u : t # 0 /\ n = NameOf(kind, t) /\ (n = "connect" => t = 1)
        => Numbered(kind, Send(Msg(n, t, u)).what)
  /\ \A kind, n, u : n \notin Answered => Numbered(kind, Send(Msg(n, 0, u)).what)
  /\ \A kind, w : w \notin Answered => Numbered(kind, Expect(w).what)
  /\ \A kind : Numbered(kind, Send(Control).what) /\ Numbered(kind, Send(Media).what)
  BY DEF Numbered, Send, Expect, Msg, Control, Media, Answered, FMLEStart

LEMMA ScriptAsks ==
  ASSUME NEW kind \in ClientKind, NEW u \in Url
  PROVE  Asks(kind, ScriptOf(kind, u))
  <1> DEFINE Fits(o) == Named(o.what) /\ Numbered(kind, o.what)
  <1>1. /\ \A x : Fits(x) => Asks(kind, <<x>>)
        /\ \A x, y : Fits(x) /\ Fits(y) => Asks(kind, <<x, y>>)
        /\ \A x, y, z : Fits(x) /\ Fits(y) /\ Fits(z) => Asks(kind, <<x, y, z>>)
    <2>1. \A x, y, z : Fits(x) /\ Fits(y) /\ Fits(z)
             => Asks(kind, <<x>>) /\ Asks(kind, <<x, y>>) /\ Asks(kind, <<x, y, z>>)
      BY StepsAsk
    <2> HIDE DEF Fits
    <2> QED
      BY <2>1
  <1>2. /\ \A n, t, v : /\ t # 0 /\ n = NameOf(kind, t) /\ (n = "connect" => t = 1)
                        /\ (n \in FMLEStart \cup {"play", "publish"} => v \in Url \cup {None})
                        => Fits(Send(Msg(n, t, v)))
        /\ \A n, v : /\ n \notin Answered
                     /\ (n \in {"play", "publish"} => v \in Url \cup {None})
                     => Fits(Send(Msg(n, 0, v)))
        /\ \A w : w \notin Answered \cup {"play", "publish"} => Fits(Expect(w))
        /\ Fits(Send(Control)) /\ Fits(Send(Media))
    BY OneStep, OneCall DEF Answered
  <1> HIDE DEF Fits
  <1>3. \A app : Asks(kind, connect_app(app))
    <2>1. NameOf(kind, 1) = "connect"
      BY DEF NameOf
    <2>2. \A app : Fits(Send(Msg("connect", 1, app))) /\ Fits(Expect("ConnectAppRes"))
      BY <1>2, <2>1 DEF FMLEStart, Answered
    <2> QED
      BY <1>1, <1>2, <2>2 DEF connect_app
  <1>4. ASSUME NEW tid, tid # 0, NameOf(kind, tid) = "createStream"
        PROVE  Asks(kind, create_stream(tid))
    BY <1>1, <1>2, <1>4 DEF create_stream, FMLEStart, Answered
  <1>5. \A v \in Url \cup {None} : Asks(kind, play(v))
    BY <1>1, <1>2 DEF play, FMLEStart, Answered
  <1>6. Asks(kind, publish(u))
    BY <1>1, <1>2 DEF publish, FMLEStart, Answered
  <1>7. kind = "fmle" => Asks(kind, fmle_publish(u))
    <2> SUFFICES ASSUME kind = "fmle" PROVE Asks(kind, fmle_publish(u))
      OBVIOUS
    <2>1. /\ NameOf(kind, 2) = "releaseStream" /\ NameOf(kind, 3) = "FCPublish"
          /\ NameOf(kind, 4) = "createStream"
      BY DEF NameOf
    <2>2. Asks(kind, <<Send(Msg("releaseStream", 2, u)), Send(Msg("FCPublish", 3, u))>>)
      <3>1. Fits(Send(Msg("releaseStream", 2, u))) /\ Fits(Send(Msg("FCPublish", 3, u)))
        BY <1>2, <2>1 DEF FMLEStart
      <3> QED
        BY <1>1, <3>1
    <2>3. Asks(kind, <<Send(Msg("publish", 0, u))>>)
      BY <1>1, <1>2 DEF FMLEStart, Answered
    <2>4. Asks(kind, create_stream(4))
      BY <1>4, <2>1
    <2> QED
      BY <2>2, <2>3, <2>4, ConcatAsks DEF fmle_publish
  <1>8. kind = "haivision" => Asks(kind, haivision_publish(u))
    <2> SUFFICES ASSUME kind = "haivision" PROVE Asks(kind, haivision_publish(u))
      OBVIOUS
    <2>1. /\ NameOf(kind, 2) = "_checkbw" /\ NameOf(kind, 4) = "FCPublish"
          /\ NameOf(kind, 3) = "createStream"
      BY DEF NameOf
    <2>2. Asks(kind, <<Send(Msg("_checkbw", 2, None))>>)
      BY <1>1, <1>2, <2>1 DEF FMLEStart
    <2>3. Asks(kind, <<Send(Msg("FCPublish", 4, u)), Send(Msg("publish", 0, u))>>)
      <3>1. Fits(Send(Msg("FCPublish", 4, u))) /\ Fits(Send(Msg("publish", 0, u)))
        BY <1>2, <2>1 DEF FMLEStart, Answered
      <3> QED
        BY <1>1, <3>1
    <2>4. Asks(kind, create_stream(3))
      BY <1>4, <2>1
    <2> QED
      BY <2>2, <2>3, <2>4, ConcatAsks DEF haivision_publish
  <1>9. Asks(kind, Started) /\ Asks(kind, EndPlay)
    <2>1. NameOf(kind, 9) = "getLength"
      BY DEF NameOf
    <2>2. /\ Fits(Expect("Start")) /\ Fits(Send(Msg("pause", 0, None)))
          /\ Fits(Send(Msg("getLength", 9, None))) /\ Fits(Send(Msg("closeStream", 0, None)))
      BY <1>2, <2>1 DEF FMLEStart, Answered
    <2> QED
      BY <1>1, <2>2 DEF Started, EndPlay
  <1>10. /\ Asks(kind, <<Send(Media), Send(Msg("closeStream", 0, None))>>)
         /\ kind = "fmle" => Asks(kind, <<Send(Media), Send(Msg("FCUnpublish", 5, u))>>)
         /\ Asks(kind, <<Send(Media)>>)
    <2>1. kind = "fmle" => NameOf(kind, 5) = "FCUnpublish"
      BY DEF NameOf
    <2>2. /\ Fits(Send(Msg("closeStream", 0, None))) /\ Fits(Send(Media))
          /\ kind = "fmle" => Fits(Send(Msg("FCUnpublish", 5, u)))
      BY <1>2, <2>1 DEF FMLEStart, Answered
    <2> QED
      BY <1>1, <2>2
  <1>11. kind \in {"play", "flash"} => Asks(kind, create_stream(2))
    BY <1>4 DEF NameOf
  <1> QED
    BY <1>3, <1>5, <1>6, <1>7, <1>8, <1>9, <1>10, <1>11, ConcatAsks DEF ScriptOf, ClientKind

-----------------------------------------------------------------------------
(* The session                                                             *)

\* A client stays what it is; what it remembers may be anything.
ClientState == {"c0c1", "s0s1s2", "run", "failed", "refused", "left"}
ClientType(A, B) == [kind : ClientKind, url : Url, schema : A, state : ClientState, pos : Nat \ {0}, requests : B]
ClientSound == \E A, B : client \in [Conn -> ClientType(A, B)]

ChannelSound ==
    /\ c2s = [c \in Conn |-> c2s[c]]
    /\ \A c \in Conn : AllNamed(c2s[c])

IInv == PoolSound /\ ClientSound /\ ChannelSound

LEMMA InitSound == Init => IInv
  <1> SUFFICES ASSUME Init PROVE IInv
    OBVIOUS
  <1>1. PoolSound
    BY PoolInitSound DEF Init
  <1>2. ChannelSound
    <2>1. Named(Control)
      BY DEF Named, Control, Msg, FMLEStart
    <2>2. <<>> \in Seq({Control}) /\ \A m \in {Control} : Named(m)
      BY <2>1
    <2>3. \A ms \in Seq({Control}) : AllNamed(ms)
      BY <2>2 DEF AllNamed
    <2>4. AllNamed(<<>>)
      BY <2>2, <2>3
    <2> QED
      BY <2>4 DEF Init, ChannelSound
  <1>3. ClientSound
    <2>1. PICK kinds \in Kinds, urls \in [Conn -> Url] :
            client = [c \in Conn |-> [kind |-> kinds[c], url |-> urls[c], schema |-> Simple,
                                      state |-> "c0c1", pos |-> 1, requests |-> <<>>]]
      BY DEF Init
    <2>2. kinds \in [Conn -> ClientKind]
      BY SessionAssumption
    <2>3. client \in [Conn -> ClientType({Simple}, {<<>>})]
      BY <2>1, <2>2 DEF ClientType, ClientState
    <2> QED
      BY <2>3 DEF ClientSound
  <1> QED
    BY <1>1, <1>2, <1>3 DEF IInv

\* The next step of a client.
LEMMA OpAsks ==
  ASSUME ClientSound, NEW c \in Conn
  PROVE  Named(Op(c).what) /\ Numbered(client[c].kind, Op(c).what)
  <1> DEFINE kind == client[c].kind
             s == Script(c)
  <1>1. Asks(kind, s) /\ client[c].pos \in Nat \ {0}
    BY ScriptAsks DEF Script, Client, ClientSound, ClientType
  <1>2. CASE AtEnd(c)
    BY <1>2 DEF Op, Named, Numbered, Control, Msg, FMLEStart, Answered
  <1>3. CASE ~AtEnd(c)
    <2> HIDE DEF kind, s
    <2>1. PICK S : s \in Seq(S) /\ \A op \in S : Named(op.what) /\ Numbered(kind, op.what)
      BY <1>1 DEF Asks
    <2>2. client[c].pos \in 1..Len(s)
      BY <1>1, <1>3, <2>1 DEF AtEnd, Client, s
    <2>3. s[client[c].pos] \in S
      BY <2>1, <2>2
    <2> QED
      BY <1>3, <2>1, <2>3 DEF Op, Client, kind, s
  <1> QED
    BY <1>2, <1>3

\* The steps of a client ask for streams that there are.
LEMMA ClientStep ==
  ASSUME IInv, NEW c \in Conn, ClientNext(c) \/ ClientLeave(c)
  PROVE  UNCHANGED poolVars /\ ClientSound' /\ ChannelSound'
  <1> USE DEF IInv, ChannelSound, Client
  <1>1. PICK A, B : client \in [Conn -> ClientType(A, B)]
    BY DEF ClientSound
  <1>2. ASSUME NEW r, NEW A1, NEW B1, A \subseteq A1, B \subseteq B1, r \in ClientType(A1, B1),
               client' = [client EXCEPT ![c] = r]
        PROVE  ClientSound'
    <2>1. ClientType(A, B) \subseteq ClientType(A1, B1)
      BY <1>2 DEF ClientType, ClientState
    <2>2. client' \in [Conn -> ClientType(A1, B1)]
      BY <1>1, <1>2, <2>1
    <2> QED
      BY <2>2 DEF ClientSound
  <1>3. CASE ClientC0C1(c)
    <2>1. \A b : Named(Bytes("c0c1", b))
      BY DEF Named, Bytes, FMLEStart
    <2>2. ClientSound'
      <3>1. PICK schema : client' = [client EXCEPT ![c].state = "s0s1s2", ![c].schema = schema]
        BY <1>3 DEF ClientC0C1
      <3> DEFINE r == [client[c] EXCEPT !.state = "s0s1s2", !.schema = schema]
      <3>2. r \in ClientType(A \cup {schema}, B)
        BY <1>1 DEF ClientType, ClientState
      <3>3. client' = [client EXCEPT ![c] = r]
        BY <1>1, <3>1
      <3> QED
        BY <1>2, <3>2, <3>3
    <2>3. ChannelSound'
      <3>1. PICK b : c2s' = [c2s EXCEPT ![c] = Append(@, Bytes("c0c1", b))]
        BY <1>3 DEF ClientC0C1
      <3>2. AllNamed(Append(c2s[c], Bytes("c0c1", b)))
        BY <2>1, AppendNamed
      <3> QED
        BY <3>1, <3>2
    <2> QED
      BY <1>3, <2>2, <2>3 DEF ClientC0C1
  <1>4. CASE ClientC2(c)
    <2>1. \A b : Named(Bytes("c2", b))
      BY DEF Named, Bytes, FMLEStart
    <2>2. ClientSound'
      <3> DEFINE r == [client[c] EXCEPT !.state = "run"]
      <3>1. r \in ClientType(A, B) /\ client' = [client EXCEPT ![c] = r]
        BY <1>1, <1>4 DEF ClientC2, ClientType, ClientState
      <3> QED
        BY <1>2, <3>1
    <2>3. ChannelSound'
      BY <1>4, <2>1, AppendNamed DEF ClientC2
    <2> QED
      BY <1>4, <2>2, <2>3 DEF ClientC2
  <1>5. CASE ClientSend(c)
    <2>1. Named(Op(c).what)
      BY OpAsks
    <2>2. ClientSound'
      <3> DEFINE q == Remember(client[c].requests, Op(c).what)
                 r == [client[c] EXCEPT !.pos = @ + 1, !.schema = Simple, !.requests = q]
      <3>1. client' = [client EXCEPT ![c] = r]
        BY <1>1, <1>5 DEF ClientSend
      <3> HIDE DEF q
      <3>2. [client[c] EXCEPT !.pos = @ + 1] \in ClientType(A, B)
        BY <1>1 DEF ClientType, ClientState
      <3>3. ASSUME NEW x \in ClientType(A, B)
            PROVE  [x EXCEPT !.schema = Simple] \in ClientType(A \cup {Simple}, B)
        BY DEF ClientType, ClientState
      <3>4. ASSUME NEW x \in ClientType(A \cup {Simple}, B)
            PROVE  [x EXCEPT !.requests = q] \in ClientType(A \cup {Simple}, B \cup {q})
        BY DEF ClientType, ClientState
      <3>5. r \in ClientType(A \cup {Simple}, B \cup {q})
        BY <3>2, <3>3, <3>4
      <3>6. PICK x \in ClientType(A \cup {Simple}, B \cup {q}) : client' = [client EXCEPT ![c] = x]
        BY <3>1, <3>5
      <3>7. PICK B1 : B \subseteq B1 /\ x \in ClientType(A \cup {Simple}, B1)
        BY <3>6
      <3> QED
        BY <1>2, <3>6, <3>7
    <2>3. ChannelSound'
      BY <1>5, <2>1, AppendNamed DEF ClientSend
    <2> QED
      BY <1>5, <2>2, <2>3 DEF ClientSend
  <1>6. ASSUME NEW w \in {"failed", "refused", "left"}, client' = [client EXCEPT ![c].state = w]
        PROVE  ClientSound'
    <2>1. [client[c] EXCEPT !.state = w] \in ClientType(A, B)
      BY <1>1 DEF ClientType, ClientState
    <2>2. client' = [client EXCEPT ![c] = [client[c] EXCEPT !.state = w]]
      BY <1>1, <1>6
    <2> QED
      BY <1>2, <2>1, <2>2
  <1>7. CASE ClientExpect(c)
    <2>1. CASE client' = client
      BY <1>7, <2>1 DEF ClientExpect, ClientSound
    <2>2. CASE client' = [client EXCEPT ![c].pos = @ + 1]
      <3>1. [client[c] EXCEPT !.pos = @ + 1] \in ClientType(A, B)
        BY <1>1 DEF ClientType, ClientState
      <3>2. client' = [client EXCEPT ![c] = [client[c] EXCEPT !.pos = @ + 1]]
        BY <1>1, <2>2
      <3> QED
        BY <1>7, <1>2, <3>1, <3>2 DEF ClientExpect
    <2>3. CASE client' = [client EXCEPT ![c].state = "failed"]
      BY <1>6, <1>7, <2>3 DEF ClientExpect
    <2> QED
      BY <1>7, <2>1, <2>2, <2>3 DEF ClientExpect
  <1>8. CASE ClientRefused(c)
    BY <1>6, <1>8 DEF ClientRefused
  <1>9. CASE ClientLeave(c) \/ ClientReadShort(c)
    BY <1>6, <1>9 DEF ClientLeave, ClientReadShort
  <1> QED
    BY <1>3, <1>4, <1>5, <1>7, <1>8, <1>9 DEF ClientNext

\* A step of the server uses the pool as its clients may, and takes messages
\* from the channel only.
LEMMA ServerStep ==
  ASSUME IInv, NEW c \in Conn, ServerNext(c)
  PROVE  [PoolNext]_poolVars /\ ClientSound' /\ ChannelSound'
  <1> USE DEF IInv
  <1>1. ASSUME UNCHANGED client PROVE ClientSound'
    BY <1>1 DEF ClientSound
  <1>2. ASSUME UNCHANGED c2s PROVE ChannelSound'
    BY <1>2 DEF ChannelSound
  <1>3. ASSUME Arrived(c) # {}, Take(c) PROVE ChannelSound'
    <2>1. AllNamed(Tail(c2s[c]))
      BY <1>3, TakeNamed DEF Arrived, ChannelSound
    <2> QED
      BY <1>3, <2>1 DEF Take, ChannelSound
  <1>4. ASSUME NEW m \in Arrived(c) PROVE Named(m)
    BY <1>4, TakeNamed DEF Arrived, ChannelSound
  <1>5. ASSUME NEW type, NEW u \in Url \cup {None}, Identified(c, type, u)
        PROVE  [PoolNext]_poolVars
    BY <1>5 DEF Identified, PoolNext
  <1>6. CASE handshake(c)
    BY <1>1, <1>3, <1>6 DEF handshake, Received
  <1>7. CASE read_c2(c) \/ read_short(c)
    BY <1>1, <1>3, <1>7 DEF read_c2, read_short, Received
  <1>8. CASE server_connect_app(c)
    BY <1>1, <1>3, <1>8 DEF server_connect_app, Received
  <1>9. CASE service_cycle(c) \/ token_refused(c) \/ start(c) \/ acquire_publish(c) \/ on_publish(c) \/ recv_failed(c)
    BY <1>1, <1>2, <1>9 DEF service_cycle, token_refused, start, acquire_publish, on_publish, recv_failed
  <1>10. CASE identify_client(c)
    <2>1. PICK m \in Arrived(c) :
            /\ Take(c) /\ UNCHANGED client
            /\ \/ UNCHANGED poolVars
               \/ \E type : Identified(c, type, m.arg) /\ m.name \in FMLEStart \cup {"play", "publish"}
      BY <1>10 DEF identify_client, Received, Stay
    <2>2. m.name \in FMLEStart \cup {"play", "publish"} => m.arg \in Url \cup {None}
      BY <1>4 DEF Named
    <2> QED
      BY <1>1, <1>3, <1>5, <2>1, <2>2
  <1>11. CASE identify_create_stream_client(c)
    <2>1. PICK m \in Arrived(c) :
            /\ Take(c) /\ UNCHANGED client
            /\ \/ UNCHANGED poolVars
               \/ \E type : Identified(c, type, m.arg) /\ m.name \in FMLEStart \cup {"play", "publish"}
      BY <1>11 DEF identify_create_stream_client, Received, Stay
    <2>2. m.name \in FMLEStart \cup {"play", "publish"} => m.arg \in Url \cup {None}
      BY <1>4 DEF Named
    <2> QED
      BY <1>1, <1>3, <1>5, <2>1, <2>2
  <1>12. CASE find_source(c)
    BY <1>1, <1>2, <1>12 DEF find_source, sessionVars, PoolNext
  <1>13. CASE await_FCPublish(c) \/ await_createStream(c) \/ await_publish(c)
    BY <1>1, <1>3, <1>13 DEF await_FCPublish, await_createStream, await_publish, Received
  <1>14. CASE publishing(c) \/ playing(c)
    BY <1>1, <1>3, <1>14 DEF publishing, playing, Received
  <1> QED
    BY <1>6, <1>7, <1>8, <1>9, <1>10, <1>11, <1>12, <1>13, <1>14 DEF ServerNext

LEMMA NextSound ==
  ASSUME IInv, [Next]_vars
  PROVE  IInv'
  <1>1. CASE UNCHANGED vars
    <2>1. UNCHANGED poolVars /\ UNCHANGED client /\ UNCHANGED c2s
      BY <1>1 DEF vars, sessionVars
    <2>2. PoolSound'
      BY <2>1, PoolNextSound DEF IInv
    <2> QED
      BY <2>1, <2>2 DEF IInv, ClientSound, ChannelSound
  <1>2. ASSUME NEW c \in Conn, ClientNext(c) \/ ClientLeave(c) PROVE IInv'
    <2>1. UNCHANGED poolVars /\ ClientSound' /\ ChannelSound'
      BY <1>2, ClientStep
    <2> QED
      BY <2>1, PoolNextSound DEF IInv
  <1>3. ASSUME NEW c \in Conn, ServerNext(c) PROVE IInv'
    <2>1. [PoolNext]_poolVars /\ ClientSound' /\ ChannelSound'
      BY <1>3, ServerStep
    <2> QED
      BY <2>1, PoolNextSound DEF IInv
  <1> QED
    BY <1>1, <1>2, <1>3 DEF Next

-----------------------------------------------------------------------------
(* The answers                                                             *)

ResultOf(name) ==
    CASE name = "connect" -> "ConnectAppRes"
      [] name = "createStream" -> "CreateStreamRes"
      [] name \in FMLEStart -> "FMLEStartRes"
      [] OTHER -> "CallRes"

\* A call on its way from a client of that kind, which remembers the
\* transactions D.
Asked(kind, D, m) == Numbered(kind, m) /\ (m.tid # 0 => m.tid \in D)

\* A message on its way to it.
Decodes(kind, D, m) ==
    IF m.name = "_result"
    THEN m.tid \in D /\ m.arg = ResultOf(NameOf(kind, m.tid))
    ELSE m.name # "undecodable" /\ (m.name = "onStatus" => m.arg # "undecodable")

AllAsked(kind, D, ms)  == \E S : ms \in Seq(S) /\ \A m \in S : Asked(kind, D, m)
AllDecode(kind, D, ms) == \E S : ms \in Seq(S) /\ \A m \in S : Decodes(kind, D, m)

\* What a client remembers is what its script calls under that id, and holds
\* every call on its way and the call of every answer on its way; the answer to
\* connect is sent after connect arrived.
AnswerOk(c) ==
    LET kind == client[c].kind
        D == DOMAIN client[c].requests
    IN  /\ client[c].state # "failed"
        /\ \A t \in D : client[c].requests[t] = NameOf(kind, t)
        /\ AllAsked(kind, D, c2s[c])
        /\ AllDecode(kind, D, s2c[c])
        /\ conn[c].pc = "service_cycle" => 1 \in D

ConnType(S, H) == [pc : S, type : S, ret : S, hello : H]
ConnSound == \E S, H : conn \in [Conn -> ConnType(S, H)]

AnswerInv ==
    /\ s2c = [c \in Conn |-> s2c[c]] /\ ConnSound
    /\ \A c \in Conn : AnswerOk(c)

LEMMA AppendAsked ==
  ASSUME NEW kind, NEW D, NEW E, D \subseteq E, NEW ms, AllAsked(kind, D, ms),
         NEW m, Asked(kind, E, m)
  PROVE  AllAsked(kind, E, Append(ms, m))
  <1>1. PICK S : ms \in Seq(S) /\ \A x \in S : Asked(kind, D, x)
    BY DEF AllAsked
  <1>2. Append(ms, m) \in Seq(S \cup {m})
    BY <1>1
  <1>3. \A x \in S \cup {m} : Asked(kind, E, x)
    BY <1>1 DEF Asked
  <1> QED
    BY <1>2, <1>3 DEF AllAsked

LEMMA TakeAsked ==
  ASSUME NEW kind, NEW D, NEW ms, AllAsked(kind, D, ms), ms # <<>>
  PROVE  Asked(kind, D, Head(ms)) /\ AllAsked(kind, D, Tail(ms))
  <1>1. PICK S : ms \in Seq(S) /\ \A x \in S : Asked(kind, D, x)
    BY DEF AllAsked
  <1>2. Head(ms) \in S /\ Tail(ms) \in Seq(S)
    BY <1>1, HeadTailProperties, Zenon
  <1> QED
    BY <1>1, <1>2 DEF AllAsked

LEMMA TakeDecodes ==
  ASSUME NEW kind, NEW D, NEW ms, AllDecode(kind, D, ms), ms # <<>>
  PROVE  Decodes(kind, D, Head(ms)) /\ AllDecode(kind, D, Tail(ms))
  <1>1. PICK S : ms \in Seq(S) /\ \A x \in S : Decodes(kind, D, x)
    BY DEF AllDecode
  <1>2. Head(ms) \in S /\ Tail(ms) \in Seq(S)
    BY <1>1, HeadTailProperties, Zenon
  <1> QED
    BY <1>1, <1>2 DEF AllDecode

LEMMA ConcatDecodes ==
  ASSUME NEW kind, NEW D, NEW a, NEW b, AllDecode(kind, D, a), AllDecode(kind, D, b)
  PROVE  AllDecode(kind, D, a \o b)
  <1>1. PICK S : a \in Seq(S) /\ \A x \in S : Decodes(kind, D, x)
    BY DEF AllDecode
  <1>2. PICK T : b \in Seq(T) /\ \A x \in T : Decodes(kind, D, x)
    BY DEF AllDecode
  <1>3. a \o b \in Seq(S \cup T)
    BY <1>1, <1>2
  <1>4. \A x \in S \cup T : Decodes(kind, D, x)
    BY <1>1, <1>2
  <1> QED
    BY <1>3, <1>4 DEF AllDecode

\* None to five messages.
LEMMA FewDecode ==
  ASSUME NEW kind, NEW D, NEW v, NEW w, NEW x, NEW y, NEW z,
         \A m \in {v, w, x, y, z} : Decodes(kind, D, m)
  PROVE  /\ AllDecode(kind, D, <<>>) /\ AllDecode(kind, D, <<v>>)
         /\ AllDecode(kind, D, <<v, w>>) /\ AllDecode(kind, D, <<v, w, x>>)
         /\ AllDecode(kind, D, <<v, w, x, y, z>>)
  <1> DEFINE T == {v, w, x, y, z}
  <1>1. /\ <<>> \in Seq(T) /\ <<v>> \in Seq(T) /\ <<v, w>> \in Seq(T) /\ <<v, w, x>> \in Seq(T)
        /\ <<v, w, x, y, z>> \in Seq(T)
    OBVIOUS
  <1>2. ASSUME NEW ms \in Seq(T) PROVE AllDecode(kind, D, ms)
    <2>1. \E S : ms \in Seq(S) /\ \A m \in S : Decodes(kind, D, m)
      <3> WITNESS T
      <3> QED
        OBVIOUS
    <2> QED
      BY <2>1 DEF AllDecode
  <1> HIDE DEF T
  <1> QED
    BY <1>1, <1>2

LEMMA MoreDecode ==
  ASSUME NEW kind, NEW D, NEW E, D \subseteq E, NEW ms, AllDecode(kind, D, ms)
  PROVE  AllDecode(kind, E, ms)
  BY DEF AllDecode, Decodes

\* What the client makes of a message that decodes.
LEMMA DecodedAs ==
  ASSUME NEW kind, NEW r, \A t \in DOMAIN r : r[t] = NameOf(kind, t),
         NEW m, Decodes(kind, DOMAIN r, m)
  PROVE  /\ m.name = "_result" => ClassOf(r, m) = m.arg
         /\ ClassOf(r, m) # "undecodable"
  <1>1. CASE m.name = "_result"
    <2>1. m.tid \in DOMAIN r /\ r[m.tid] = NameOf(kind, m.tid) /\ m.arg = ResultOf(r[m.tid])
      BY <1>1 DEF Decodes
    <2>2. ClassOf(r, m) = ResultOf(r[m.tid])
      BY <1>1, <2>1 DEF ClassOf, ResultOf
    <2>3. \A name : ResultOf(name) # "undecodable"
      BY DEF ResultOf
    <2> QED
      BY <2>1, <2>2, <2>3
  <1>2. CASE m.name # "_result"
    BY <1>2 DEF Decodes, ClassOf
  <1> QED
    BY <1>1, <1>2

\* A step of one connection leaves the others.
LEMMA OtherAnswers ==
  ASSUME AnswerInv, NEW c \in Conn, s2c' = [d \in Conn |-> s2c'[d]], ConnSound', AnswerOk(c)',
         \A d \in Conn \ {c} : /\ client'[d] = client[d] /\ c2s'[d] = c2s[d]
                               /\ s2c'[d] = s2c[d] /\ conn'[d] = conn[d]
  PROVE  AnswerInv'
  <1>1. ASSUME NEW d \in Conn \ {c} PROVE AnswerOk(d)'
    BY <1>1 DEF AnswerInv, AnswerOk
  <1> QED
    BY <1>1 DEF AnswerInv

\* A client that calls remembers the call; what it is answered it can decode.
LEMMA ClientAnswers ==
  ASSUME IInv, AnswerInv, NEW c \in Conn, ClientNext(c) \/ ClientLeave(c)
  PROVE  AnswerInv'
  <1> DEFINE kind == client[c].kind
             r == client[c].requests
             D == DOMAIN r
  <1>1. PICK A, B : client \in [Conn -> ClientType(A, B)]
    BY DEF IInv, ClientSound
  <1>2. /\ c2s = [d \in Conn |-> c2s[d]] /\ s2c = [d \in Conn |-> s2c[d]] /\ ConnSound
        /\ client[c].state # "failed" /\ \A t \in D : r[t] = NameOf(kind, t)
        /\ AllAsked(kind, D, c2s[c]) /\ AllDecode(kind, D, s2c[c])
        /\ conn[c].pc = "service_cycle" => 1 \in D
    BY DEF IInv, ChannelSound, AnswerInv, AnswerOk
  <1>3. conn' = conn
    BY DEF ClientNext, ClientC0C1, ClientC2, ClientReadShort, ClientSend, ClientExpect,
       ClientRefused, ClientLeave
  <1>4. ASSUME NEW D1, D \subseteq D1, client'[c].kind = kind, DOMAIN client'[c].requests = D1,
               client'[c].state # "failed",
               \A t \in D1 : client'[c].requests[t] = NameOf(kind, t),
               AllAsked(kind, D1, c2s'[c]), AllDecode(kind, D1, s2c'[c]),
               s2c' = [d \in Conn |-> s2c'[d]],
               \A d \in Conn \ {c} : client'[d] = client[d] /\ c2s'[d] = c2s[d] /\ s2c'[d] = s2c[d]
        PROVE  AnswerInv'
    <2>1. ConnSound'
      BY <1>2, <1>3 DEF ConnSound
    <2>2. AnswerOk(c)'
      BY <1>2, <1>3, <1>4 DEF AnswerOk
    <2> QED
      BY <1>3, <1>4, <2>1, <2>2, OtherAnswers
  <1>5. ASSUME client'[c].kind = kind, client'[c].requests = r, client'[c].state # "failed",
               \A d \in Conn \ {c} : client'[d] = client[d] /\ c2s'[d] = c2s[d] /\ s2c'[d] = s2c[d],
               AllAsked(kind, D, c2s'[c]), AllDecode(kind, D, s2c'[c]),
               s2c' = [d \in Conn |-> s2c'[d]]
        PROVE  AnswerInv'
    BY <1>2, <1>4, <1>5
  <1>6. ASSUME NEW name \in {"c0c1", "c2"}, NEW b
        PROVE  AllAsked(kind, D, Append(c2s[c], Bytes(name, b)))
    <2>1. Asked(kind, D, Bytes(name, b))
      BY DEF Asked, Numbered, Bytes, Answered, FMLEStart
    <2> QED
      BY <1>2, <2>1, AppendAsked
  <1>7. CASE ClientC0C1(c)
    <2>1. PICK schema, b : /\ c2s' = [c2s EXCEPT ![c] = Append(@, Bytes("c0c1", b))]
                           /\ client' = [client EXCEPT ![c].state = "s0s1s2", ![c].schema = schema]
                           /\ s2c' = s2c
      BY <1>7 DEF ClientC0C1
    <2>2. /\ client'[c].kind = kind /\ client'[c].requests = r /\ client'[c].state = "s0s1s2"
          /\ \A d \in Conn \ {c} : client'[d] = client[d]
      BY <1>1, <2>1 DEF ClientType
    <2>3. c2s'[c] = Append(c2s[c], Bytes("c0c1", b)) /\ \A d \in Conn \ {c} : c2s'[d] = c2s[d]
      BY <1>2, <2>1
    <2>4. AllAsked(kind, D, c2s'[c])
      BY <1>6, <2>3
    <2> HIDE DEF kind, r, D
    <2> QED
      BY <1>2, <1>5, <2>1, <2>2, <2>3, <2>4
  <1>8. CASE ClientC2(c)
    <2>1. PICK b : /\ c2s' = [c2s EXCEPT ![c] = Append(@, Bytes("c2", b))]
                   /\ client' = [client EXCEPT ![c].state = "run"]
                   /\ s2c' = [s2c EXCEPT ![c] = Tail(@)] /\ s2c[c] # <<>>
      BY <1>8 DEF ClientC2
    <2>2. /\ client'[c].kind = kind /\ client'[c].requests = r /\ client'[c].state = "run"
          /\ \A d \in Conn \ {c} : client'[d] = client[d]
      BY <1>1, <2>1 DEF ClientType
    <2>3. /\ c2s'[c] = Append(c2s[c], Bytes("c2", b)) /\ \A d \in Conn \ {c} : c2s'[d] = c2s[d]
          /\ s2c'[c] = Tail(s2c[c]) /\ \A d \in Conn \ {c} : s2c'[d] = s2c[d]
          /\ s2c' = [d \in Conn |-> s2c'[d]]
      BY <1>2, <2>1
    <2>4. AllAsked(kind, D, c2s'[c])
      BY <1>6, <2>3
    <2>5. AllDecode(kind, D, s2c'[c])
      BY <1>2, <2>1, <2>3, TakeDecodes
    <2> HIDE DEF kind, r, D
    <2> QED
      BY <1>5, <2>2, <2>3, <2>4, <2>5
  <1>9. CASE ClientSend(c)
    <2> DEFINE m == Op(c).what
               q == Remember(r, m)
               D1 == DOMAIN q
    <2>1. /\ c2s' = [c2s EXCEPT ![c] = Append(@, m)] /\ s2c' = s2c
          /\ client' = [client EXCEPT ![c].pos = @ + 1, ![c].schema = Simple, ![c].requests = q]
      BY <1>9 DEF ClientSend
    <2>2. Numbered(kind, m)
      BY OpAsks DEF IInv
    <2>3. /\ D \subseteq D1 /\ (m.tid # 0 => m.tid \in D1)
          /\ \A t \in D1 : q[t] = NameOf(kind, t)
      <3>1. CASE m.tid = 0
        BY <1>2, <3>1 DEF Remember
      <3>2. CASE m.tid # 0
        <4> HIDE DEF m, r, kind
        <4>1. /\ D1 = {m.tid} \cup D
              /\ \A t \in D1 : q[t] = IF t = m.tid THEN m.name ELSE r[t]
          BY <3>2 DEF Remember
        <4>2. m.name = NameOf(kind, m.tid)
          BY <2>2, <3>2 DEF Numbered
        <4> HIDE DEF D1, q, D
        <4> QED
          BY <1>2, <4>1, <4>2 DEF D
      <3> QED
        BY <3>1, <3>2
    <2> HIDE DEF q, m
    <2>4. /\ client'[c].kind = kind /\ client'[c].requests = q
          /\ client'[c].state = client[c].state
          /\ \A d \in Conn \ {c} : client'[d] = client[d]
      BY <1>1, <2>1 DEF ClientType
    <2>5. c2s'[c] = Append(c2s[c], m) /\ \A d \in Conn \ {c} : c2s'[d] = c2s[d]
      BY <1>2, <2>1
    <2> HIDE DEF kind, r, D, D1
    <2>6. AllAsked(kind, D1, c2s'[c])
      <3>1. Asked(kind, D1, m)
        BY <2>2, <2>3 DEF Asked
      <3> QED
        BY <1>2, <2>3, <2>5, <3>1, AppendAsked
    <2>7. AllDecode(kind, D1, s2c'[c])
      BY <1>2, <2>1, <2>3, MoreDecode
    <2>8. DOMAIN client'[c].requests = D1
      BY <2>4 DEF D1
    <2>9. /\ s2c' = [d \in Conn |-> s2c'[d]] /\ client'[c].state # "failed"
          /\ \A d \in Conn \ {c} : s2c'[d] = s2c[d]
      BY <1>2, <2>1, <2>4
    <2> QED
      BY <1>4, <2>3, <2>4, <2>5, <2>6, <2>7, <2>8, <2>9
  <1>10. CASE ClientExpect(c)
    <2> DEFINE m == Head(s2c[c])
    <2>1. /\ s2c' = [s2c EXCEPT ![c] = Tail(@)] /\ s2c[c] # <<>> /\ c2s' = c2s
          /\ \/ client' = client \/ client' = [client EXCEPT ![c].pos = @ + 1]
             \/ ClassOf(r, m) = "undecodable"
      BY <1>10 DEF ClientExpect, Client
    <2>2. Decodes(kind, D, m) /\ AllDecode(kind, D, Tail(s2c[c]))
      BY <1>2, <2>1, TakeDecodes
    <2>3. ClassOf(r, m) # "undecodable"
      <3> HIDE DEF kind, r, m
      <3> QED
        BY <1>2, <2>2, DecodedAs
    <2>4. /\ client'[c].kind = kind /\ client'[c].requests = r
          /\ client'[c].state = client[c].state
          /\ \A d \in Conn \ {c} : client'[d] = client[d]
      BY <1>1, <2>1, <2>3 DEF ClientType
    <2>5. /\ s2c'[c] = Tail(s2c[c]) /\ \A d \in Conn \ {c} : s2c'[d] = s2c[d]
          /\ s2c' = [d \in Conn |-> s2c'[d]]
      BY <1>2, <2>1
    <2> HIDE DEF kind, r, D
    <2> QED
      BY <1>2, <1>5, <2>1, <2>2, <2>4, <2>5
  <1>11. CASE ClientRefused(c) \/ ClientLeave(c)
    <2>1. PICK w \in {"refused", "left"} : client' = [client EXCEPT ![c].state = w]
      BY <1>11 DEF ClientRefused, ClientLeave
    <2>2. s2c' = s2c /\ c2s' = c2s
      BY <1>11 DEF ClientRefused, ClientLeave
    <2>3. /\ client'[c].kind = kind /\ client'[c].requests = r /\ client'[c].state = w
          /\ \A d \in Conn \ {c} : client'[d] = client[d]
      BY <1>1, <2>1 DEF ClientType
    <2> HIDE DEF kind, r, D
    <2> QED
      BY <1>2, <1>5, <2>2, <2>3
  <1>12. CASE ClientReadShort(c)
    <2>1. /\ s2c' = [s2c EXCEPT ![c] = Tail(@)] /\ s2c[c] # <<>> /\ c2s' = c2s
          /\ client' = [client EXCEPT ![c].state = "left"]
      BY <1>12 DEF ClientReadShort
    <2>2. AllDecode(kind, D, Tail(s2c[c]))
      BY <1>2, <2>1, TakeDecodes
    <2>3. /\ client'[c].kind = kind /\ client'[c].requests = r /\ client'[c].state = "left"
          /\ \A d \in Conn \ {c} : client'[d] = client[d]
      BY <1>1, <2>1 DEF ClientType
    <2>4. /\ s2c'[c] = Tail(s2c[c]) /\ \A d \in Conn \ {c} : s2c'[d] = s2c[d]
          /\ s2c' = [d \in Conn |-> s2c'[d]]
      BY <1>2, <2>1
    <2> HIDE DEF kind, r, D
    <2> QED
      BY <1>2, <1>5, <2>1, <2>2, <2>3, <2>4
  <1> QED
    BY <1>7, <1>8, <1>9, <1>10, <1>11, <1>12 DEF ClientNext

\* The server answers calls, each with the transaction id and the result of
\* that call.
LEMMA ServerAnswers ==
  ASSUME IInv, AnswerInv, NEW c \in Conn, ServerNext(c)
  PROVE  AnswerInv'
  <1> DEFINE kind == client[c].kind
             D == DOMAIN client[c].requests
             CallsOk == AllAsked(kind, D, c2s'[c]) /\ \A d \in Conn \ {c} : c2s'[d] = c2s[d]
             ResultsOk == /\ s2c' = [d \in Conn |-> s2c'[d]] /\ AllDecode(kind, D, s2c'[c])
                          /\ \A d \in Conn \ {c} : s2c'[d] = s2c[d]
             PcOk == /\ ConnSound' /\ (conn'[c].pc = "service_cycle" => 1 \in D)
                     /\ \A d \in Conn \ {c} : conn'[d] = conn[d]
             Said(ms) == AllDecode(kind, D, ms)
  <1>1. PICK S, H : conn \in [Conn -> ConnType(S, H)]
    BY DEF AnswerInv, ConnSound
  <1>2. /\ c2s = [d \in Conn |-> c2s[d]] /\ s2c = [d \in Conn |-> s2c[d]] /\ AnswerOk(c)
        /\ AllAsked(kind, D, c2s[c]) /\ AllDecode(kind, D, s2c[c])
        /\ conn[c].pc = "service_cycle" => 1 \in D
    BY DEF IInv, ChannelSound, AnswerInv, AnswerOk
  <1>3. ASSUME client' = client, CallsOk, ResultsOk, PcOk PROVE AnswerInv'
    <2>1. AnswerOk(c)'
      BY <1>2, <1>3 DEF AnswerOk
    <2> QED
      BY <1>3, <2>1, OtherAnswers
  <1>4. UNCHANGED c2s => CallsOk
    BY <1>2
  <1>5. ASSUME NEW m \in Arrived(c), Take(c) PROVE Asked(kind, D, m) /\ CallsOk
    <2>1. c2s[c] # <<>> /\ m = Head(c2s[c])
      BY <1>5 DEF Arrived
    <2>2. Asked(kind, D, m) /\ AllAsked(kind, D, Tail(c2s[c]))
      BY <1>2, <2>1, TakeAsked
    <2>3. c2s'[c] = Tail(c2s[c]) /\ \A d \in Conn \ {c} : c2s'[d] = c2s[d]
      BY <1>2, <1>5 DEF Take
    <2> QED
      BY <2>2, <2>3
  <1>6. Silent => ResultsOk
    BY <1>2 DEF Silent
  <1>7. ASSUME NEW ms, Said(ms), Answer(c, ms) PROVE ResultsOk
    <2>1. /\ s2c'[c] = s2c[c] \o ms /\ \A d \in Conn \ {c} : s2c'[d] = s2c[d]
          /\ s2c' = [d \in Conn |-> s2c'[d]]
      BY <1>2, <1>7 DEF Answer
    <2>2. AllDecode(kind, D, s2c[c] \o ms)
      BY <1>2, <1>7, ConcatDecodes
    <2> QED
      BY <2>1, <2>2
  <1>8. UNCHANGED conn => PcOk
    BY <1>2 DEF AnswerInv, ConnSound
  <1>9. ASSUME NEW k, NEW S1, NEW H1, k \in ConnType(S1, H1), S \subseteq S1, H \subseteq H1,
               conn' = [conn EXCEPT ![c] = k], k.pc = "service_cycle" => 1 \in D
        PROVE  PcOk
    <2>1. ConnType(S, H) \subseteq ConnType(S1, H1)
      BY <1>9 DEF ConnType
    <2>2. conn' \in [Conn -> ConnType(S1, H1)]
      BY <1>1, <1>9, <2>1
    <2>3. conn'[c] = k /\ \A d \in Conn \ {c} : conn'[d] = conn[d]
      BY <1>1, <1>9
    <2> QED
      BY <1>9, <2>2, <2>3 DEF ConnSound
  <1>10. ASSUME NEW pc, pc = "service_cycle" => 1 \in D, To(c, pc) PROVE PcOk
    <2> DEFINE k == [conn[c] EXCEPT !.pc = pc]
    <2>1. k \in ConnType(S \cup {pc}, H) /\ k.pc = pc
      BY <1>1 DEF ConnType
    <2>2. conn' = [conn EXCEPT ![c] = k]
      BY <1>1, <1>10 DEF To
    <2> HIDE DEF k, PcOk, D
    <2> QED
      BY <1>9, <1>10, <2>1, <2>2
  <1>11. ASSUME NEW ret, Close(c, ret) PROVE PcOk
    <2> DEFINE k == [conn[c] EXCEPT !.pc = "closed", !.ret = ret]
    <2>1. k \in ConnType(S \cup {"closed", ret}, H) /\ k.pc = "closed"
      BY <1>1 DEF ConnType
    <2>2. conn' = [conn EXCEPT ![c] = k]
      BY <1>1, <1>11 DEF Close
    <2> HIDE DEF k, PcOk, D
    <2> QED
      BY <1>9, <2>1, <2>2
  <1>12. ASSUME NEW pc \in {"c2", "connect_app"}, NEW h,
                conn' = [conn EXCEPT ![c].pc = pc, ![c].hello = h]
         PROVE  PcOk
    <2> DEFINE k == [conn[c] EXCEPT !.pc = pc, !.hello = h]
    <2>1. k \in ConnType(S \cup {pc}, H \cup {h}) /\ k.pc = pc
      BY <1>1 DEF ConnType
    <2>2. conn' = [conn EXCEPT ![c] = k]
      BY <1>1, <1>12
    <2>3. PICK S1, H1 : k \in ConnType(S1, H1) /\ S \subseteq S1 /\ H \subseteq H1
      BY <2>1
    <2>4. k.pc # "service_cycle"
      BY <1>12, <2>1
    <2> HIDE DEF k, PcOk, D
    <2> QED
      BY <1>9, <2>2, <2>3, <2>4
  <1>13. ASSUME NEW type, NEW u, Identified(c, type, u) PROVE PcOk
    <2>1. CASE u = None
      BY <1>11, <1>13, <2>1 DEF Identified
    <2>2. CASE u # None
      <3> DEFINE k == [conn[c] EXCEPT !.pc = "start", !.type = type]
      <3>1. k \in ConnType(S \cup {"start", type}, H) /\ k.pc = "start"
        BY <1>1 DEF ConnType
      <3>2. conn' = [conn EXCEPT ![c] = k]
        BY <1>1, <1>13, <2>2 DEF Identified
      <3> HIDE DEF k, PcOk, D
      <3> QED
        BY <1>9, <3>1, <3>2
    <2> QED
      BY <2>1, <2>2
  <1>14. /\ \A n, a : n \notin {"_result", "undecodable", "onStatus"} => Decodes(kind, D, Msg(n, 0, a))
         /\ \A a : a # "undecodable" => Decodes(kind, D, Status(a))
         /\ \A a : Decodes(kind, D, Bytes("s0s1s2", a))
         /\ Decodes(kind, D, Control)
    BY DEF Decodes, Msg, Status, Bytes, Control
  <1>15. ASSUME NEW m, Asked(kind, D, m), m.name \in Answered
         PROVE  Decodes(kind, D, Result(m.tid, ResultOf(m.name)))
    BY <1>15 DEF Asked, Numbered, Decodes, Result, Msg
  <1>16. \A v, w, x, y, z : Decodes(kind, D, v) /\ Decodes(kind, D, w) /\ Decodes(kind, D, x)
                              /\ Decodes(kind, D, y) /\ Decodes(kind, D, z)
            => /\ Said(<<>>) /\ Said(<<v>>) /\ Said(<<v, w>>) /\ Said(<<v, w, x>>)
               /\ Said(<<v, w, x, y, z>>)
    BY FewDecode
  <1>17. /\ \A v : Decodes(kind, D, v) => Said(<<v>>)
         /\ \A v, w : Decodes(kind, D, v) /\ Decodes(kind, D, w) => Said(<<v, w>>)
         /\ \A v, w, x : Decodes(kind, D, v) /\ Decodes(kind, D, w) /\ Decodes(kind, D, x)
               => Said(<<v, w, x>>)
    <2> HIDE DEF Said
    <2> QED
      BY <1>16
  <1>18. ASSUME NEW m, Asked(kind, D, m), m.name \in Answered
         PROVE  /\ m.name = "createStream" => Said(<<Result(m.tid, "CreateStreamRes")>>)
                /\ m.name \in FMLEStart => Said(<<Result(m.tid, "FMLEStartRes")>>)
                /\ m.name \in {"_checkbw", "getLength"} => Said(<<Result(m.tid, "CallRes")>>)
                /\ m.name \in FMLEStart => Said(fmle_unpublish(m.tid))
    <2>1. /\ m.name = "createStream" => ResultOf(m.name) = "CreateStreamRes"
          /\ m.name \in FMLEStart => ResultOf(m.name) = "FMLEStartRes"
          /\ m.name \in {"_checkbw", "getLength"} => ResultOf(m.name) = "CallRes"
      BY DEF ResultOf, FMLEStart
    <2>2. Decodes(kind, D, Result(m.tid, ResultOf(m.name)))
      BY <1>15, <1>18
    <2>3. /\ Decodes(kind, D, Msg("onFCUnpublish", 0, None))
          /\ Decodes(kind, D, Status("Unpublish"))
      BY <1>14
    <2> HIDE DEF Said, kind, D
    <2> QED
      BY <1>17, <2>1, <2>2, <2>3 DEF fmle_unpublish
  <1>19. /\ Said(start_play) /\ Said(on_play_client_pause) /\ Said(start_flash_publish)
         /\ Said(<<Msg("onFCPublish", 0, None), Status("Start")>>) /\ Said(<<>>)
         /\ \A a : Said(<<Bytes("s0s1s2", a)>>)
    <2>1. /\ \A a \in {"Reset", "Start", "Data", "Pause"} : Decodes(kind, D, Status(a))
          /\ Decodes(kind, D, Msg("sampleAccess", 0, None))
          /\ Decodes(kind, D, Msg("onFCPublish", 0, None))
      BY <1>14
    <2> HIDE DEF Said, kind, D
    <2>2. Said(start_play) /\ Said(<<>>)
      BY <1>14, <1>16, <2>1 DEF start_play
    <2> QED
      BY <1>14, <1>17, <2>1, <2>2 DEF on_play_client_pause, start_flash_publish
  <1>20. /\ Said(set_window_ack_size \o set_peer_bandwidth)
         /\ 1 \in D => Said(set_window_ack_size \o set_peer_bandwidth \o set_chunk_size
                                 \o response_connect_app \o on_bw_done)
    <2>1. Said(set_window_ack_size) /\ Said(set_peer_bandwidth) /\ Said(set_chunk_size)
      <3> HIDE DEF Said, kind, D
      <3> QED
        BY <1>14, <1>17 DEF set_window_ack_size, set_peer_bandwidth, set_chunk_size
    <2>2. 1 \in D => Said(response_connect_app)
      <3>1. NameOf(kind, 1) = "connect" /\ ResultOf("connect") = "ConnectAppRes"
        BY DEF NameOf, ResultOf, FMLEStart
      <3>2. 1 \in D => Decodes(kind, D, Result(1, "ConnectAppRes"))
        BY <3>1 DEF Decodes, Result, Msg
      <3> HIDE DEF Said, kind, D
      <3> QED
        BY <1>17, <3>2 DEF response_connect_app
    <2>3. Said(on_bw_done)
      <3> HIDE DEF Said, kind, D
      <3> QED
        BY <1>14, <1>17 DEF on_bw_done
    <2>4. \A a, b : Said(a) /\ Said(b) => Said(a \o b)
      BY ConcatDecodes
    <2> HIDE DEF Said, D
    <2> QED
      BY <2>1, <2>2, <2>3, <2>4
  <1> HIDE DEF Said, CallsOk, ResultsOk, PcOk
  <1>21. CASE handshake(c)
    <2>1. PICK m \in Arrived(c) : Take(c) /\ client' = client
      BY <1>21 DEF handshake, Received
    <2>2. \/ \E a, h : /\ Answer(c, <<Bytes("s0s1s2", a)>>)
                      /\ conn' = [conn EXCEPT ![c].pc = "c2", ![c].hello = h]
          \/ Close(c, "plain") /\ Silent
      BY <1>21 DEF handshake
    <2> QED
      BY <1>3, <1>5, <1>6, <1>7, <1>11, <1>12, <1>19, <2>1, <2>2
  <1>22. CASE read_c2(c)
    <2>1. PICK m \in Arrived(c) : Take(c) /\ client' = client
      BY <1>22 DEF read_c2, Received
    <2>2. conn' = [conn EXCEPT ![c].pc = "connect_app", ![c].hello = None] /\ Silent
      BY <1>22 DEF read_c2
    <2> QED
      BY <1>3, <1>5, <1>6, <1>12, <2>1, <2>2
  <1>23. CASE server_connect_app(c)
    <2>1. PICK m \in Arrived(c) :
            /\ Take(c) /\ client' = client /\ Silent
            /\ \/ UNCHANGED conn \/ Close(c, "tcurl")
               \/ m.name = "connect" /\ To(c, "service_cycle")
      BY <1>23 DEF server_connect_app, Received
    <2>2. m.name = "connect" => 1 \in D
      BY <1>5, <2>1 DEF Asked, Numbered
    <2> QED
      BY <1>3, <1>5, <1>6, <1>8, <1>10, <1>11, <2>1, <2>2
  <1>24. CASE service_cycle(c)
    <2>1. 1 \in D
      BY <1>2, <1>24 DEF service_cycle, Pc
    <2>2. Said(set_window_ack_size \o set_peer_bandwidth \o set_chunk_size
                   \o response_connect_app \o on_bw_done)
      BY <1>20, <2>1
    <2>3. /\ client' = client /\ UNCHANGED c2s /\ To(c, "identify")
          /\ Answer(c, set_window_ack_size \o set_peer_bandwidth \o set_chunk_size
                          \o response_connect_app \o on_bw_done)
      BY <1>24 DEF service_cycle
    <2> QED
      BY <1>3, <1>4, <1>7, <1>10, <2>2, <2>3
  <1>25. CASE token_refused(c)
    <2>1. /\ client' = client /\ UNCHANGED c2s /\ Close(c, "token")
          /\ Answer(c, set_window_ack_size \o set_peer_bandwidth)
      BY <1>25 DEF token_refused
    <2> QED
      BY <1>3, <1>4, <1>7, <1>11, <1>20, <2>1
  <1>26. CASE identify_client(c) \/ identify_create_stream_client(c)
    <2>1. PICK m \in Arrived(c) :
            /\ Take(c) /\ client' = client
            /\ \/ \E type : Identified(c, type, m.arg)
               \/ \E pc \in {"identify", "identify_create_stream"} : To(c, pc)
            /\ \/ Silent
               \/ m.name = "createStream" /\ Answer(c, <<Result(m.tid, "CreateStreamRes")>>)
               \/ m.name \in FMLEStart /\ Answer(c, <<Result(m.tid, "FMLEStartRes")>>)
               \/ /\ m.name \in {"_checkbw", "getLength"}
                  /\ Answer(c, <<Result(m.tid, "CallRes")>>)
      <3>1. CASE identify_client(c)
        BY <3>1 DEF identify_client, Received, Stay
      <3>2. CASE identify_create_stream_client(c)
        BY <3>2 DEF identify_create_stream_client, Received, Stay
      <3> QED
        BY <1>26, <3>1, <3>2
    <2>2. Asked(kind, D, m) /\ CallsOk
      BY <1>5, <2>1
    <2>3. PcOk
      BY <1>10, <1>13, <2>1
    <2>4. ResultsOk
      BY <1>6, <1>7, <1>18, <2>1, <2>2 DEF Answered
    <2> QED
      BY <1>3, <2>1, <2>2, <2>3, <2>4
  <1>27. CASE find_source(c)
    BY <1>3, <1>4, <1>6, <1>8, <1>27 DEF find_source, sessionVars, Silent
  <1>28. CASE start(c)
    <2>1. /\ client' = client /\ UNCHANGED c2s
          /\ Answer(c, start_play) \/ Answer(c, start_flash_publish) \/ Silent
      BY <1>28 DEF start
    <2>2. \E pc \in {"playing", "acquire", "FCPublish", "publish"} : To(c, pc)
      BY <1>28 DEF start
    <2> QED
      BY <1>3, <1>4, <1>6, <1>7, <1>10, <1>19, <2>1, <2>2
  <1>29. CASE await_FCPublish(c) \/ await_createStream(c) \/ await_publish(c)
    <2>1. PICK m \in Arrived(c) :
            /\ Take(c) /\ client' = client
            /\ UNCHANGED conn \/ \E pc \in {"createStream", "publish", "acquire"} : To(c, pc)
            /\ \/ Silent
               \/ m.name = "createStream" /\ Answer(c, <<Result(m.tid, "CreateStreamRes")>>)
               \/ m.name \in FMLEStart /\ Answer(c, <<Result(m.tid, "FMLEStartRes")>>)
               \/ Answer(c, <<Msg("onFCPublish", 0, None), Status("Start")>>)
      BY <1>29 DEF await_FCPublish, await_createStream, await_publish, Received
    <2>2. Asked(kind, D, m) /\ CallsOk
      BY <1>5, <2>1
    <2>3. PcOk
      BY <1>8, <1>10, <2>1
    <2>4. ResultsOk
      BY <1>6, <1>7, <1>18, <1>19, <2>1, <2>2 DEF Answered
    <2> QED
      BY <1>3, <2>1, <2>2, <2>3, <2>4
  <1>30. CASE read_short(c)
    <2>1. /\ client' = client /\ Take(c) /\ Silent /\ Close(c, "short")
          /\ \E m : m \in Arrived(c)
      BY <1>30 DEF read_short
    <2> QED
      BY <1>3, <1>5, <1>6, <1>11, <2>1
  <1>31. CASE acquire_publish(c) \/ on_publish(c) \/ recv_failed(c)
    <2>1. /\ client' = client /\ UNCHANGED c2s /\ Silent
          /\ \/ To(c, "on_publish") \/ To(c, "publishing")
             \/ Close(c, "busy") \/ Close(c, "recv")
      BY <1>31 DEF acquire_publish, on_publish, recv_failed, Silent
    <2> QED
      BY <1>3, <1>4, <1>6, <1>10, <1>11, <2>1
  <1>32. CASE publishing(c) \/ playing(c)
    <2>1. PICK m \in Arrived(c) :
            /\ Take(c) /\ client' = client
            /\ UNCHANGED conn \/ To(c, "join")
            /\ \/ Silent \/ Answer(c, <<>>) \/ Answer(c, on_play_client_pause)
               \/ m.name \in FMLEStart /\ Answer(c, fmle_unpublish(m.tid))
               \/ /\ m.name \in {"_checkbw", "getLength"}
                  /\ Answer(c, <<Result(m.tid, "CallRes")>>)
      BY <1>32 DEF publishing, playing, Received
    <2>2. Asked(kind, D, m) /\ CallsOk
      BY <1>5, <2>1
    <2>3. PcOk
      BY <1>8, <1>10, <2>1
    <2>4. ResultsOk
      BY <1>6, <1>7, <1>18, <1>19, <2>1, <2>2 DEF Answered
    <2> QED
      BY <1>3, <2>1, <2>2, <2>3, <2>4
  <1> QED
    BY <1>21, <1>22, <1>23, <1>24, <1>25, <1>26, <1>27, <1>28, <1>29, <1>31, <1>32, <1>30 DEF ServerNext

LEMMA InitAnswers == Init => AnswerInv
  <1> SUFFICES ASSUME Init PROVE AnswerInv
    OBVIOUS
  <1>1. ConnSound
    <2>1. conn \in [Conn -> ConnType({"handshake", "unknown", "ok"}, {None})]
      BY DEF Init, ConnType
    <2> QED
      BY <2>1 DEF ConnSound
  <1>2. ASSUME NEW c \in Conn PROVE AnswerOk(c)
    <2> DEFINE kind == client[c].kind
               D == DOMAIN client[c].requests
    <2>1. /\ client[c].requests = <<>> /\ client[c].state = "c0c1"
          /\ c2s[c] = <<>> /\ s2c[c] = <<>> /\ conn[c].pc = "handshake"
      BY DEF Init
    <2>2. D = {}
      BY <2>1
    <2>3. \A ms \in Seq({}) : AllAsked(kind, D, ms) /\ AllDecode(kind, D, ms)
      <3> HIDE DEF kind, D
      <3> QED
        BY DEF AllAsked, AllDecode
    <2>4. AllAsked(kind, D, <<>>) /\ AllDecode(kind, D, <<>>)
      <3>1. <<>> \in Seq({})
        OBVIOUS
      <3> QED
        BY <2>3, <3>1, Zenon
    <2> QED
      BY <2>1, <2>2, <2>4 DEF AnswerOk, kind, D
  <1> QED
    BY <1>1, <1>2 DEF AnswerInv, Init

LEMMA NextAnswers ==
  ASSUME IInv, AnswerInv, [Next]_vars
  PROVE  AnswerInv'
  <1>1. CASE UNCHANGED vars
    BY <1>1 DEF vars, sessionVars, AnswerInv, AnswerOk, ConnSound
  <1> QED
    BY <1>1, ClientAnswers, ServerAnswers DEF Next

\* However the connections interleave, for clients of every kind: each answer
\* under way is to a call that the client remembers (SrsProtocol::requests),
\* and is decoded as what the server sent, so no client fails on an answer
\* (do_decode_message on the transaction ids of identify_client,
\* start_fmle_publish, fmle_unpublish and process_play_control_msg).
THEOREM AnswersMatchProved == Spec => []AnswersMatch
  <1>1. IInv /\ AnswerInv => AnswersMatch
    <2> SUFFICES ASSUME AnswerInv, NEW c \in Conn
                 PROVE  /\ client[c].state # "failed"
                        /\ \A i \in DOMAIN s2c[c] : s2c[c][i].name = "_result" =>
                              ClassOf(client[c].requests, s2c[c][i]) = s2c[c][i].arg
      BY DEF AnswersMatch, Client
    <2> DEFINE kind == client[c].kind
               r == client[c].requests
    <2>1. /\ client[c].state # "failed" /\ AllDecode(kind, DOMAIN r, s2c[c])
          /\ \A t \in DOMAIN r : r[t] = NameOf(kind, t)
      BY DEF AnswerInv, AnswerOk
    <2> HIDE DEF kind, r
    <2>2. PICK S : s2c[c] \in Seq(S) /\ \A m \in S : Decodes(kind, DOMAIN r, m)
      BY <2>1 DEF AllDecode
    <2>3. ASSUME NEW i \in DOMAIN s2c[c], s2c[c][i].name = "_result"
          PROVE  ClassOf(r, s2c[c][i]) = s2c[c][i].arg
      <3>1. Decodes(kind, DOMAIN r, s2c[c][i])
        BY <2>2
      <3> QED
        BY <2>1, <2>3, <3>1, DecodedAs
    <2> QED
      BY <2>1, <2>3 DEF r
  <1>2. Init => IInv /\ AnswerInv
    BY InitSound, InitAnswers
  <1>3. IInv /\ AnswerInv /\ [Next]_vars => IInv' /\ AnswerInv'
    BY NextSound, NextAnswers
  <1> QED
    BY <1>1, <1>2, <1>3, PTL DEF Spec

-----------------------------------------------------------------------------
(* The handshake: blocks are read back as they were written                *)

\* What is in front of a concatenation, and what is behind.
LEMMA Parts ==
  ASSUME NEW T, NEW s \in Seq(T), NEW t \in Seq(T)
  PROVE  /\ \A m \in Nat \ {0}, n \in 0..Len(s) : SubSeq(s \o t, m, n) = SubSeq(s, m, n)
         /\ SubSeq(s \o t, Len(s) + 1, Len(s) + Len(t)) = t
  <1> DEFINE w == s \o t
  <1>1. /\ w \in Seq(T) /\ Len(w) = Len(s) + Len(t)
        /\ \A i \in 1..Len(s) + Len(t) : w[i] = IF i <= Len(s) THEN s[i] ELSE t[i - Len(s)]
    BY ConcatProperties
  <1> HIDE DEF w
  <1>2. Len(s) \in Nat /\ Len(t) \in Nat
    BY LenProperties
  <1>3. ASSUME NEW m \in Nat \ {0}, NEW n \in 0..Len(s)
        PROVE  SubSeq(w, m, n) = SubSeq(s, m, n)
    <2>1. \A i \in m..n : w[i] \in T /\ s[i] \in T /\ w[i] = s[i]
      BY <1>1, <1>2, ElementOfSeq
    <2>2. /\ SubSeq(w, m, n) \in Seq(T) /\ Len(SubSeq(w, m, n)) = IF m <= n THEN n - m + 1 ELSE 0
          /\ \A i \in 1..n - m + 1 : SubSeq(w, m, n)[i] = w[m + i - 1]
      BY <1>2, <2>1, SubSeqProperties
    <2>3. /\ SubSeq(s, m, n) \in Seq(T) /\ Len(SubSeq(s, m, n)) = IF m <= n THEN n - m + 1 ELSE 0
          /\ \A i \in 1..n - m + 1 : SubSeq(s, m, n)[i] = s[m + i - 1]
      BY <1>2, <2>1, SubSeqProperties
    <2>4. ASSUME NEW i \in 1..Len(SubSeq(w, m, n)) PROVE SubSeq(w, m, n)[i] = SubSeq(s, m, n)[i]
      <3>1. i \in 1..n - m + 1 /\ m + i - 1 \in m..n
        BY <1>2, <2>2
      <3> QED
        BY <2>1, <2>2, <2>3, <3>1
    <2> QED
      BY <2>2, <2>3, <2>4, SeqEqual
  <1>4. SubSeq(w, Len(s) + 1, Len(s) + Len(t)) = t
    <2> DEFINE m == Len(s) + 1
               n == Len(s) + Len(t)
    <2>1. \A i \in m..n : w[i] \in T
      BY <1>1, <1>2, ElementOfSeq
    <2>2. /\ SubSeq(w, m, n) \in Seq(T) /\ Len(SubSeq(w, m, n)) = IF m <= n THEN n - m + 1 ELSE 0
          /\ \A i \in 1..n - m + 1 : SubSeq(w, m, n)[i] = w[m + i - 1]
      BY <1>2, <2>1, SubSeqProperties
    <2>3. Len(SubSeq(w, m, n)) = Len(t)
      BY <1>2, <2>2
    <2>4. ASSUME NEW i \in 1..Len(t) PROVE SubSeq(w, m, n)[i] = t[i]
      <3>1. i \in 1..n - m + 1 /\ m + i - 1 = Len(s) + i
        BY <1>2
      <3>2. w[Len(s) + i] = t[i]
        BY <1>1, <1>2
      <3> QED
        BY <2>2, <3>1, <3>2
    <2> QED
      BY <2>2, <2>3, <2>4, SeqEqual
  <1> QED
    BY <1>3, <1>4 DEF w

\* Random bytes.
LEMMA RandomType ==
  ASSUME NEW n \in Nat, NEW T, Number(99) \in T
  PROVE  Random(n) \in Seq(T) /\ Len(Random(n)) = n /\ \A i \in 1..n : Random(n)[i] = Number(99)
  BY DEF Random

\* A block of four parts, and where to find each of them.
Joined(w, T, a, b, d, e, p, q, r, n) ==
    /\ a \in Seq(T) /\ b \in Seq(T) /\ d \in Seq(T) /\ e \in Seq(T)
    /\ w = ((a \o b) \o d) \o e
    /\ p = Len(a) /\ q = p + Len(b) /\ r = q + Len(d) /\ n = r + Len(e)
Parted(w, T, a, b, d, e, p, q, r, n) ==
    /\ w \in Seq(T) /\ Len(w) = n
    /\ SubSeq(w, 1, p) = a /\ SubSeq(w, p + 1, q) = b
    /\ SubSeq(w, q + 1, r) = d /\ SubSeq(w, r + 1, n) = e

LEMMA FourParts ==
  ASSUME NEW w, NEW T, NEW a, NEW b, NEW d, NEW e, NEW p, NEW q, NEW r, NEW n,
         Joined(w, T, a, b, d, e, p, q, r, n)
  PROVE  Parted(w, T, a, b, d, e, p, q, r, n)
  <1>1. PICK ab, abd : ab = a \o b /\ abd = ab \o d /\ w = abd \o e
    BY DEF Joined
  <1>2. /\ a \in Seq(T) /\ b \in Seq(T) /\ d \in Seq(T) /\ e \in Seq(T)
        /\ p = Len(a) /\ q = p + Len(b) /\ r = q + Len(d) /\ n = r + Len(e)
    BY DEF Joined
  <1>3. p \in Nat /\ q \in Nat /\ r \in Nat /\ p <= q /\ q <= r
    BY <1>2, LenProperties
  <1>4. ab \in Seq(T) /\ Len(ab) = q
    BY <1>1, <1>2, ConcatProperties
  <1>5. abd \in Seq(T) /\ Len(abd) = r
    BY <1>1, <1>2, <1>4, ConcatProperties
  <1>6. w \in Seq(T) /\ Len(w) = n
    BY <1>1, <1>2, <1>5, ConcatProperties
  <1>7. ASSUME NEW k \in Nat \ {0}, NEW l \in 0..r PROVE SubSeq(w, k, l) = SubSeq(abd, k, l)
    <2>1. l \in 0..Len(abd)
      BY <1>5
    <2>2. SubSeq(abd \o e, k, l) = SubSeq(abd, k, l)
      <3>1. abd \in Seq(T) /\ e \in Seq(T)
        BY <1>2, <1>5, Zenon
      <3>2. \A i \in Nat \ {0}, j \in 0..Len(abd) : SubSeq(abd \o e, i, j) = SubSeq(abd, i, j)
        BY <3>1, Parts
      <3> QED
        BY <2>1, <3>2, Zenon
    <2> QED
      BY <1>1, <2>2, Zenon
  <1>8. ASSUME NEW k \in Nat \ {0}, NEW l \in 0..q PROVE SubSeq(abd, k, l) = SubSeq(ab, k, l)
    <2>1. l \in 0..Len(ab)
      BY <1>4
    <2>2. SubSeq(ab \o d, k, l) = SubSeq(ab, k, l)
      <3>1. ab \in Seq(T) /\ d \in Seq(T)
        BY <1>2, <1>4, Zenon
      <3>2. \A i \in Nat \ {0}, j \in 0..Len(ab) : SubSeq(ab \o d, i, j) = SubSeq(ab, i, j)
        BY <3>1, Parts
      <3> QED
        BY <2>1, <3>2, Zenon
    <2> QED
      BY <1>1, <2>2, Zenon
  <1>9. ASSUME NEW k \in Nat \ {0}, NEW l \in 0..p PROVE SubSeq(ab, k, l) = SubSeq(a, k, l)
    BY <1>1, <1>2, Parts
  <1>10. SubSeq(w, r + 1, n) = e
    BY <1>1, <1>2, <1>5, Parts
  <1>11. /\ 1 \in Nat \ {0} /\ p + 1 \in Nat \ {0} /\ q + 1 \in Nat \ {0}
         /\ r \in 0..r /\ q \in 0..r /\ p \in 0..r /\ q \in 0..q /\ p \in 0..q /\ p \in 0..p
    BY <1>3
  <1>12. SubSeq(w, q + 1, r) = d
    <2>1. SubSeq(abd, q + 1, r) = d
      BY <1>1, <1>2, <1>4, Parts
    <2>2. SubSeq(w, q + 1, r) = SubSeq(abd, q + 1, r)
      BY <1>7, <1>11, Zenon
    <2> QED
      BY <2>1, <2>2, Zenon
  <1>13. SubSeq(w, p + 1, q) = b
    <2>1. SubSeq(ab, p + 1, q) = b
      BY <1>1, <1>2, Parts
    <2>2. SubSeq(w, p + 1, q) = SubSeq(abd, p + 1, q) /\ SubSeq(abd, p + 1, q) = SubSeq(ab, p + 1, q)
      BY <1>7, <1>8, <1>11, Zenon
    <2> QED
      BY <2>1, <2>2, Zenon
  <1>14. SubSeq(w, 1, p) = a
    <2>1. SubSeq(a, 1, p) = a
      BY <1>2, SubSeqFull
    <2>2. /\ SubSeq(w, 1, p) = SubSeq(abd, 1, p) /\ SubSeq(abd, 1, p) = SubSeq(ab, 1, p)
          /\ SubSeq(ab, 1, p) = SubSeq(a, 1, p)
      BY <1>7, <1>8, <1>9, <1>11, Zenon
    <2> QED
      BY <2>1, <2>2, Zenon
  <1> QED
    BY <1>6, <1>10, <1>12, <1>13, <1>14 DEF Parted

\* A key is parsed out of its block, and its block written from it.
LEMMA KeyParsed ==
  ASSUME NEW o \in Nat, NEW T, NEW key \in Seq(T), Len(key) = KeySize,
         Number(99) \in T, Number(o) \in T
  PROVE  LET at == Offset(o, KeyRoom)
             k  == key_parse(key_block(o, key))
         IN  /\ k = [offset |-> o, key |-> key, rest |-> <<Random(at), Random(KeyRoom - at)>>]
             /\ copy_key(k) = key_block(o, key)
             /\ copy_key(k) \in Seq(T) /\ Len(copy_key(k)) = BlockSize
  <1> DEFINE at == Offset(o, KeyRoom)
             a == Random(at)
             d == Random(KeyRoom - at)
             e == <<Number(o)>>
             w == ((a \o key) \o d) \o e
  <1>1. KeyRoom \in Nat /\ KeyRoom >= 1 /\ KeyRoom + KeySize + 1 = BlockSize /\ KeySize \in Nat
    BY HandshakeAssumption DEF KeyRoom
  <1>2. at \in 0..KeyRoom - 1
    BY <1>1 DEF Offset
  <1>3. e \in Seq(T) /\ Len(e) = 1 /\ e[1] = Number(o)
    OBVIOUS
  <1>4. a \in Seq(T) /\ Len(a) = at /\ d \in Seq(T) /\ Len(d) = KeyRoom - at
    <2> HIDE DEF at
    <2>1. at \in Nat /\ KeyRoom - at \in Nat /\ Number(99) \in T
      BY <1>1, <1>2
    <2> QED
      BY <2>1, RandomType
  <1>5. key_block(o, key) = w
    BY DEF key_block
  <1> HIDE DEF at, a, d, e
  <1>6. /\ w \in Seq(T) /\ Len(w) = BlockSize
        /\ SubSeq(w, 1, at) = a /\ SubSeq(w, at + 1, at + KeySize) = key
        /\ SubSeq(w, at + KeySize + 1, BlockSize - 1) = d /\ SubSeq(w, BlockSize, BlockSize) = e
    <2>1. at + KeySize + (KeyRoom - at) = BlockSize - 1 /\ BlockSize - 1 + 1 = BlockSize
      BY <1>1, <1>2
    <2>2. at = Len(a) /\ at + KeySize = at + Len(key) /\ BlockSize - 1 = at + KeySize + Len(d)
      BY <1>4, <2>1
    <2>3. BlockSize = BlockSize - 1 + Len(e)
      BY <1>3, HandshakeAssumption
    <2>4. Joined(w, T, a, key, d, e, at, at + KeySize, BlockSize - 1, BlockSize)
      BY <1>3, <1>4, <2>2, <2>3 DEF Joined
    <2> HIDE DEF w
    <2>5. /\ w \in Seq(T) /\ Len(w) = BlockSize
          /\ SubSeq(w, 1, at) = a /\ SubSeq(w, at + 1, at + KeySize) = key
          /\ SubSeq(w, at + KeySize + 1, BlockSize - 1) = d
          /\ SubSeq(w, BlockSize - 1 + 1, BlockSize) = e
      BY <2>4, FourParts DEF Parted
    <2> QED
      BY <2>1, <2>5
  <1>7. w[BlockSize] = Number(o) /\ w[BlockSize][1] = o
    <2>1. BlockSize \in Nat /\ BlockSize >= 1
      BY HandshakeAssumption
    <2>2. SubSeq(w, BlockSize, BlockSize)[1] = w[BlockSize]
      <3> HIDE DEF w
      <3> QED
        BY <1>6, <2>1
    <2> HIDE DEF w
    <2> QED
      BY <1>3, <1>6, <2>2 DEF Number
  <1>8. key_parse(w) = [offset |-> o, key |-> key, rest |-> <<a, d>>]
    <2> HIDE DEF w
    <2>1. Offset(w[BlockSize][1], KeyRoom) = at
      BY <1>7 DEF at
    <2> QED
      BY <1>6, <1>7, <2>1 DEF key_parse
  <1>9. copy_key([offset |-> o, key |-> key, rest |-> <<a, d>>]) = w
    BY DEF copy_key, e
  <1> QED
    BY <1>5, <1>6, <1>8, <1>9 DEF a, d, at

\* A digest is parsed out of its block, and its block written from it.
LEMMA DigestParsed ==
  ASSUME NEW o \in Nat, NEW T, NEW h \in T, Number(99) \in T, Number(o) \in T
  PROVE  LET at == Offset(o, DigestRoom)
             d  == digest_parse(digest_block(o, <<h>>))
         IN  /\ d = [offset |-> o, digest |-> h, rest |-> <<Random(at), Random(DigestRoom - at)>>]
             /\ copy_digest(d, TRUE) = digest_block(o, <<h>>)
             /\ copy_digest(d, TRUE) \in Seq(T) /\ Len(copy_digest(d, TRUE)) = BlockSize
  <1> DEFINE at == Offset(o, DigestRoom)
             a == <<Number(o)>>
             b == Random(at)
             d == <<h>>
             e == Random(DigestRoom - at)
             w == ((a \o b) \o d) \o e
  <1>1. DigestRoom \in Nat /\ DigestRoom >= 1 /\ DigestRoom + 2 = BlockSize
    BY HandshakeAssumption DEF DigestRoom
  <1>2. at \in 0..DigestRoom - 1
    BY <1>1 DEF Offset
  <1>3. a \in Seq(T) /\ Len(a) = 1 /\ a[1] = Number(o) /\ d \in Seq(T) /\ Len(d) = 1 /\ d[1] = h
    OBVIOUS
  <1>4. b \in Seq(T) /\ Len(b) = at /\ e \in Seq(T) /\ Len(e) = DigestRoom - at
    <2> HIDE DEF at
    <2>1. at \in Nat /\ DigestRoom - at \in Nat /\ Number(99) \in T
      BY <1>1, <1>2
    <2> QED
      BY <2>1, RandomType
  <1>5. digest_block(o, <<h>>) = w
    BY DEF digest_block
  <1> HIDE DEF at, a, b, d, e
  <1>6. /\ w \in Seq(T) /\ Len(w) = BlockSize
        /\ SubSeq(w, 1, 1) = a /\ SubSeq(w, 2, at + 1) = b
        /\ SubSeq(w, at + 2, at + 2) = d /\ SubSeq(w, at + 3, BlockSize) = e
    <2>1. /\ 1 + at = at + 1 /\ at + 1 + 1 = at + 2 /\ at + 2 + 1 = at + 3 /\ 1 + 1 = 2
          /\ at + 2 + (DigestRoom - at) = BlockSize
      BY <1>1, <1>2
    <2>2. 1 = Len(a) /\ at + 1 = 1 + Len(b) /\ at + 2 = at + 1 + Len(d) /\ BlockSize = at + 2 + Len(e)
      BY <1>3, <1>4, <2>1
    <2>3. Joined(w, T, a, b, d, e, 1, at + 1, at + 2, BlockSize)
      BY <1>3, <1>4, <2>2 DEF Joined
    <2> HIDE DEF w
    <2>4. Parted(w, T, a, b, d, e, 1, at + 1, at + 2, BlockSize)
      BY <2>3, FourParts, Zenon
    <2>5. /\ w \in Seq(T) /\ Len(w) = BlockSize
          /\ SubSeq(w, 1, 1) = a /\ SubSeq(w, 1 + 1, at + 1) = b
          /\ SubSeq(w, at + 1 + 1, at + 2) = d
          /\ SubSeq(w, at + 2 + 1, BlockSize) = e
      BY <2>4 DEF Parted
    <2> QED
      BY <2>1, <2>5
  <1>7. w[1] = Number(o) /\ w[1][1] = o /\ w[at + 2] = h
    <2>1. BlockSize \in Nat /\ at + 2 \in 1..BlockSize /\ 1 \in 1..BlockSize
      BY <1>1, <1>2
    <2>2. SubSeq(w, 1, 1)[1] = w[1] /\ SubSeq(w, at + 2, at + 2)[1] = w[at + 2]
      <3> HIDE DEF w
      <3> QED
        BY <1>6, <2>1
    <2> HIDE DEF w
    <2>3. w[1] = Number(o)
      BY <1>3, <1>6, <2>2
    <2>4. w[1][1] = o
      BY <2>3 DEF Number
    <2>5. w[at + 2] = h
      BY <1>3, <1>6, <2>2
    <2> QED
      BY <2>3, <2>4, <2>5
  <1>8. digest_parse(w) = [offset |-> o, digest |-> h, rest |-> <<b, e>>]
    <2> HIDE DEF w
    <2>1. Offset(w[1][1], DigestRoom) = at
      BY <1>7 DEF at
    <2> QED
      BY <1>6, <1>7, <2>1 DEF digest_parse
  <1>9. copy_digest([offset |-> o, digest |-> h, rest |-> <<b, e>>], TRUE) = w
    BY DEF copy_digest, a, d
  <1> QED
    BY <1>5, <1>6, <1>8, <1>9 DEF b, e, at

\* The two blocks behind the time and the version, and what is read of them.
Framed(w, T, tv, A, B) ==
    /\ tv \in Seq(T) /\ Len(tv) = 2 /\ A \in Seq(T) /\ Len(A) = BlockSize
    /\ B \in Seq(T) /\ Len(B) = BlockSize /\ w = (tv \o A) \o B

Reads(w, tv, A, B) == Block(w, 0) = A /\ Block(w, 1) = B /\ w[1] = tv[1] /\ w[2] = tv[2]

LEMMA Blocks ==
  ASSUME NEW T, NEW tv, NEW A, NEW B, NEW w, Framed(w, T, tv, A, B)
  PROVE  Reads(w, tv, A, B)
  <1>1. PICK a : a = tv \o A /\ w = a \o B
    BY DEF Framed
  <1>2. /\ tv \in Seq(T) /\ Len(tv) = 2 /\ A \in Seq(T) /\ Len(A) = BlockSize
        /\ B \in Seq(T) /\ Len(B) = BlockSize
    BY DEF Framed
  <1>3. BlockSize \in Nat
    BY HandshakeAssumption
  <1>4. /\ tv \o A \in Seq(T) /\ Len(tv \o A) = Len(tv) + Len(A)
        /\ \A k \in 1..Len(tv) + Len(A) : (tv \o A)[k] = IF k <= Len(tv) THEN tv[k] ELSE A[k - Len(tv)]
    BY <1>2, ConcatProperties
  <1>5. a \in Seq(T) /\ Len(a) = 2 + BlockSize
    BY <1>1, <1>2, <1>3, <1>4
  <1>6. ASSUME NEW i \in 1..2 PROVE w[i] = tv[i]
    <2>1. (tv \o A)[i] = tv[i]
      BY <1>2, <1>3, <1>4
    <2>2. (a \o B)[i] = a[i]
      <3>1. \A k \in 1..Len(a) + Len(B) : (a \o B)[k] = IF k <= Len(a) THEN a[k] ELSE B[k - Len(a)]
        BY <1>2, <1>5, ConcatProperties
      <3> QED
        BY <1>2, <1>3, <1>5, <3>1
    <2> QED
      BY <1>1, <2>1, <2>2
  <1>7. SubSeq(a, 3, 2 + BlockSize) = A
    <2>1. SubSeq(tv \o A, Len(tv) + 1, Len(tv) + Len(A)) = A
      BY <1>2, Parts
    <2>2. Len(tv) + 1 = 3 /\ Len(tv) + Len(A) = 2 + BlockSize
      BY <1>2
    <2> QED
      BY <1>1, <2>1, <2>2
  <1>8. SubSeq(w, 3, 2 + BlockSize) = A
    <2>1. SubSeq(a \o B, 3, 2 + BlockSize) = SubSeq(a, 3, 2 + BlockSize)
      <3>1. 3 \in Nat \ {0} /\ 2 + BlockSize \in 0..Len(a)
        BY <1>3, <1>5
      <3> QED
        BY <1>2, <1>5, <3>1, Parts
    <2> QED
      BY <1>1, <1>7, <2>1
  <1>9. SubSeq(w, 3 + BlockSize, 2 + 2 * BlockSize) = B
    <2>1. SubSeq(a \o B, Len(a) + 1, Len(a) + Len(B)) = B
      BY <1>2, <1>5, Parts
    <2>2. Len(a) + 1 = 3 + BlockSize /\ Len(a) + Len(B) = 2 + 2 * BlockSize
      BY <1>2, <1>3, <1>5
    <2> QED
      BY <1>1, <2>1, <2>2
  <1>10. /\ 3 + 0 * BlockSize = 3 /\ 2 + (0 + 1) * BlockSize = 2 + BlockSize
        /\ 3 + 1 * BlockSize = 3 + BlockSize /\ 2 + (1 + 1) * BlockSize = 2 + 2 * BlockSize
    BY <1>3
  <1>11. Block(w, 0) = A /\ Block(w, 1) = B
    BY <1>8, <1>9, <1>10 DEF Block
  <1>12. w[1] = tv[1] /\ w[2] = tv[2]
    BY <1>6
  <1> QED
    BY <1>11, <1>12 DEF Reads

\* What a sender signs (Written) verifies and is read back as it was written
\* (Verified).
Written(c, schema, version, offsets, S, key, fp) ==
    /\ schema \in {0, 1} /\ offsets \in Nat \X Nat
    /\ key \in Seq(S) /\ Len(key) = KeySize
    /\ c = Signed(Unsigned(schema, version, offsets, key), fp)
Verified(c, schema, offsets, key, fp) ==
    /\ parse(copy_to(c, TRUE), schema) = c
    /\ c.digest.digest = calc_digest(c, fp)
    /\ c.schema = schema /\ c.key.key = key
    /\ schema = 1 => Block(copy_to(c, TRUE), 1) = key_block(offsets[1], key)

LEMMA ReadBack ==
  ASSUME NEW c, NEW schema, NEW version, NEW offsets, NEW S, NEW key, NEW fp,
         Written(c, schema, version, offsets, S, key, fp)
  PROVE  Verified(c, schema, offsets, key, fp)
  <1>1. /\ schema \in {0, 1} /\ offsets \in Nat \X Nat
        /\ key \in Seq(S) /\ Len(key) = KeySize
        /\ c = Signed(Unsigned(schema, version, offsets, key), fp)
    BY DEF Written
  <1> DEFINE o1 == offsets[1]
             o2 == offsets[2]
             rest == <<Random(Offset(o2, DigestRoom)), Random(DigestRoom - Offset(o2, DigestRoom))>>
             D(h) == [offset |-> o2, digest |-> h, rest |-> rest]
             Rec(K, h) == [schema |-> schema, time |-> 7, version |-> version, key |-> K, digest |-> D(h)]
  <1>2. PICK K : K = key_parse(key_block(o1, key))
    OBVIOUS
  <1>3. o1 \in Nat /\ o2 \in Nat
    BY <1>1
  <1>4. PICK h : h = calc_digest(Rec(K, Number(99)), fp)
    OBVIOUS
  <1> DEFINE T == S \cup {Number(99), Number(o1), h, Number(o2), Number(7), Number(version)}
  <1> HIDE DEF o1, o2
  <1>5. key \in Seq(T) /\ Number(99) \in T /\ Number(o1) \in T /\ Number(o2) \in T /\ h \in T
        /\ Number(7) \in T /\ Number(version) \in T
    <2>1. S \subseteq T
      OBVIOUS
    <2>2. key \in Seq(T)
      <3> HIDE DEF T
      <3> QED
        BY <1>1, <2>1, SeqMonotonic
    <2> QED
      BY <2>2
  <1> HIDE DEF T
  <1>6. ASSUME NEW g \in T
        PROVE  /\ digest_parse(digest_block(o2, <<g>>)) = D(g)
               /\ copy_digest(D(g), TRUE) = digest_block(o2, <<g>>)
               /\ copy_digest(D(g), TRUE) \in Seq(T) /\ Len(copy_digest(D(g), TRUE)) = BlockSize
    <2>1. digest_parse(digest_block(o2, <<g>>)) = D(g)
      BY <1>3, <1>5, <1>6, DigestParsed
    <2>2. /\ copy_digest(digest_parse(digest_block(o2, <<g>>)), TRUE) = digest_block(o2, <<g>>)
          /\ copy_digest(digest_parse(digest_block(o2, <<g>>)), TRUE) \in Seq(T)
          /\ Len(copy_digest(digest_parse(digest_block(o2, <<g>>)), TRUE)) = BlockSize
      BY <1>3, <1>5, <1>6, DigestParsed
    <2> QED
      BY <2>1, <2>2
  <1>7. Random(1) = <<Number(99)>>
    BY DEF Random
  <1>8. /\ copy_key(K) = key_block(o1, key) /\ K.key = key
        /\ copy_key(K) \in Seq(T) /\ Len(copy_key(K)) = BlockSize
        /\ key_parse(copy_key(K)) = K
    <2>1. copy_key(K) = key_block(o1, key)
      BY <1>1, <1>2, <1>3, <1>5, KeyParsed
    <2>2. K.key = key
      BY <1>1, <1>2, <1>3, <1>5, KeyParsed
    <2>3. copy_key(K) \in Seq(T)
      BY <1>1, <1>2, <1>3, <1>5, KeyParsed
    <2>4. Len(copy_key(K)) = BlockSize
      BY <1>1, <1>2, <1>3, <1>5, KeyParsed
    <2> QED
      BY <1>2, <2>1, <2>2, <2>3, <2>4
  <1>9. Unsigned(schema, version, offsets, key) = Rec(K, Number(99))
    <2>1. digest_parse(digest_block(o2, Random(1))) = D(Number(99))
      BY <1>5, <1>6, <1>7
    <2> QED
      BY <1>2, <2>1 DEF Unsigned, o1, o2
  <1>10. c = Rec(K, h)
    <2>1. c = [Rec(K, Number(99)) EXCEPT !.digest.digest = h]
      BY <1>1, <1>9, <1>4 DEF Signed
    <2>2. [D(Number(99)) EXCEPT !.digest = h] = D(h)
      OBVIOUS
    <2> QED
      BY <2>1, <2>2
  <1> HIDE DEF rest
  <1>11. calc_digest(Rec(K, h), fp) = h
    BY <1>4 DEF calc_digest, copy_to, schema0_copy_to, schema1_copy_to, copy_time_version, copy_digest
  <1>12. /\ c.schema = schema /\ c.key = K /\ c.digest.digest = h /\ c.time = 7 /\ c.version = version
         /\ c.digest = D(h)
    BY <1>10
  <1>13. /\ parse(copy_to(c, TRUE), schema) = c
         /\ schema = 1 => Block(copy_to(c, TRUE), 1) = copy_key(K)
    <2> DEFINE A == copy_key(K)
               B == copy_digest(D(h), TRUE)
               tv == <<Number(7), Number(version)>>
    <2>1. A \in Seq(T) /\ B \in Seq(T) /\ Len(A) = BlockSize /\ Len(B) = BlockSize
      BY <1>5, <1>6, <1>8
    <2>2. tv \in Seq(T) /\ Len(tv) = 2 /\ tv[1][1] = 7 /\ tv[2][1] = version
      BY <1>5 DEF Number
    <2>3. key_parse(A) = K /\ digest_parse(B) = D(h)
      BY <1>5, <1>6, <1>8
    <2> HIDE DEF D
    <2>4. /\ schema0_copy_to(c, TRUE) = (tv \o A) \o B
          /\ schema1_copy_to(c, TRUE) = (tv \o B) \o A
      BY <1>12 DEF schema0_copy_to, schema1_copy_to, copy_time_version
    <2> HIDE DEF A, B, tv
    <2>5. CASE schema = 0
      <3>1. PICK w : w = schema0_copy_to(c, TRUE) /\ Framed(w, T, tv, A, B)
        BY <2>1, <2>2, <2>4 DEF Framed
      <3>2. Reads(w, tv, A, B)
        BY <3>1, Blocks, Zenon
      <3>3. Block(w, 0) = A /\ Block(w, 1) = B /\ w[1] = tv[1] /\ w[2] = tv[2]
        BY <3>2 DEF Reads
      <3>4. copy_to(c, TRUE) = w
        BY <1>12, <2>5, <3>1 DEF copy_to
      <3>5. parse(w, 0) = [schema |-> 0, time |-> 7, version |-> version, key |-> K, digest |-> D(h)]
        BY <2>2, <2>3, <3>3 DEF parse, schema0_parse
      <3>6. parse(copy_to(c, TRUE), schema) = c
        BY <1>10, <2>5, <3>4, <3>5
      <3>7. schema # 1
        BY <2>5
      <3> QED
        BY <3>6, <3>7
    <2>6. CASE schema = 1
      <3>1. PICK w : w = schema1_copy_to(c, TRUE) /\ Framed(w, T, tv, B, A)
        BY <2>1, <2>2, <2>4 DEF Framed
      <3>2. Reads(w, tv, B, A)
        BY <3>1, Blocks, Zenon
      <3>3. Block(w, 0) = B /\ Block(w, 1) = A /\ w[1] = tv[1] /\ w[2] = tv[2]
        BY <3>2 DEF Reads
      <3>4. copy_to(c, TRUE) = w
        BY <1>12, <2>6, <3>1 DEF copy_to
      <3>5. parse(w, 1) = [schema |-> 1, time |-> 7, version |-> version, key |-> K, digest |-> D(h)]
        BY <2>2, <2>3, <3>3 DEF parse, schema1_parse
      <3> QED
        BY <1>10, <2>6, <3>3, <3>4, <3>5 DEF A
    <2> QED
      BY <1>1, <2>5, <2>6
  <1> QED
    BY <1>10, <1>11, <1>12, <1>13, <1>8 DEF o1, Verified

\* c2 and s2 verify with the digest that they answer.
LEMMA SignedAnswer ==
  ASSUME NEW peer, NEW key
  PROVE  c2s2_validate(c2s2_create(peer, key), peer, key)
  <1> DEFINE N == C2S2Size - 1
             x == Hmac(Hmac(key, peer.digest.digest), Random(N))
             T == {x, Number(99)}
             s == Random(N)
             w == s \o <<x>>
  <1>1. N \in Nat /\ N + 1 = C2S2Size
    BY HandshakeAssumption DEF C2S2Size
  <1>2. Number(99) \in T /\ x \in T
    OBVIOUS
  <1> HIDE DEF N, T
  <1>3. s \in Seq(T) /\ Len(s) = N
    BY <1>1, <1>2, RandomType
  <1> HIDE DEF s, x
  <1>4. w \in Seq(T) /\ Len(w) = N + 1 /\ w[N + 1] = x
    BY <1>1, <1>2, <1>3
  <1>5. SubSeq(w, 1, N) = s
    <2>1. <<x>> \in Seq(T) /\ 1 \in Nat \ {0} /\ N \in 0..Len(s)
      BY <1>1, <1>2, <1>3
    <2>2. SubSeq(s \o <<x>>, 1, N) = SubSeq(s, 1, N)
      BY <1>3, <2>1, Parts
    <2>3. SubSeq(s, 1, N) = s
      BY <1>3, SubSeqFull
    <2> QED
      BY <2>2, <2>3
  <1>6. w = c2s2_create(peer, key)
    BY DEF c2s2_create, N, s, x
  <1> HIDE DEF w
  <1>7. Front(w) = s
    <2>1. Len(w) - 1 = N
      BY <1>1, <1>4
    <2> QED
      BY <1>5, <2>1 DEF Front
  <1>8. w[C2S2Size] = x
    BY <1>1, <1>4
  <1> QED
    BY <1>6, <1>7, <1>8 DEF c2s2_validate, s, x, N

\* A c1 of schema 1 shows no digest to schema 0: what is read there for one is
\* a field of the key block.
LEMMA OtherSchema ==
  ASSUME NEW o \in Nat \X Nat, NEW w, w = copy_to(c1_create(1, o, Random(KeySize)), TRUE)
  PROVE  ~c1_validate_digest(parse(w, 0))
  <1> DEFINE T == {Number(99), Number(o[1])}
             A == key_block(o[1], Random(KeySize))
             at == Offset(A[1][1], DigestRoom)
  <1>1. Random(KeySize) \in Seq(T) /\ Len(Random(KeySize)) = KeySize
    BY HandshakeAssumption, RandomType
  <1>2. A \in Seq(T) /\ Len(A) = BlockSize
    <2>1. o[1] \in Nat /\ Number(99) \in T /\ Number(o[1]) \in T
      OBVIOUS
    <2> HIDE DEF T
    <2> QED
      BY <1>1, <2>1, KeyParsed
  <1>3. Block(w, 1) = A
    <2> DEFINE c == c1_create(1, o, Random(KeySize))
    <2>1. Written(c, 1, 2, o, T, Random(KeySize), GenuineFPKey)
      BY <1>1 DEF Written, c1_create
    <2>2. Verified(c, 1, o, Random(KeySize), GenuineFPKey)
      BY <2>1, ReadBack, Zenon
    <2> QED
      BY <2>2 DEF Verified
  <1> HIDE DEF A
  <1>4. \A i \in 1..BlockSize : \E n \in Nat : A[i] = Number(n) /\ A[i][1] = n
    <2>1. \A t \in T : \E n \in Nat : t = Number(n) /\ t[1] = n
      BY DEF Number
    <2> HIDE DEF T
    <2> QED
      BY <1>2, <2>1, ElementOfSeq
  <1>5. at + 2 \in 1..BlockSize
    <2>1. BlockSize \in Nat /\ DigestRoom \in Nat /\ DigestRoom >= 1 /\ DigestRoom + 2 = BlockSize
          /\ 1 \in 1..BlockSize
      BY HandshakeAssumption DEF DigestRoom
    <2>2. A[1][1] \in Nat
      BY <1>4, <2>1
    <2>3. at \in 0..DigestRoom - 1
      BY <2>1, <2>2 DEF Offset
    <2> QED
      BY <2>1, <2>3
  <1>6. parse(w, 0).digest.digest = A[at + 2]
    BY <1>3 DEF parse, schema0_parse, digest_parse
  <1>7. PICK n \in Nat : A[at + 2] = Number(n)
    BY <1>4, <1>5
  <1>8. \A k, b : Number(n) # Hmac(k, b)
    BY DEF Number, Hmac
  <1> QED
    BY <1>6, <1>7, <1>8 DEF c1_validate_digest, calc_digest

\* A server that signs answers a c1 that is signed with an s1 that the client
\* can verify in the schema it chose.
LEMMA SignedHello ==
  ASSUME NEW schema \in {0, 1}, NEW o \in Nat \X Nat, NEW q \in Nat \X Nat, NEW c0c1,
         c0c1.c1 = copy_to(c1_create(schema, o, Random(KeySize)), TRUE)
  PROVE  s1_validate_digest(parse(ServerAnswer(TRUE, c0c1, q).s1, schema))
  <1> DEFINE w == c0c1.c1
             c1 == c1_create(schema, o, Random(KeySize))
             s1 == s1_create(c1, q)
  <1>1. PICK T : Random(KeySize) \in Seq(T) /\ Len(Random(KeySize)) = KeySize
    <2>1. Number(99) \in {Number(99)} /\ KeySize \in Nat
      BY HandshakeAssumption
    <2> QED
      BY <2>1, RandomType
  <1>2. parse(w, schema) = c1 /\ c1_validate_digest(c1) /\ c1.schema = schema
    <2>1. Written(c1, schema, 2, o, T, Random(KeySize), GenuineFPKey)
      BY <1>1 DEF Written, c1_create
    <2>2. Verified(c1, schema, o, Random(KeySize), GenuineFPKey)
      BY <2>1, ReadBack, Zenon
    <2> QED
      BY <2>2 DEF Verified, c1_validate_digest
  <1>3. schema \in Complex(w) /\ (schema = 1 => 0 \notin Complex(w))
    <2>1. schema \in Complex(w)
      BY <1>2 DEF Complex
    <2>2. schema = 1 => 0 \notin Complex(w)
      BY OtherSchema DEF Complex
    <2> QED
      BY <2>1, <2>2
  <1>4. parse(copy_to(s1, TRUE), schema) = s1 /\ s1_validate_digest(s1)
    <2> DEFINE key == copy_shared_key(c1.key.key)
               S == {Hmac("dh", c1.key.key[i]) : i \in 1..KeySize}
    <2>1. key \in Seq(S) /\ Len(key) = KeySize
      BY HandshakeAssumption DEF copy_shared_key
    <2>2. s1 = Signed(Unsigned(schema, 4, q, key), GenuineFMSKey)
      BY <1>2 DEF s1_create
    <2> HIDE DEF key, S, s1
    <2>3. Written(s1, schema, 4, q, S, key, GenuineFMSKey)
      BY <2>1, <2>2 DEF Written
    <2>4. Verified(s1, schema, q, key, GenuineFMSKey)
      BY <2>3, ReadBack, Zenon
    <2> QED
      BY <2>4 DEF Verified, s1_validate_digest
  <1> HIDE DEF c1, s1
  <1>5. /\ complex_answer(w, schema, q).ok
        /\ complex_answer(w, schema, q).s1 = copy_to(s1, TRUE)
    BY <1>2, <1>4, SignedAnswer DEF complex_answer, s1, s2_create
  <1>6. ServerAnswer(TRUE, c0c1, q) = complex_answer(w, schema, q)
    <2>1. Complex(w) # {} /\ (IF 0 \in Complex(w) THEN 0 ELSE 1) = schema
      BY <1>3
    <2> QED
      BY <1>5, <2>1 DEF ServerAnswer
  <1> QED
    BY <1>4, <1>5, <1>6

=============================================================================
