------------------------ MODULE ChunkProtocolProofs ------------------------
(***************************************************************************)
(* Theorems of ChunkProtocol, for any number of chunk streams and          *)
(* messages, any chunk sizes and every interleaving of chunks: the reader  *)
(* makes of the bytes what the publisher meant, and its acknowledgements   *)
(* follow.                                                                 *)
(*                                                                         *)
(* What is on its way is a number of whole chunks, so there is a history   *)
(* of the publisher from where the reader is to where the publisher is,    *)
(* one moment for each chunk.  The publisher adds to its end, and the      *)
(* reader, which knows at each moment what the publisher knew, drops its   *)
(* beginning.                                                              *)
(***************************************************************************)
EXTENDS ChunkProtocol, SequenceTheorems, TLAPS

-----------------------------------------------------------------------------
(* Arithmetic                                                              *)

\* A number has one remainder.
LEMMA ModUnique ==
  ASSUME NEW M \in Nat \ {0}, NEW q \in Int, NEW r \in 0..M - 1, NEW n \in Int, n = M * q + r
  PROVE  n % M = r
  <1> DEFINE p == n \div M
             s == n % M
  <1>1. p \in Int /\ s \in 0..M - 1 /\ n = M * p + s
    OBVIOUS
  <1> HIDE DEF p, s
  <1>2. \A j \in Int : j >= 1 => M * j >= M
    OBVIOUS
  <1>3. M * (p - q) = M * p - M * q /\ M * (q - p) = M * q - M * p
    BY <1>1
  <1>4. ~(p - q >= 1) /\ ~(q - p >= 1)
    BY <1>1, <1>2, <1>3
  <1>5. p = q
    BY <1>1, <1>4
  <1> QED
    BY <1>1, <1>5 DEF s

\* What of a sum or a product is left modulo n, and that this can be done twice.
LEMMA ModFacts ==
  ASSUME NEW M \in Nat \ {0}
  PROVE  /\ \A a \in Int : a % M \in 0..M - 1
         /\ \A a \in 0..M - 1 : a % M = a
         /\ \A x \in Int : (M * x) % M = 0
         /\ \A a, d \in Int : ((a % M) + d) % M = (a + d) % M
  <1>1. \A a \in Int : a % M \in 0..M - 1
    OBVIOUS
  <1>2. ASSUME NEW a \in 0..M - 1 PROVE a % M = a
    BY ModUnique
  <1>3. ASSUME NEW x \in Int PROVE (M * x) % M = 0
    <2>1. 0 \in 0..M - 1 /\ M * x \in Int /\ M * x = M * x + 0
      OBVIOUS
    <2> QED
      BY <2>1, ModUnique
  <1>4. ASSUME NEW a \in Int, NEW d \in Int PROVE ((a % M) + d) % M = (a + d) % M
    <2> DEFINE q == a \div M
               x == a % M
               p == (x + d) \div M
               r == (x + d) % M
    <2>1. q \in Int /\ x \in Int /\ a = M * q + x
      OBVIOUS
    <2> HIDE DEF x, q
    <2>2. p \in Int /\ r \in 0..M - 1 /\ x + d = M * p + r
      BY <2>1
    <2> HIDE DEF p, r
    <2>3. a + d = M * (q + p) + r
      <3>1. M * (q + p) = M * q + M * p
        BY <2>1, <2>2
      <3> QED
        BY <2>1, <2>2, <3>1
    <2>4. (a + d) % M = r
      <3>1. PICK k \in Int, n \in Int : k = q + p /\ n = a + d
        BY <2>1, <2>2
      <3>2. n = M * k + r
        BY <2>3, <3>1
      <3>3. n % M = r
        BY <2>2, <3>2, ModUnique
      <3> QED
        BY <3>1, <3>3
    <2> QED
      BY <2>4 DEF r, x
  <1> QED
    BY <1>1, <1>2, <1>3, <1>4

\* The least of two naturals.
LEMMA MinPair ==
  ASSUME NEW a \in Int, NEW b \in Int
  PROVE  Min({a, b}) = IF a <= b THEN a ELSE b
  BY DEF Min

-----------------------------------------------------------------------------
(* Sequences                                                               *)

\* Where the four parts of a chunk are in a wire that begins with it (Laid),
\* and in what is left behind the first (Behind).
Laid(w, U, B, H, X, D, rest) ==
    /\ B \in Seq(U) /\ H \in Seq(U) /\ X \in Seq(U) /\ D \in Seq(U) /\ rest \in Seq(U)
    /\ w = (((B \o H) \o X) \o D) \o rest
Behind(v, U, H, X, D, rest) ==
    /\ v \in Seq(U) /\ Len(v) = Len(H) + Len(X) + Len(D) + Len(rest)
    /\ \A i \in 1..Len(H) : v[i] = H[i]
    /\ \A i \in 1..Len(X) : v[Len(H) + i] = X[i]
    /\ Slice(v, Len(H) + Len(X), Len(D)) = D
    /\ \A i \in 1..Len(D) : v[Len(H) + Len(X) + i] = D[i]

\* What is laid out behind one another is found there.
LEMMA LaidOut ==
  ASSUME NEW w, NEW U, NEW B, NEW H, NEW X, NEW D, NEW rest, Laid(w, U, B, H, X, D, rest)
  PROVE  /\ w \in Seq(U) /\ Len(w) = Len(B) + Len(H) + Len(X) + Len(D) + Len(rest)
         /\ \A i \in 1..Len(B) : w[i] = B[i]
         /\ Behind(SubSeq(w, Len(B) + 1, Len(w)), U, H, X, D, rest)
         /\ Rest(w, Len(B) + Len(H) + Len(X) + Len(D)) = rest
  <1>1. /\ B \in Seq(U) /\ H \in Seq(U) /\ X \in Seq(U) /\ D \in Seq(U) /\ rest \in Seq(U)
    BY DEF Laid
  <1>2. PICK bh, bhx, bhxd : bh = B \o H /\ bhx = bh \o X /\ bhxd = bhx \o D /\ w = bhxd \o rest
    BY DEF Laid
  <1>3. PICK b, h, x, d, e : b = Len(B) /\ h = Len(H) /\ x = Len(X) /\ d = Len(D) /\ e = Len(rest)
    OBVIOUS
  <1>4. b \in Nat /\ h \in Nat /\ x \in Nat /\ d \in Nat /\ e \in Nat
    BY <1>1, <1>3, LenProperties
  <1>5. /\ bh \in Seq(U) /\ Len(bh) = b + h
        /\ \A i \in 1..b + h : bh[i] = IF i <= b THEN B[i] ELSE H[i - b]
    BY <1>1, <1>2, <1>3, ConcatProperties
  <1>6. /\ bhx \in Seq(U) /\ Len(bhx) = b + h + x
        /\ \A i \in 1..b + h + x : bhx[i] = IF i <= b + h THEN bh[i] ELSE X[i - (b + h)]
    BY <1>1, <1>2, <1>3, <1>5, ConcatProperties
  <1>7. /\ bhxd \in Seq(U) /\ Len(bhxd) = b + h + x + d
        /\ \A i \in 1..b + h + x + d : bhxd[i] = IF i <= b + h + x THEN bhx[i] ELSE D[i - (b + h + x)]
    BY <1>1, <1>2, <1>3, <1>6, ConcatProperties, SMTT(30)
  <1>8. /\ w \in Seq(U) /\ Len(w) = b + h + x + d + e
        /\ \A i \in 1..b + h + x + d + e :
              w[i] = IF i <= b + h + x + d THEN bhxd[i] ELSE rest[i - (b + h + x + d)]
    BY <1>1, <1>2, <1>3, <1>7, ConcatProperties, SMTT(30)
  <1>9. \A i \in 1..b : w[i] = B[i]
    BY <1>4, <1>5, <1>6, <1>7, <1>8
  <1>10. \A i \in 1..h : w[b + i] = H[i]
    BY <1>4, <1>5, <1>6, <1>7, <1>8
  <1>11. ASSUME NEW i \in 1..x PROVE w[b + h + i] = X[i]
    <2>1. b + h + i \in 1..b + h + x /\ b + h + i - (b + h) = i
      BY <1>4
    <2>2. bhx[b + h + i] = X[i]
      <3>1. PICK j : j = b + h + i
        OBVIOUS
      <3>2. j \in 1..b + h + x /\ j - (b + h) = i /\ ~(j <= b + h)
        BY <1>4, <3>1
      <3>3. \A k \in 1..b + h + x : bhx[k] = IF k <= b + h THEN bh[k] ELSE X[k - (b + h)]
        BY <1>6
      <3>4. bhx[j] = IF j <= b + h THEN bh[j] ELSE X[j - (b + h)]
        BY <3>2, <3>3
      <3>5. bhx[j] = X[j - (b + h)]
        BY <3>2, <3>4
      <3> QED
        BY <3>1, <3>2, <3>5
    <2>3. w[b + h + i] = bhxd[b + h + i] /\ bhxd[b + h + i] = bhx[b + h + i]
      BY <1>4, <1>7, <1>8, <2>1
    <2> QED
      BY <2>2, <2>3
  <1>12. \A i \in 1..d : w[b + h + x + i] = D[i]
    BY <1>4, <1>7, <1>8, SMTT(30)
  <1>13. \A i \in 1..Len(w) : w[i] \in U
    BY <1>8, ElementOfSeq
  <1>14. PICK v : v = SubSeq(w, b + 1, Len(w))
    OBVIOUS
  <1>15. /\ v \in Seq(U) /\ Len(v) = h + x + d + e
         /\ \A i \in 1..h + x + d + e : v[i] = w[b + i]
    <2>1. PICK m \in Int, n \in Int, k \in Nat :
            m = b + 1 /\ n = Len(w) /\ k = h + x + d + e /\ n - m + 1 = k /\ (m <= n <=> k >= 1)
      <3>1. PICK m \in Int, n \in Int, k \in Nat : m = b + 1 /\ n = b + h + x + d + e /\ k = h + x + d + e
        BY <1>4
      <3>2. n - m + 1 = k /\ (m <= n <=> k >= 1)
        BY <1>4, <3>1
      <3> QED
        BY <1>8, <3>1, <3>2
    <2>2. \A i \in m..n : w[i] \in U
      BY <1>4, <1>13, <2>1
    <2>3. /\ v \in Seq(U) /\ Len(v) = IF m <= n THEN n - m + 1 ELSE 0
          /\ \A i \in 1..n - m + 1 : v[i] = w[m + i - 1]
      BY <1>14, <2>1, <2>2, SubSeqProperties, SMTT(30)
    <2>4. \A i \in 1..k : m + i - 1 = b + i
      BY <1>4, <2>1
    <2>5. Len(v) = k /\ \A i \in 1..k : v[i] = w[b + i]
      BY <2>1, <2>3, <2>4
    <2> QED
      BY <2>1, <2>3, <2>5
  <1>16. /\ \A i \in 1..h : v[i] = H[i]
         /\ \A i \in 1..x : v[h + i] = X[i]
         /\ \A i \in 1..d : v[h + x + i] = D[i]
    <2>1. ASSUME NEW i \in 1..h PROVE v[i] = H[i]
      BY <1>4, <1>10, <1>15
    <2>2. ASSUME NEW i \in 1..x PROVE v[h + i] = X[i]
      <3>1. h + i \in 1..h + x + d + e /\ b + (h + i) = b + h + i
        BY <1>4
      <3> QED
        BY <1>11, <1>15, <3>1
    <2>3. ASSUME NEW i \in 1..d PROVE v[h + x + i] = D[i]
      <3>1. h + x + i \in 1..h + x + d + e /\ b + (h + x + i) = b + h + x + i
        BY <1>4
      <3> QED
        BY <1>12, <1>15, <3>1
    <2> QED
      BY <2>1, <2>2, <2>3
  <1>17. Slice(v, h + x, d) = D
    <2>1. PICK m \in Int, n \in Int : m = h + x + 1 /\ n = h + x + d /\ n - m + 1 = d /\ (m <= n <=> d >= 1)
      BY <1>4
    <2>2. PICK t : t = SubSeq(v, m, n)
      OBVIOUS
    <2>3. \A i \in m..n : v[i] \in U
      <3>1. m..n \subseteq 1..Len(v)
        BY <1>4, <1>15, <2>1
      <3> QED
        BY <1>15, <3>1, ElementOfSeq
    <2>4. /\ t \in Seq(U) /\ Len(t) = IF m <= n THEN n - m + 1 ELSE 0
          /\ \A i \in 1..n - m + 1 : t[i] = v[m + i - 1]
      BY <2>2, <2>3, SubSeqProperties
    <2>5. \A i \in 1..d : m + i - 1 = h + x + i
      BY <1>4, <2>1
    <2>6. Len(t) = d /\ \A i \in 1..d : t[i] = D[i]
      BY <1>4, <1>16, <2>1, <2>4, <2>5
    <2>7. t = D
      BY <1>1, <1>3, <2>4, <2>6, SeqEqual
    <2> QED
      BY <2>1, <2>2, <2>7 DEF Slice
  <1>18. Rest(w, b + h + x + d) = rest
    <2> DEFINE k == b + h + x + d
    <2>1. k \in Nat
      BY <1>4
    <2>2. PICK t : t = SubSeq(w, k + 1, Len(w))
      OBVIOUS
    <2> HIDE DEF k
    <2>3. Len(w) = k + e /\ \A i \in k + 1..Len(w) : w[i] \in U
      <3>1. Len(w) = k + e
        BY <1>8 DEF k
      <3> QED
        BY <1>4, <1>13, <2>1, <3>1
    <2>4. /\ t \in Seq(U) /\ Len(t) = IF k + 1 <= Len(w) THEN Len(w) - (k + 1) + 1 ELSE 0
          /\ \A i \in 1..Len(w) - (k + 1) + 1 : t[i] = w[k + 1 + i - 1]
      BY <1>4, <2>1, <2>2, <2>3, SubSeqProperties
    <2>5. Len(t) = e /\ \A i \in 1..e : t[i] = w[k + i]
      <3>1. Len(w) - (k + 1) + 1 = e /\ \A i \in 1..e : k + 1 + i - 1 = k + i
        BY <1>4, <2>1, <2>3
      <3> QED
        BY <1>4, <2>1, <2>3, <2>4, <3>1
    <2>6. ASSUME NEW i \in 1..e PROVE w[k + i] = rest[i]
      <3>1. w[k + i] = IF k + i <= k THEN bhxd[k + i] ELSE rest[k + i - k]
        BY <1>4, <1>8, <2>1 DEF k
      <3> QED
        BY <1>4, <2>1, <3>1
    <2>7. t = rest
      BY <1>1, <1>3, <2>4, <2>5, <2>6, SeqEqual
    <2> QED
      BY <2>2, <2>7 DEF Rest, k
  <1>19. Behind(v, U, H, X, D, rest)
    BY <1>3, <1>15, <1>16, <1>17 DEF Behind
  <1> QED
    BY <1>3, <1>8, <1>9, <1>14, <1>18, <1>19

-----------------------------------------------------------------------------
(* A chunk is read as it was written                                       *)

\* The basic header.
LEMMA BasicRead ==
  ASSUME NEW fmt \in 0..3, NEW cid \in Nat, cid > 1, NEW w,
         \A i \in 1..Len(BasicHeader(fmt, cid)) : w[i] = BasicHeader(fmt, cid)[i]
  PROVE  /\ BasicHeader(fmt, cid) \in Seq(Nat) /\ Len(BasicHeader(fmt, cid)) \in Nat \ {0}
         /\ read_basic_header(w) = <<fmt, cid, Len(BasicHeader(fmt, cid))>>
  <1>1. PICK B : B = BasicHeader(fmt, cid)
    OBVIOUS
  <1> DEFINE Begins == \A i \in 1..Len(B) : w[i] = B[i]
  <1>2. Begins
    BY <1>1
  <1> HIDE DEF Begins
  <1> SUFFICES B \in Seq(Nat) /\ Len(B) \in Nat \ {0} /\ read_basic_header(w) = <<fmt, cid, Len(B)>>
    BY <1>1
  <1>3. CASE cid < 64
    <2>1. B = <<64 * fmt + cid>>
      BY <1>1, <1>3 DEF BasicHeader
    <2>2. w[1] = 64 * fmt + cid
      BY <1>2, <2>1 DEF Begins
    <2>3. w[1] \div 64 = fmt /\ w[1] % 64 = cid
      BY <1>3, <2>2
    <2> QED
      BY <2>1, <2>3 DEF read_basic_header
  <1>4. CASE cid >= 64 /\ cid < 320
    <2>1. B = <<64 * fmt, cid - 64>>
      BY <1>1, <1>4 DEF BasicHeader
    <2>2. w[1] = 64 * fmt /\ w[2] = cid - 64
      BY <1>2, <2>1 DEF Begins
    <2>3. w[1] \div 64 = fmt /\ w[1] % 64 = 0 /\ 64 + w[2] = cid
      BY <2>2
    <2> QED
      BY <1>4, <2>1, <2>3 DEF read_basic_header
  <1>5. CASE cid >= 320
    <2>1. B = <<64 * fmt + 1, (cid - 64) % 256, (cid - 64) \div 256>>
      BY <1>1, <1>5 DEF BasicHeader
    <2>2. w[1] = 64 * fmt + 1 /\ w[2] = (cid - 64) % 256 /\ w[3] = (cid - 64) \div 256
      BY <1>2, <2>1 DEF Begins
    <2>3. w[1] \div 64 = fmt /\ w[1] % 64 = 1 /\ 64 + w[2] + 256 * w[3] = cid
      BY <1>5, <2>2
    <2>4. (cid - 64) % 256 \in Nat /\ (cid - 64) \div 256 \in Nat
      BY <1>5
    <2> QED
      BY <2>1, <2>3, <2>4 DEF read_basic_header
  <1> QED
    BY <1>3, <1>4, <1>5

\* A message of the publisher: media that spell no timestamp, or a control
\* message of one unit.
Stamped(m) == [m EXCEPT !.ts = @ % TimeMod]
Plain(m) == \A i \in 1..Len(m.payload) : m.payload[i] % TimeMod = 0
MessageOk(m) ==
    /\ \E cid \in AllCids, type \in Nat, sid \in {0, PlayerSid}, ts \in Nat, payload \in Seq(Nat) \ {<<>>} :
          m = Message(cid, type, sid, ts, payload)
    /\ m.ts >= ExtTime => m.ts % TimeMod # 0
    /\ \/ m.type \in {MsgAudio, MsgVideo} /\ Plain(m)
       \/ /\ m.ts = 0 /\ m.sid = 0 /\ m.cid = CidProtocolControl /\ Len(m.payload) = 1
          /\ \/ m.type = MsgSetChunkSize /\ m.payload[1] >= MinChunk
             \/ m.type = MsgWindowAckSize

\* What the publisher knows of a chunk stream.
StreamType(A) == [started : A, ts : A, delta : A, msg : A, left : A, extended : A]
IsStream(s) == \E A : s \in StreamType(A)
StreamOk(cid, s) ==
    /\ s.started \in BOOLEAN
    /\ ~s.started => s = NewStream
    /\ s.started =>
          /\ IsStream(s) /\ MessageOk(s.msg) /\ s.msg.cid = cid
          /\ s.ts = s.msg.ts /\ s.delta \in Nat /\ s.extended \in BOOLEAN
          /\ s.left \in Seq(Nat) /\ Len(s.left) <= Len(s.msg.payload)
          /\ s.extended => s.msg.ts >= ExtTime /\ Plain(s.msg)
          /\ s.extended => \A i \in 1..Len(s.left) : s.left[i] % TimeMod = 0

\* What the reader knows of it once it has read the header of the message
\* that the publisher has begun, and what both have got done of its payload.
HeaderKnown(k, s) ==
    /\ k.msg_count \in Nat \ {0}
    /\ k.ts = s.msg.ts % TimeMod /\ k.ext = s.extended
    /\ k.len = Len(s.msg.payload) /\ k.type = s.msg.type /\ k.sid = s.msg.sid
    /\ s.msg.ts < ExtTime => k.delta = s.delta
PayloadKnown(k, s) ==
    /\ k.partial \in Seq(Nat)
    /\ k.partial \o s.left = s.msg.payload

\* A chunk stream that the reader knows as the publisher does.
ChunkType(A) ==
    [open : A, partial : A, ext : A, msg_count : A, ts : A, delta : A, len : A, type : A, sid : A]
IsChunk(k) == \E A : k \in ChunkType(A)
Agree(k, s) ==
    /\ IsChunk(k)
    /\ ~s.started => k.msg_count = 0 /\ ~k.open /\ k.partial = <<>> /\ k.ts = 0 /\ k.sid = 0
    /\ s.started => /\ HeaderKnown(k, s)
                    /\ k.open = (s.left # <<>>)
                    /\ IF s.left = <<>> THEN k.partial = <<>> ELSE PayloadKnown(k, s)

\* The stream as it is once the publisher has written the header of m, and
\* when it has written n more of the payload.
Opened(s, m, fmt) ==
    [started |-> TRUE, ts |-> m.ts, delta |-> IF fmt = 0 THEN m.ts ELSE m.ts - s.ts,
     msg |-> m, left |-> m.payload, extended |-> fmt = 0 /\ m.ts >= ExtTime]
Cut(s, n) == [s EXCEPT !.left = Rest(@, n)]

\* The parts of the first chunk of a message behind its basic header.
Time(s, m, fmt) == IF fmt = 0 THEN m.ts ELSE m.ts - s.ts
HeadOf(s, m, fmt) ==
    Slice(<<Min({Time(s, m, fmt), ExtTime}), Len(m.payload), m.type, m.sid>>, 0, MessageHeaderSize[fmt + 1])
ExtensionOf(s, m, fmt) == IF fmt = 0 THEN Extension(Time(s, m, fmt)) ELSE <<>>

\* The fields that a format has.
LEMMA HeadFields ==
  ASSUME NEW s, NEW m, NEW fmt \in 0..3
  PROVE  LET H == HeadOf(s, m, fmt)
         IN  /\ Len(H) = MessageHeaderSize[fmt + 1] /\ Len(H) \in 0..4
             /\ fmt \in {0, 1, 2} => Len(H) >= 1 /\ H[1] = Min({Time(s, m, fmt), ExtTime})
             /\ fmt \in {0, 1} => Len(H) >= 3 /\ H[2] = Len(m.payload) /\ H[3] = m.type
             /\ fmt = 0 => Len(H) = 4 /\ H[4] = m.sid
  <1> DEFINE t == Min({Time(s, m, fmt), ExtTime})
             l == Len(m.payload)
             q == <<t, l, m.type, m.sid>>
  <1>1. PICK n \in 0..4 : n = MessageHeaderSize[fmt + 1]
    BY DEF MessageHeaderSize
  <1>2. PICK H : H = SubSeq(q, 1, n)
    OBVIOUS
  <1>3. H = HeadOf(s, m, fmt)
    <2>1. 0 + 1 = 1 /\ 0 + n = n
      OBVIOUS
    <2> QED
      BY <1>1, <1>2, <2>1 DEF HeadOf, Slice
  <1>4. q[1] = t /\ q[2] = l /\ q[3] = m.type /\ q[4] = m.sid
    OBVIOUS
  <1> HIDE DEF q, t, l
  <1>5. Len(H) = n /\ \A i \in 1..n : H[i] = q[i]
    <2>1. PICK S : \A i \in 1..n : q[i] \in S
      <3>1. \A i \in 1..n : q[i] \in {t, l, m.type, m.sid}
        BY <1>4
      <3> QED
        BY <3>1
    <2>2. /\ Len(H) = IF 1 <= n THEN n - 1 + 1 ELSE 0
          /\ \A i \in 1..n - 1 + 1 : H[i] = q[1 + i - 1]
      BY <1>2, <2>1, SubSeqProperties
    <2> QED
      BY <2>2
  <1>6. (fmt = 0 => n = 4) /\ (fmt = 1 => n = 3) /\ (fmt = 2 => n = 1)
    BY <1>1 DEF MessageHeaderSize
  <1>7. /\ n >= 1 => H[1] = t
        /\ n >= 3 => H[2] = l /\ H[3] = m.type
        /\ n = 4 => H[4] = m.sid
    BY <1>4, <1>5
  <1>8. fmt \in {0, 1, 2} => n >= 1
    BY <1>6
  <1>9. fmt \in {0, 1} => n >= 3
    BY <1>6
  <1> QED
    BY <1>1, <1>3, <1>5, <1>6, <1>7, <1>8, <1>9 DEF t, l

\* What the reader makes of a header, field by field.
FieldsOf(h, k, fmt, v) ==
    /\ IsChunk(h)
    /\ h.open = k.open /\ h.partial = k.partial /\ h.msg_count = k.msg_count
    /\ fmt \in {0, 1, 2} /\ v[1] >= ExtTime => h.ext = TRUE
    /\ fmt \in {0, 1, 2} /\ ~(v[1] >= ExtTime) => h.ext = FALSE
    /\ fmt = 3 => h.ext = k.ext
    /\ h.ext => h.ts = k.ts
    /\ ~h.ext /\ fmt = 0 => h.ts = v[1]
    /\ ~h.ext /\ fmt \in {1, 2} => h.ts = k.ts + v[1]
    /\ ~h.ext /\ fmt = 3 => h.ts = IF k.open THEN k.ts ELSE k.ts + k.delta
    /\ h.delta = IF fmt \in {0, 1, 2} THEN v[1] ELSE k.delta
    /\ h.len = IF fmt \in {0, 1} THEN v[2] ELSE k.len
    /\ h.type = IF fmt \in {0, 1} THEN v[3] ELSE k.type
    /\ h.sid = IF fmt = 0 THEN v[4] ELSE k.sid

\* HeaderFields does that, in each of the four formats.
LEMMA FieldsRead ==
  ASSUME NEW k, IsChunk(k), NEW fmt \in 0..3, NEW v, fmt # 3 => v[1] \in Int
  PROVE  FieldsOf(HeaderFields(k, fmt, v), k, fmt, v)
  <1>1. PICK A : k \in ChunkType(A)
    BY DEF IsChunk
  <1>2. PICK e : e = IF fmt <= 2 THEN v[1] >= ExtTime ELSE k.ext
    OBVIOUS
  <1>3. PICK u : u = CASE e -> k.ts
                       [] ~e /\ fmt = 0 -> v[1]
                       [] ~e /\ fmt \in {1, 2} -> k.ts + v[1]
                       [] OTHER -> IF k.open THEN k.ts ELSE k.ts + k.delta
    OBVIOUS
  <1>4. PICK h : h = HeaderFields(k, fmt, v)
    OBVIOUS
  <1>5. PICK d, l, y, i : /\ d = IF fmt <= 2 THEN v[1] ELSE k.delta
                          /\ l = IF fmt <= 1 THEN v[2] ELSE k.len
                          /\ y = IF fmt <= 1 THEN v[3] ELSE k.type
                          /\ i = IF fmt = 0 THEN v[4] ELSE k.sid
    OBVIOUS
  <1>6. h = [k EXCEPT !.ext = e, !.ts = u, !.delta = d, !.len = l, !.type = y, !.sid = i]
    BY <1>2, <1>3, <1>4, <1>5, Zenon DEF HeaderFields
  <1>7. /\ IsChunk(h)
        /\ h.open = k.open /\ h.partial = k.partial /\ h.msg_count = k.msg_count
        /\ h.ext = e /\ h.ts = u /\ h.delta = d /\ h.len = l /\ h.type = y /\ h.sid = i
    <2>1. PICK C : C = A \cup {e, u, d, l, y, i}
      OBVIOUS
    <2>2. k \in ChunkType(C) /\ e \in C /\ u \in C /\ d \in C /\ l \in C /\ y \in C /\ i \in C
      BY <1>1, <2>1 DEF ChunkType
    <2>3. /\ h \in ChunkType(C)
          /\ h.open = k.open /\ h.partial = k.partial /\ h.msg_count = k.msg_count
          /\ h.ext = e /\ h.ts = u /\ h.delta = d /\ h.len = l /\ h.type = y /\ h.sid = i
      BY <1>6, <2>2 DEF ChunkType
    <2> QED
      BY <2>3 DEF IsChunk
  <1>8. /\ e => u = k.ts
        /\ ~e /\ fmt = 0 => u = v[1]
        /\ ~e /\ fmt \in {1, 2} => u = k.ts + v[1]
        /\ ~e /\ fmt = 3 => u = IF k.open THEN k.ts ELSE k.ts + k.delta
    BY <1>3
  <1>9. (fmt <= 2 <=> fmt \in {0, 1, 2}) /\ (fmt <= 1 <=> fmt \in {0, 1})
    OBVIOUS
  <1>10. /\ fmt \in {0, 1, 2} /\ v[1] >= ExtTime => e = TRUE
         /\ fmt \in {0, 1, 2} /\ ~(v[1] >= ExtTime) => e = FALSE
         /\ fmt = 3 => e = k.ext
    <2>1. CASE fmt = 3
      BY <1>2, <2>1
    <2>2. CASE fmt # 3
      <3>1. v[1] \in Int /\ ExtTime \in Int /\ fmt <= 2
        BY <2>2, ChunkStreamAssumption
      <3>2. e = (v[1] >= ExtTime)
        BY <1>2, <3>1
      <3>3. (v[1] >= ExtTime) \in BOOLEAN
        BY <3>1
      <3>4. (v[1] >= ExtTime => e = TRUE) /\ (~(v[1] >= ExtTime) => e = FALSE)
        BY <3>2, <3>3, Zenon
      <3> QED
        BY <2>2, <3>4
    <2> QED
      BY <2>1, <2>2
  <1>11. FieldsOf(h, k, fmt, v)
    BY <1>5, <1>7, <1>8, <1>9, <1>10 DEF FieldsOf
  <1> QED
    BY <1>4, <1>11

\* The chunk stream once the header is read, fields being h.
HeaderOf(head, h, k, fmt, v) ==
    LET size == MessageHeaderSize[fmt + 1]
        time == v[size + 1] % TimeMod
        none == k.open /\ h.ts > 0 /\ h.ts # time
        c    == head.chunk
    IN  /\ head.size = IF h.ext /\ ~none THEN size + 1 ELSE size
        /\ IsChunk(c)
        /\ c.open = TRUE /\ c.partial = k.partial /\ c.msg_count = k.msg_count + 1
        /\ c.ts = (IF h.ext /\ ~none THEN time ELSE h.ts) % TimeMod
        /\ c.ext = h.ext /\ c.delta = h.delta /\ c.len = h.len /\ c.type = h.type /\ c.sid = h.sid

\* read_message_header does that.
LEMMA HeaderRead ==
  ASSUME NEW k, IsChunk(k), NEW fmt \in 0..3, NEW v, fmt # 3 => v[1] \in Int
  PROVE  HeaderOf(read_message_header(k, fmt, v), HeaderFields(k, fmt, v), k, fmt, v)
  <1>1. PICK h : h = HeaderFields(k, fmt, v)
    OBVIOUS
  <1>2. FieldsOf(h, k, fmt, v)
    BY <1>1, FieldsRead
  <1>3. IsChunk(h) /\ h.partial = k.partial /\ h.msg_count = k.msg_count
    BY <1>2 DEF FieldsOf
  <1>4. PICK A : h \in ChunkType(A)
    BY <1>3 DEF IsChunk
  <1>5. PICK size, time : size = MessageHeaderSize[fmt + 1] /\ time = v[size + 1] % TimeMod
    OBVIOUS
  <1>6. PICK none \in BOOLEAN : none = (k.open /\ h.ts > 0 /\ h.ts # time)
    OBVIOUS
  <1>7. PICK ts, n : ts = (IF h.ext /\ ~none THEN time ELSE h.ts) % TimeMod /\ n = h.msg_count + 1
    OBVIOUS
  <1>8. PICK c : c = [h EXCEPT !.open = TRUE, !.ts = ts, !.msg_count = n]
    OBVIOUS
  <1>9. read_message_header(k, fmt, v) =
          [chunk |-> c, size |-> IF h.ext /\ ~none THEN size + 1 ELSE size]
    BY <1>1, <1>5, <1>6, <1>7, <1>8, Zenon DEF read_message_header
  <1>10. /\ IsChunk(c) /\ c.open = TRUE /\ c.partial = k.partial /\ c.msg_count = k.msg_count + 1
         /\ c.ts = ts /\ c.ext = h.ext /\ c.delta = h.delta /\ c.len = h.len
         /\ c.type = h.type /\ c.sid = h.sid
    <2>1. PICK C : C = A \cup {TRUE, ts, n}
      OBVIOUS
    <2>2. h \in ChunkType(C) /\ TRUE \in C /\ ts \in C /\ n \in C
      BY <1>4, <2>1 DEF ChunkType
    <2>3. /\ c \in ChunkType(C) /\ c.open = TRUE /\ c.partial = h.partial /\ c.msg_count = n
          /\ c.ts = ts /\ c.ext = h.ext /\ c.delta = h.delta /\ c.len = h.len
          /\ c.type = h.type /\ c.sid = h.sid
      BY <1>8, <2>2 DEF ChunkType
    <2> QED
      BY <1>3, <1>7, <2>3 DEF IsChunk
  <1>11. HeaderOf(read_message_header(k, fmt, v), h, k, fmt, v)
    <2>1. PICK head : head = read_message_header(k, fmt, v)
      OBVIOUS
    <2>2. head.chunk = c /\ head.size = IF h.ext /\ ~none THEN size + 1 ELSE size
      BY <1>9, <2>1
    <2>3. HeaderOf(head, h, k, fmt, v)
      BY <1>5, <1>6, <1>7, <1>10, <2>2, Zenon DEF HeaderOf
    <2> QED
      BY <2>1, <2>3
  <1> QED
    BY <1>1, <1>11

\* What a message of the publisher is made of.
LEMMA MessageFacts ==
  ASSUME NEW m, MessageOk(m)
  PROVE  /\ m.cid \in AllCids /\ m.type \in Nat /\ m.sid \in {0, PlayerSid} /\ m.ts \in Nat
         /\ m.payload \in Seq(Nat) /\ Len(m.payload) \in Nat \ {0}
         /\ m = Message(m.cid, m.type, m.sid, m.ts, m.payload)
  <1>1. PICK cid \in AllCids, type \in Nat, sid \in {0, PlayerSid}, ts \in Nat, payload \in Seq(Nat) \ {<<>>} :
          m = Message(cid, type, sid, ts, payload)
    BY DEF MessageOk
  <1>2. Len(payload) \in Nat \ {0}
    BY EmptySeq, LenProperties
  <1> QED
    BY <1>1, <1>2 DEF Message

\* What is delivered of it differs in the timestamp only.
LEMMA StampedMessage ==
  ASSUME NEW m, MessageOk(m)
  PROVE  Stamped(m) = Message(m.cid, m.type, m.sid, m.ts % TimeMod, m.payload)
  <1>1. PICK i, y, d, t, p : i = m.cid /\ y = m.type /\ d = m.sid /\ t = m.ts /\ p = m.payload
    OBVIOUS
  <1>2. m = Message(i, y, d, t, p)
    BY <1>1, MessageFacts
  <1>3. [m EXCEPT !.ts = t % TimeMod] = Message(i, y, d, t % TimeMod, p)
    BY <1>2 DEF Message
  <1> QED
    BY <1>1, <1>3 DEF Stamped

\* What the formats mean.
LEMMA FormatFacts ==
  ASSUME NEW cid \in AllCids, NEW s, StreamOk(cid, s), NEW m, MessageOk(m), m.cid = cid,
         NEW fmt \in Formats(s, m)
  PROVE  /\ fmt \in 0..3 /\ s.ts \in Nat
         /\ fmt # 0 => Time(s, m, fmt) \in 0..ExtTime - 1 /\ (s.started => m.sid = s.msg.sid)
         /\ fmt # 0 /\ ~s.started => fmt = 1 /\ cid = CidProtocolControl /\ m.sid = 0 /\ s.ts = 0
         /\ fmt \in {2, 3} => s.started /\ m.type = s.msg.type /\ Len(m.payload) = Len(s.msg.payload)
         /\ fmt = 3 => Time(s, m, fmt) = s.delta /\ s.msg.ts < ExtTime
  <1>1. s.started \in BOOLEAN /\ s.ts \in Nat /\ (~s.started => s.ts = 0)
    <2>1. CASE s.started
      BY <2>1, MessageFacts DEF StreamOk
    <2>2. CASE ~s.started
      BY <2>2 DEF StreamOk, NewStream
    <2> QED
      BY <2>1, <2>2 DEF StreamOk
  <1>2. m.ts \in Nat /\ ExtTime \in Nat \ {0}
    BY MessageFacts, ChunkStreamAssumption
  <1>3. PICK delta \in Int : delta = m.ts - s.ts
    BY <1>1, <1>2
  <1>4. PICK near, alike \in BOOLEAN :
          /\ near = (s.started /\ delta \in 0..(ExtTime - 1) /\ m.sid = s.msg.sid)
          /\ alike = (near /\ m.type = s.msg.type /\ Len(m.payload) = Len(s.msg.payload))
    OBVIOUS
  <1>5. \/ fmt = 0
        \/ fmt = 1 /\ (near \/ (~s.started /\ m.cid = CidProtocolControl /\ m.ts < ExtTime /\ m.sid = 0))
        \/ fmt = 2 /\ alike
        \/ fmt = 3 /\ alike /\ delta = s.delta /\ s.msg.ts < ExtTime
    BY <1>3, <1>4, Zenon DEF Formats
  <1>6. fmt # 0 => Time(s, m, fmt) = delta
    BY <1>3 DEF Time
  <1>7. fmt \in 0..3
    BY <1>5
  <1>8. near => s.started /\ delta \in 0..(ExtTime - 1) /\ m.sid = s.msg.sid
    BY <1>4
  <1>9. alike => near /\ m.type = s.msg.type /\ Len(m.payload) = Len(s.msg.payload)
    BY <1>4
  <1>10. ~s.started => delta = m.ts
    BY <1>1, <1>2, <1>3
  <1>11. fmt # 0 => near \/ (fmt = 1 /\ ~s.started /\ m.cid = CidProtocolControl /\ m.ts < ExtTime /\ m.sid = 0)
    BY <1>5, <1>9
  <1>12. fmt # 0 => delta \in 0..ExtTime - 1
    BY <1>2, <1>8, <1>10, <1>11
  <1>13. fmt \in {2, 3} => alike
    BY <1>5
  <1>14. fmt = 3 => delta = s.delta /\ s.msg.ts < ExtTime
    BY <1>5
  <1> QED
    BY <1>1, <1>6, <1>7, <1>8, <1>9, <1>11, <1>12, <1>13, <1>14

\* What reading a header comes to: it is not refused and not cut short, it is
\* size units long, and the stream s is known as the publisher knows it.
HeaderDone(k, cid, fmt, v, size, s) ==
    LET head == read_message_header(k, fmt, v)
    IN  /\ ~HeaderRefused(k, cid, fmt, v)
        /\ ~(Len(v) < MessageHeaderSize[fmt + 1])
        /\ ~(HeaderFields(k, fmt, v).ext /\ Len(v) = MessageHeaderSize[fmt + 1])
        /\ head.size = size /\ IsChunk(head.chunk)
        /\ head.chunk.open = TRUE /\ head.chunk.partial = k.partial
        /\ HeaderKnown(head.chunk, s)

\* The header of the first chunk of a message, read where the reader knows the
\* chunk stream as the publisher does.
LEMMA FirstHeader ==
  ASSUME NEW cid \in AllCids, NEW s, StreamOk(cid, s), s.left = <<>>, NEW m, MessageOk(m), m.cid = cid,
         NEW fmt \in Formats(s, m), NEW k, Agree(k, s),
         NEW U, NEW v, NEW D, NEW rest, Behind(v, U, HeadOf(s, m, fmt), ExtensionOf(s, m, fmt), D, rest),
         Len(D) \in Nat, Len(rest) \in Nat
  PROVE  HeaderDone(k, cid, fmt, v, Len(HeadOf(s, m, fmt)) + Len(ExtensionOf(s, m, fmt)), Opened(s, m, fmt))
  <1>1. PICK H, X : H = HeadOf(s, m, fmt) /\ X = ExtensionOf(s, m, fmt)
    OBVIOUS
  <1>2. PICK t : t = Time(s, m, fmt)
    OBVIOUS
  <1>3. /\ fmt \in 0..3 /\ s.ts \in Nat
        /\ fmt # 0 => t \in 0..ExtTime - 1 /\ (s.started => m.sid = s.msg.sid)
        /\ fmt # 0 /\ ~s.started => fmt = 1 /\ cid = CidProtocolControl /\ m.sid = 0 /\ s.ts = 0
        /\ fmt \in {2, 3} => s.started /\ m.type = s.msg.type /\ Len(m.payload) = Len(s.msg.payload)
        /\ fmt = 3 => t = s.delta /\ s.msg.ts < ExtTime
    BY <1>2, FormatFacts
  <1>4. m.ts \in Nat /\ m.type \in Nat /\ Len(m.payload) \in Nat \ {0}
    BY MessageFacts
  <1>5. ExtTime \in Nat \ {0} /\ TimeMod \in Nat \ {0}
    BY ChunkStreamAssumption
  <1>6. t \in Int /\ (fmt = 0 => t = m.ts) /\ (fmt # 0 => t = m.ts - s.ts)
    BY <1>2, <1>3, <1>4 DEF Time
  <1>7. PICK first : first = IF t <= ExtTime THEN t ELSE ExtTime
    OBVIOUS
  <1>8. /\ Len(H) = MessageHeaderSize[fmt + 1] /\ Len(H) \in 0..4
        /\ fmt \in {0, 1, 2} => Len(H) >= 1 /\ H[1] = first
        /\ fmt \in {0, 1} => Len(H) >= 3 /\ H[2] = Len(m.payload) /\ H[3] = m.type
        /\ fmt = 0 => Len(H) = 4 /\ H[4] = m.sid
    <2>1. Min({t, ExtTime}) = first
      <3>1. t \in Int /\ ExtTime \in Int
        BY <1>5, <1>6
      <3>2. Min({t, ExtTime}) = IF t <= ExtTime THEN t ELSE ExtTime
        BY <3>1, MinPair
      <3> QED
        BY <1>7, <3>2
    <2>2. /\ Len(H) = MessageHeaderSize[fmt + 1] /\ Len(H) \in 0..4
          /\ fmt \in {0, 1, 2} => Len(H) >= 1 /\ H[1] = Min({t, ExtTime})
          /\ fmt \in {0, 1} => Len(H) >= 3 /\ H[2] = Len(m.payload) /\ H[3] = m.type
          /\ fmt = 0 => Len(H) = 4 /\ H[4] = m.sid
      <3>1. LET G == HeadOf(s, m, fmt)
            IN  /\ Len(G) = MessageHeaderSize[fmt + 1] /\ Len(G) \in 0..4
                /\ fmt \in {0, 1, 2} => Len(G) >= 1 /\ G[1] = Min({Time(s, m, fmt), ExtTime})
                /\ fmt \in {0, 1} => Len(G) >= 3 /\ G[2] = Len(m.payload) /\ G[3] = m.type
                /\ fmt = 0 => Len(G) = 4 /\ G[4] = m.sid
        <4>1. fmt \in 0..3
          BY <1>3
        <4> QED
          BY <4>1, HeadFields, Zenon
      <3> QED
        BY <1>1, <1>2, <3>1
    <2> QED
      BY <2>1, <2>2
  <1>9. /\ X = IF fmt = 0 /\ m.ts >= ExtTime THEN <<m.ts>> ELSE <<>>
        /\ Len(X) = IF fmt = 0 /\ m.ts >= ExtTime THEN 1 ELSE 0
    <2>1. X = IF fmt = 0 THEN (IF t >= ExtTime THEN <<t>> ELSE <<>>) ELSE <<>>
      BY <1>1, <1>2 DEF ExtensionOf, Extension
    <2>2. X = IF fmt = 0 /\ m.ts >= ExtTime THEN <<m.ts>> ELSE <<>>
      BY <1>6, <2>1
    <2> QED
      BY <2>2
  <1>10. /\ Len(v) = Len(H) + Len(X) + Len(D) + Len(rest)
         /\ fmt \in {0, 1, 2} => v[1] = first
         /\ fmt \in {0, 1} => v[2] = Len(m.payload) /\ v[3] = m.type
         /\ fmt = 0 => v[4] = m.sid
         /\ fmt = 0 /\ m.ts >= ExtTime => v[Len(H) + 1] = m.ts
    <2>1. /\ Len(v) = Len(H) + Len(X) + Len(D) + Len(rest)
          /\ \A i \in 1..Len(H) : v[i] = H[i]
          /\ \A i \in 1..Len(X) : v[Len(H) + i] = X[i]
      BY <1>1 DEF Behind
    <2>2. fmt = 0 /\ m.ts >= ExtTime => v[Len(H) + 1] = m.ts
      BY <1>9, <2>1
    <2>3. fmt \in {0, 1, 2} => v[1] = first
      BY <1>8, <2>1, SMTT(30)
    <2>4. fmt \in {0, 1} => v[2] = Len(m.payload) /\ v[3] = m.type
      BY <1>8, <2>1
    <2>5. fmt = 0 => v[4] = m.sid
      BY <1>8, <2>1
    <2> QED
      BY <2>1, <2>2, <2>3, <2>4, <2>5
  <1>11. IsChunk(k)
    BY DEF Agree
  <1>12. fmt # 3 => v[1] \in Int
    BY <1>3, <1>5, <1>6, <1>7, <1>10
  <1>13. PICK h : h = HeaderFields(k, fmt, v)
    OBVIOUS
  <1>14. FieldsOf(h, k, fmt, v)
    BY <1>3, <1>11, <1>13, <1>12, FieldsRead
  <1>15. /\ k.open = FALSE
         /\ s.started => /\ k.msg_count \in Nat \ {0} /\ k.ts = s.msg.ts % TimeMod /\ k.ext = s.extended
                         /\ k.len = Len(s.msg.payload) /\ k.type = s.msg.type /\ k.sid = s.msg.sid
                         /\ s.msg.ts < ExtTime => k.delta = s.delta
                         /\ s.ts = s.msg.ts /\ (s.extended => s.msg.ts >= ExtTime) /\ s.msg.ts \in Nat
         /\ ~s.started => k.msg_count = 0 /\ k.ts = 0 /\ k.sid = 0
    <2>1. CASE s.started
      <3>1. HeaderKnown(k, s) /\ k.open = FALSE
        BY <2>1 DEF Agree
      <3>2. s.ts = s.msg.ts /\ (s.extended => s.msg.ts >= ExtTime) /\ s.msg.ts \in Nat
        BY <2>1, MessageFacts DEF StreamOk
      <3> QED
        BY <2>1, <3>1, <3>2 DEF HeaderKnown
    <2>2. CASE ~s.started
      BY <2>2 DEF Agree
    <2> QED
      BY <2>1, <2>2 DEF StreamOk
  <1>16. h.ext \in BOOLEAN /\ (h.ext <=> fmt = 0 /\ m.ts >= ExtTime)
    <2>1. CASE fmt = 0
      <3>1. v[1] >= ExtTime <=> m.ts >= ExtTime
        BY <1>4, <1>5, <1>6, <1>7, <1>10, <2>1
      <3>2. (v[1] >= ExtTime => h.ext = TRUE) /\ (~(v[1] >= ExtTime) => h.ext = FALSE)
        BY <1>14, <2>1 DEF FieldsOf
      <3> QED
        BY <2>1, <3>1, <3>2
    <2>2. CASE fmt \in {1, 2}
      <3>1. ~(v[1] >= ExtTime)
        BY <1>3, <1>5, <1>7, <1>10, <2>2
      <3>2. h.ext = FALSE
        BY <1>14, <2>2, <3>1 DEF FieldsOf
      <3>3. fmt # 0
        BY <2>2
      <3> QED
        BY <3>2, <3>3, Zenon
    <2>3. CASE fmt = 3
      <3>1. h.ext = k.ext
        BY <1>14, <2>3 DEF FieldsOf
      <3>2. k.ext = s.extended /\ ~s.extended /\ s.extended \in BOOLEAN
        BY <1>3, <1>5, <1>15, <2>3 DEF StreamOk
      <3>3. s.extended = FALSE
        BY <3>2, Zenon
      <3>4. h.ext = FALSE
        BY <3>1, <3>2, <3>3
      <3>5. fmt # 0
        BY <2>3
      <3> QED
        BY <3>4, <3>5, Zenon
    <2> QED
      BY <1>3, <2>1, <2>2, <2>3
  <1>17. ~h.ext => h.ts % TimeMod = m.ts % TimeMod
    <2> SUFFICES ASSUME ~h.ext PROVE h.ts % TimeMod = m.ts % TimeMod
      OBVIOUS
    <2>1. CASE fmt = 0
      <3>1. h.ts = v[1]
        BY <1>14, <2>1 DEF FieldsOf
      <3>2. m.ts < ExtTime
        BY <1>4, <1>5, <1>16, <2>1
      <3> QED
        BY <1>4, <1>5, <1>6, <1>7, <1>10, <2>1, <3>1, <3>2
    <2>2. CASE fmt # 0
      <3>1. h.ts = k.ts + t
        <4>1. CASE fmt \in {1, 2}
          <5>1. h.ts = k.ts + v[1]
            BY <1>14, <4>1 DEF FieldsOf
          <5>2. v[1] = t
            BY <1>3, <1>5, <1>7, <1>10, <4>1
          <5> QED
            BY <5>1, <5>2
        <4>2. CASE fmt = 3
          BY <1>3, <1>14, <1>15, <4>2 DEF FieldsOf
        <4> QED
          BY <1>3, <2>2, <4>1, <4>2
      <3>2. CASE s.started
        <4>1. ((s.ts % TimeMod) + t) % TimeMod = (s.ts + t) % TimeMod
          <5>1. \A a, d \in Int : ((a % TimeMod) + d) % TimeMod = (a + d) % TimeMod
            BY <1>5, ModFacts, Zenon
          <5>2. s.ts \in Int /\ t \in Int
            BY <1>3, <1>6
          <5> QED
            BY <5>1, <5>2, Zenon
        <4>2. s.ts + t = m.ts
          BY <1>3, <1>4, <1>6, <2>2
        <4> QED
          BY <1>15, <3>1, <3>2, <4>1, <4>2
      <3>3. CASE ~s.started
        <4>1. k.ts + t = m.ts
          BY <1>3, <1>4, <1>6, <1>15, <2>2, <3>3
        <4> QED
          BY <3>1, <4>1
      <3> QED
        BY <3>2, <3>3
    <2> QED
      BY <2>1, <2>2
  <1>18. PICK head : head = read_message_header(k, fmt, v)
    OBVIOUS
  <1>19. HeaderOf(head, h, k, fmt, v)
    BY <1>3, <1>11, <1>13, <1>18, <1>12, HeaderRead
  <1>20. /\ head.size = Len(H) + Len(X)
         /\ head.chunk.ts = m.ts % TimeMod
    <2>1. head.size = (IF h.ext THEN Len(H) + 1 ELSE Len(H))
          /\ head.chunk.ts = (IF h.ext THEN v[Len(H) + 1] % TimeMod ELSE h.ts) % TimeMod
      BY <1>8, <1>15, <1>19 DEF HeaderOf
    <2>2. CASE h.ext
      <3>1. head.chunk.ts = (m.ts % TimeMod) % TimeMod
        BY <1>10, <1>16, <2>1, <2>2
      <3>2. (m.ts % TimeMod) % TimeMod = m.ts % TimeMod
        <4>1. /\ \A a \in Int : a % TimeMod \in 0..TimeMod - 1
              /\ \A a \in 0..TimeMod - 1 : a % TimeMod = a
          BY <1>5, ModFacts, Zenon
        <4>2. m.ts \in Int
          BY <1>4
        <4> QED
          BY <4>1, <4>2, Zenon
      <3> QED
        BY <1>9, <1>16, <2>1, <2>2, <3>1, <3>2
    <2>3. CASE ~h.ext
      BY <1>8, <1>9, <1>16, <1>17, <2>1, <2>3
    <2> QED
      BY <2>2, <2>3
  <1>21. HeaderKnown(head.chunk, Opened(s, m, fmt))
    <2>1. head.chunk.msg_count \in Nat \ {0}
      BY <1>15, <1>19 DEF HeaderOf, StreamOk
    <2>2. head.chunk.ext = (fmt = 0 /\ m.ts >= ExtTime)
      <3>1. h.ext = (fmt = 0 /\ m.ts >= ExtTime)
        BY <1>16
      <3> QED
        BY <1>19, <3>1 DEF HeaderOf
    <2>3. /\ head.chunk.len = h.len /\ head.chunk.type = h.type /\ head.chunk.sid = h.sid
          /\ head.chunk.delta = h.delta
      BY <1>19 DEF HeaderOf
    <2>4. h.len = Len(m.payload) /\ h.type = m.type
      BY <1>3, <1>10, <1>14, <1>15 DEF FieldsOf
    <2>5. h.sid = m.sid
      BY <1>3, <1>10, <1>14, <1>15 DEF FieldsOf, StreamOk
    <2>6. m.ts < ExtTime => h.delta = t
      <3> SUFFICES ASSUME m.ts < ExtTime PROVE h.delta = t
        OBVIOUS
      <3>1. CASE fmt \in {0, 1, 2}
        <4>1. h.delta = v[1]
          BY <1>14, <3>1 DEF FieldsOf
        <4> QED
          BY <1>3, <1>5, <1>6, <1>7, <1>10, <3>1, <4>1
      <3>2. CASE fmt = 3
        BY <1>3, <1>14, <1>15, <3>2 DEF FieldsOf
      <3> QED
        BY <1>3, <3>1, <3>2
    <2>7. t = IF fmt = 0 THEN m.ts ELSE m.ts - s.ts
      BY <1>2 DEF Time
    <2> QED
      BY <1>20, <2>1, <2>2, <2>3, <2>4, <2>5, <2>6, <2>7 DEF HeaderKnown, Opened
  <1>22. ~HeaderRefused(k, cid, fmt, v)
    BY <1>3, <1>15 DEF HeaderRefused
  <1>23. ~(Len(v) < MessageHeaderSize[fmt + 1]) /\ ~(h.ext /\ Len(v) = MessageHeaderSize[fmt + 1])
    <2>1. Len(X) \in 0..1 /\ (h.ext => Len(X) = 1)
      BY <1>9, <1>16
    <2> QED
      BY <1>8, <1>10, <2>1, SMTT(30)
  <1>24. head.chunk.open = TRUE /\ head.chunk.partial = k.partial /\ IsChunk(head.chunk)
    BY <1>19 DEF HeaderOf
  <1> QED
    BY <1>1, <1>13, <1>18, <1>20, <1>21, <1>22, <1>23, <1>24, Zenon DEF HeaderDone

\* The extended timestamp that a later chunk repeats, or does not.
RepeatOf(repeats, s) == IF repeats /\ s.extended THEN Extension(s.msg.ts) ELSE <<>>

\* A later chunk is taken for one whether it repeats the extended timestamp or
\* not, since no payload spells the timestamp.
LEMMA LaterHeader ==
  ASSUME NEW cid \in AllCids, NEW s, StreamOk(cid, s), s.started, s.left # <<>>, NEW k, Agree(k, s),
         NEW repeats \in BOOLEAN,
         NEW U, NEW v, NEW D, NEW rest, Behind(v, U, <<>>, RepeatOf(repeats, s), D, rest),
         Len(D) \in Nat \ {0}, Len(rest) \in Nat, s.extended => D[1] % TimeMod = 0
  PROVE  HeaderDone(k, cid, 3, v, Len(RepeatOf(repeats, s)), s)
  <1>1. PICK X : X = RepeatOf(repeats, s)
    OBVIOUS
  <1>2. PICK m : m = s.msg
    OBVIOUS
  <1>3. /\ MessageOk(m) /\ m.ts \in Nat /\ s.extended \in BOOLEAN
        /\ s.extended => m.ts >= ExtTime /\ m.ts % TimeMod # 0
    <2>1. MessageOk(m) /\ s.extended \in BOOLEAN /\ (s.extended => m.ts >= ExtTime)
      BY <1>2 DEF StreamOk
    <2>2. m.ts >= ExtTime => m.ts % TimeMod # 0
      BY <2>1 DEF MessageOk
    <2> QED
      BY <2>1, <2>2, MessageFacts
  <1>4. ExtTime \in Nat \ {0} /\ TimeMod \in Nat \ {0}
    BY ChunkStreamAssumption
  <1>5. m.ts % TimeMod \in 0..TimeMod - 1 /\ (m.ts % TimeMod) % TimeMod = m.ts % TimeMod
    <2>1. /\ \A a \in Int : a % TimeMod \in 0..TimeMod - 1
          /\ \A a \in 0..TimeMod - 1 : a % TimeMod = a
      BY <1>4, ModFacts, Zenon
    <2>2. m.ts \in Int
      BY <1>3
    <2> QED
      BY <2>1, <2>2, Zenon
  <1>6. HeaderKnown(k, s) /\ IsChunk(k) /\ k.open = TRUE
    BY DEF Agree
  <1>7. /\ k.msg_count \in Nat \ {0} /\ k.ts = m.ts % TimeMod /\ k.ext = s.extended
        /\ k.len = Len(m.payload) /\ k.type = m.type /\ k.sid = m.sid
        /\ m.ts < ExtTime => k.delta = s.delta
    BY <1>2, <1>6 DEF HeaderKnown
  <1>8. MessageHeaderSize[3 + 1] = 0
    BY DEF MessageHeaderSize
  <1>9. /\ Len(X) = IF repeats /\ s.extended THEN 1 ELSE 0
        /\ repeats /\ s.extended => X[1] = m.ts
    BY <1>1, <1>2, <1>3 DEF RepeatOf, Extension
  <1>10. /\ Len(v) \in Nat \ {0}
         /\ repeats /\ s.extended => v[1] = m.ts
         /\ ~repeats /\ s.extended => v[1] % TimeMod = 0
    <2>1. /\ Len(v) = 0 + Len(X) + Len(D) + Len(rest)
          /\ \A i \in 1..Len(X) : v[0 + i] = X[i]
          /\ \A i \in 1..Len(D) : v[0 + Len(X) + i] = D[i]
      BY <1>1 DEF Behind
    <2>2. Len(v) \in Nat \ {0}
      BY <1>9, <2>1
    <2>3. ASSUME repeats /\ s.extended PROVE v[1] = m.ts
      BY <1>9, <2>1, <2>3
    <2>4. ASSUME ~repeats /\ s.extended PROVE v[1] = D[1]
      BY <1>9, <2>1, <2>4
    <2> QED
      BY <2>2, <2>3, <2>4
  <1>11. PICK h : h = HeaderFields(k, 3, v)
    OBVIOUS
  <1>12. FieldsOf(h, k, 3, v)
    BY <1>6, <1>11, FieldsRead
  <1>13. h.ts = k.ts /\ h.ext = s.extended /\ h.delta = k.delta /\ h.len = k.len /\ h.type = k.type /\ h.sid = k.sid
    <2>1. h.ext = k.ext /\ h.delta = k.delta /\ h.len = k.len /\ h.type = k.type /\ h.sid = k.sid
      BY <1>12 DEF FieldsOf
    <2>2. h.ts = k.ts
      BY <1>6, <1>12 DEF FieldsOf
    <2> QED
      BY <1>7, <2>1, <2>2
  <1>14. PICK head : head = read_message_header(k, 3, v)
    OBVIOUS
  <1>15. HeaderOf(head, h, k, 3, v)
    BY <1>6, <1>11, <1>14, HeaderRead
  <1>16. PICK time : time = v[1] % TimeMod
    OBVIOUS
  <1>17. /\ head.size = IF h.ext /\ ~(h.ts > 0 /\ h.ts # time) THEN 1 ELSE 0
         /\ head.chunk.ts = (IF h.ext /\ ~(h.ts > 0 /\ h.ts # time) THEN time ELSE h.ts) % TimeMod
    BY <1>6, <1>8, <1>15, <1>16 DEF HeaderOf
  <1>18. head.size = Len(X) /\ head.chunk.ts = m.ts % TimeMod
    <2>1. CASE ~s.extended
      BY <1>5, <1>7, <1>9, <1>13, <1>17, <2>1
    <2>2. CASE s.extended /\ repeats
      BY <1>5, <1>7, <1>9, <1>10, <1>13, <1>16, <1>17, <2>2
    <2>3. CASE s.extended /\ ~repeats
      <3>1. h.ts > 0 /\ h.ts # time
        BY <1>3, <1>5, <1>7, <1>10, <1>13, <1>16, <2>3
      <3> QED
        BY <1>5, <1>7, <1>9, <1>13, <1>17, <2>3, <3>1
    <2> QED
      BY <1>3, <2>1, <2>2, <2>3
  <1>19. HeaderKnown(head.chunk, s)
    <2>1. /\ head.chunk.msg_count = k.msg_count + 1 /\ head.chunk.ext = h.ext /\ head.chunk.delta = h.delta
          /\ head.chunk.len = h.len /\ head.chunk.type = h.type /\ head.chunk.sid = h.sid
      BY <1>15 DEF HeaderOf
    <2> QED
      BY <1>2, <1>7, <1>13, <1>18, <2>1 DEF HeaderKnown
  <1>20. ~HeaderRefused(k, cid, 3, v)
    BY <1>7 DEF HeaderRefused
  <1>21. ~(Len(v) < MessageHeaderSize[3 + 1]) /\ ~(h.ext /\ Len(v) = MessageHeaderSize[3 + 1])
    BY <1>8, <1>10
  <1>22. head.chunk.open = TRUE /\ head.chunk.partial = k.partial /\ IsChunk(head.chunk)
    BY <1>15 DEF HeaderOf
  <1> QED
    BY <1>1, <1>11, <1>14, <1>18, <1>19, <1>20, <1>21, <1>22, Zenon DEF HeaderDone

-----------------------------------------------------------------------------
(* The payload                                                             *)

\* What a chunk of at most n units carries of what is left of a message.
Piece(s, n) == Slice(s.left, 0, Min({n, Len(s.left)}))

\* A piece and the rest make up the whole.
Parts(d, t, q, n) ==
    /\ d \in Seq(Nat) /\ Len(d) = (IF n <= Len(q) THEN n ELSE Len(q))
    /\ \A i \in 1..Len(d) : d[i] = q[i]
    /\ t \in Seq(Nat) /\ Len(t) = (IF n <= Len(q) THEN Len(q) - n ELSE 0)
    /\ \A i \in 1..Len(t) : t[i] = q[n + i]
    /\ d \o t = q
    /\ t = <<>> <=> Len(q) <= n

\* A piece and what is left behind it are the whole.
LEMMA PieceAndRest ==
  ASSUME NEW q \in Seq(Nat), NEW n \in Nat
  PROVE  Parts(Slice(q, 0, Min({n, Len(q)})), Rest(q, n), q, n)
  <1>1. PICK l : l = Len(q)
    OBVIOUS
  <1>2. l \in Nat /\ \A i \in 1..l : q[i] \in Nat
    BY <1>1, LenProperties, ElementOfSeq
  <1>3. PICK c \in Nat : c = IF n <= l THEN n ELSE l
    BY <1>2
  <1>4. PICK d : d = SubSeq(q, 1, c)
    OBVIOUS
  <1>5. d = Slice(q, 0, Min({n, Len(q)}))
    <2>1. Min({n, l}) = c
      BY <1>2, <1>3, MinPair
    <2>2. 0 + 1 = 1 /\ 0 + c = c
      OBVIOUS
    <2> QED
      BY <1>1, <1>4, <2>1, <2>2 DEF Slice
  <1>6. d \in Seq(Nat) /\ Len(d) = c /\ \A i \in 1..c : d[i] = q[i]
    <2>1. \A i \in 1..c : q[i] \in Nat
      BY <1>2, <1>3
    <2>2. /\ d \in Seq(Nat) /\ Len(d) = IF 1 <= c THEN c - 1 + 1 ELSE 0
          /\ \A i \in 1..c - 1 + 1 : d[i] = q[1 + i - 1]
      BY <1>4, <2>1, SubSeqProperties
    <2>3. Len(d) = c
      BY <2>2
    <2>4. \A i \in 1..c : i \in 1..c - 1 + 1 /\ 1 + i - 1 = i
      OBVIOUS
    <2> QED
      BY <2>2, <2>3, <2>4
  <1>7. PICK t : t = SubSeq(q, n + 1, l)
    OBVIOUS
  <1>8. t = Rest(q, n)
    BY <1>1, <1>7 DEF Rest
  <1>9. PICK e \in Nat : e = IF n <= l THEN l - n ELSE 0
    <2>1. l \in Nat /\ n \in Nat
      BY <1>2
    <2>2. CASE n <= l
      BY <2>1, <2>2
    <2>3. CASE ~(n <= l)
      BY <2>3
    <2> QED
      BY <2>2, <2>3
  <1>10. t \in Seq(Nat) /\ Len(t) = e /\ \A i \in 1..e : t[i] = q[n + i]
    <2>1. PICK m \in Int : m = n + 1
      OBVIOUS
    <2>2. \A i \in m..l : q[i] \in Nat
      BY <1>2, <2>1
    <2>3. /\ t \in Seq(Nat) /\ Len(t) = IF m <= l THEN l - m + 1 ELSE 0
          /\ \A i \in 1..l - m + 1 : t[i] = q[m + i - 1]
      BY <1>2, <1>7, <2>1, <2>2, SubSeqProperties
    <2>4. Len(t) = e /\ \A i \in 1..e : i \in 1..l - m + 1 /\ m + i - 1 = n + i
      BY <1>2, <1>9, <2>1, <2>3
    <2> QED
      BY <2>3, <2>4
  <1>11. t = <<>> <=> l <= n
    BY <1>2, <1>9, <1>10, EmptySeq
  <1>12. d \o t = q
    <2>1. PICK u : u = d \o t
      OBVIOUS
    <2>2. /\ u \in Seq(Nat) /\ Len(u) = c + e
          /\ \A i \in 1..c + e : u[i] = IF i <= c THEN d[i] ELSE t[i - c]
      <3>1. d \in Seq(Nat) /\ t \in Seq(Nat) /\ Len(d) = c /\ Len(t) = e
        BY <1>6, <1>10
      <3>2. /\ d \o t \in Seq(Nat) /\ Len(d \o t) = Len(d) + Len(t)
            /\ \A i \in 1..Len(d) + Len(t) :
                  (d \o t)[i] = IF i <= Len(d) THEN d[i] ELSE t[i - Len(d)]
        BY <3>1, ConcatProperties
      <3> QED
        BY <2>1, <3>1, <3>2
    <2>3. c + e = l
      BY <1>2, <1>3, <1>9
    <2>4. ASSUME NEW i \in 1..l PROVE u[i] = q[i]
      <3>1. CASE i <= c
        BY <1>6, <2>2, <2>3, <3>1
      <3>2. CASE i > c
        <4>1. c = n /\ i - c \in 1..e
          BY <1>2, <1>3, <1>9, <2>3, <3>2
        <4>2. n + (i - c) = i
          BY <4>1
        <4>3. t[i - c] = q[n + (i - c)]
          BY <1>10, <4>1
        <4> QED
          BY <1>2, <2>2, <2>3, <3>2, <4>2, <4>3
      <3> QED
        BY <1>2, <3>1, <3>2
    <2>5. u = q
      BY <1>1, <2>2, <2>3, <2>4, SeqEqual
    <2> QED
      BY <2>1, <2>5
  <1>13. Parts(d, t, q, n)
    BY <1>1, <1>3, <1>6, <1>9, <1>10, <1>11, <1>12 DEF Parts
  <1> QED
    BY <1>5, <1>8, <1>13

\* Writing more of the payload changes only what is left of it.
LEMMA CutFields ==
  ASSUME NEW s, IsStream(s), NEW n
  PROVE  /\ IsStream(Cut(s, n))
         /\ Cut(s, n).started = s.started /\ Cut(s, n).ts = s.ts /\ Cut(s, n).delta = s.delta
         /\ Cut(s, n).msg = s.msg /\ Cut(s, n).extended = s.extended /\ Cut(s, n).left = Rest(s.left, n)
  <1>1. PICK A : s \in StreamType(A)
    BY DEF IsStream
  <1>2. PICK t, C : t = Rest(s.left, n) /\ C = A \cup {t}
    OBVIOUS
  <1>3. s \in StreamType(C) /\ t \in C
    BY <1>1, <1>2 DEF StreamType
  <1>4. PICK c : c = [s EXCEPT !.left = t]
    OBVIOUS
  <1>5. /\ c \in StreamType(C)
        /\ c.started = s.started /\ c.ts = s.ts /\ c.delta = s.delta
        /\ c.msg = s.msg /\ c.extended = s.extended /\ c.left = t
    BY <1>3, <1>4 DEF StreamType
  <1>6. c = Cut(s, n)
    BY <1>2, <1>4 DEF Cut
  <1> QED
    BY <1>2, <1>5, <1>6 DEF IsStream

\* It leaves the stream in order.
LEMMA CutOk ==
  ASSUME NEW cid, NEW s, StreamOk(cid, s), s.started, NEW n \in Nat
  PROVE  StreamOk(cid, Cut(s, n))
  <1>1. PICK c, q : c = Cut(s, n) /\ q = s.left
    OBVIOUS
  <1>2. /\ IsStream(c) /\ c.started = s.started /\ c.ts = s.ts /\ c.delta = s.delta
        /\ c.msg = s.msg /\ c.extended = s.extended /\ c.left = Rest(q, n)
    BY <1>1, CutFields DEF StreamOk
  <1>3. /\ s.started \in BOOLEAN /\ MessageOk(s.msg) /\ s.msg.cid = cid
        /\ s.ts = s.msg.ts /\ s.delta \in Nat /\ s.extended \in BOOLEAN
        /\ q \in Seq(Nat) /\ Len(q) <= Len(s.msg.payload) /\ Len(s.msg.payload) \in Nat
        /\ s.extended => s.msg.ts >= ExtTime /\ Plain(s.msg)
        /\ s.extended => \A i \in 1..Len(q) : q[i] % TimeMod = 0
    BY <1>1, MessageFacts DEF StreamOk
  <1>4. PICK t : t = Rest(q, n)
    OBVIOUS
  <1>5. /\ t \in Seq(Nat) /\ Len(t) = (IF n <= Len(q) THEN Len(q) - n ELSE 0)
        /\ \A i \in 1..Len(t) : t[i] = q[n + i]
    <2>1. PICK d : Parts(d, t, q, n)
      BY <1>3, <1>4, PieceAndRest
    <2> QED
      BY <2>1 DEF Parts
  <1>6. Len(t) <= Len(s.msg.payload) /\ \A i \in 1..Len(t) : n + i \in 1..Len(q)
    BY <1>3, <1>5, LenProperties
  <1>7. s.extended => \A i \in 1..Len(t) : t[i] % TimeMod = 0
    BY <1>3, <1>5, <1>6
  <1>8. StreamOk(cid, c)
    BY <1>2, <1>3, <1>4, <1>5, <1>6, <1>7 DEF StreamOk
  <1> QED
    BY <1>1, <1>8

\* The reader of a connection.
ReaderType(A) == [chunks : A, in_chunk_size : A, window : A, nb_recv : A, seq : A, in_buffer_length : A]
IsReader(r) == \E A : r \in ReaderType(A)
SameReader(a, b) ==
    /\ a.in_chunk_size = b.in_chunk_size /\ a.window = b.window /\ a.nb_recv = b.nb_recv
    /\ a.seq = b.seq /\ a.in_buffer_length = b.in_buffer_length

\* The chunk stream when pay is what there is of the payload.
Filled(c, h, pay) ==
    /\ IsChunk(c)
    /\ Len(pay) = h.len => c.open = FALSE /\ c.partial = <<>>
    /\ Len(pay) # h.len => c.open = TRUE /\ c.partial = pay
    /\ c.ext = h.ext /\ c.msg_count = h.msg_count /\ c.ts = h.ts /\ c.delta = h.delta
    /\ c.len = h.len /\ c.type = h.type /\ c.sid = h.sid

ReceivedAs(read, r, cid, h, pay, used) ==
    /\ read.ok = TRUE /\ read.used = used
    /\ (Len(pay) = h.len => read.whole = TRUE) /\ (Len(pay) # h.len => read.whole = FALSE)
    /\ IsReader(read.r) /\ SameReader(read.r, r)
    /\ Filled(ChunkOf(read.r, cid), h, pay)
    /\ \A c : c # cid => ChunkOf(read.r, c) = ChunkOf(r, c)
    /\ DOMAIN read.r.chunks = {cid} \cup DOMAIN r.chunks
    /\ read.msg = Message(cid, h.type, h.sid, h.ts, pay)

\* Received does that.
LEMMA ReceivedFields ==
  ASSUME NEW r, IsReader(r), NEW cid, NEW h, IsChunk(h), NEW pay, NEW used
  PROVE  ReceivedAs(Received(r, cid, h, pay, used), r, cid, h, pay, used)
  <1>1. PICK whole \in BOOLEAN : whole = (Len(pay) = h.len)
    OBVIOUS
  <1>2. (Len(pay) = h.len => whole = TRUE) /\ (Len(pay) # h.len => whole = FALSE)
    BY <1>1
  <1>3. PICK open, rest : open = ~whole /\ rest = IF whole THEN <<>> ELSE pay
    OBVIOUS
  <1>4. PICK after : after = [h EXCEPT !.open = open, !.partial = rest]
    OBVIOUS
  <1>5. Filled(after, h, pay)
    <2>1. PICK A : h \in ChunkType(A)
      BY DEF IsChunk
    <2>2. PICK C : C = A \cup {open, rest}
      OBVIOUS
    <2>3. h \in ChunkType(C) /\ open \in C /\ rest \in C
      BY <2>1, <2>2 DEF ChunkType
    <2>4. /\ after \in ChunkType(C) /\ after.open = open /\ after.partial = rest
          /\ after.ext = h.ext /\ after.msg_count = h.msg_count /\ after.ts = h.ts /\ after.delta = h.delta
          /\ after.len = h.len /\ after.type = h.type /\ after.sid = h.sid
      BY <1>4, <2>3 DEF ChunkType
    <2>5. /\ Len(pay) = h.len => open = FALSE /\ rest = <<>>
          /\ Len(pay) # h.len => open = TRUE /\ rest = pay
      BY <1>2, <1>3
    <2> QED
      BY <2>4, <2>5 DEF Filled, IsChunk
  <1>6. PICK f : f = [c \in {cid} \cup DOMAIN r.chunks |-> IF c = cid THEN after ELSE r.chunks[c]]
    OBVIOUS
  <1>7. PICK q : q = [r EXCEPT !.chunks = f]
    OBVIOUS
  <1>8. IsReader(q) /\ SameReader(q, r) /\ q.chunks = f
    <2>1. PICK A : r \in ReaderType(A)
      BY DEF IsReader
    <2>2. r \in ReaderType(A \cup {f})
      BY <2>1 DEF ReaderType
    <2>3. /\ q \in ReaderType(A \cup {f}) /\ q.chunks = f
          /\ q.in_chunk_size = r.in_chunk_size /\ q.window = r.window /\ q.nb_recv = r.nb_recv
          /\ q.seq = r.seq /\ q.in_buffer_length = r.in_buffer_length
      BY <1>7, <2>2 DEF ReaderType
    <2> QED
      BY <2>3 DEF IsReader, SameReader
  <1>9. DOMAIN f = {cid} \cup DOMAIN r.chunks /\ f[cid] = after
    BY <1>6
  <1>10. ChunkOf(q, cid) = after
    BY <1>8, <1>9 DEF ChunkOf
  <1>11. ASSUME NEW c, c # cid PROVE ChunkOf(q, c) = ChunkOf(r, c)
    <2>1. c \in DOMAIN f <=> c \in DOMAIN r.chunks
      BY <1>9, <1>11
    <2>2. c \in DOMAIN r.chunks => f[c] = r.chunks[c]
      BY <1>6, <1>11
    <2> QED
      BY <1>8, <2>1, <2>2 DEF ChunkOf
  <1>12. PICK msg : msg = Message(cid, h.type, h.sid, h.ts, pay)
    OBVIOUS
  <1>13. PICK read : read = [ok |-> TRUE, used |-> used, whole |-> whole, r |-> q, msg |-> msg]
    OBVIOUS
  <1>14. read = Received(r, cid, h, pay, used)
    BY <1>1, <1>3, <1>4, <1>6, <1>7, <1>12, <1>13, Zenon DEF Received
  <1>15. read.ok = TRUE /\ read.used = used /\ read.whole = whole /\ read.r = q /\ read.msg = msg
    BY <1>13
  <1>16. ReceivedAs(read, r, cid, h, pay, used)
    BY <1>2, <1>5, <1>8, <1>9, <1>10, <1>11, <1>12, <1>15, Zenon DEF ReceivedAs
  <1> QED
    BY <1>14, <1>16

\* What reading a chunk comes to when it carries the next piece of the message
\* of s: it is consumed, the reader knows as much as the publisher, and the
\* message is there as soon as nothing of it is left.
ReadAs(read, r, cid, s, w, rest) ==
    LET n == r.in_chunk_size
    IN  /\ read.ok = TRUE
        /\ read.used \in Nat /\ Rest(w, read.used) = rest /\ Len(w) = read.used + Len(rest)
        /\ Rest(s.left, n) = <<>> => read.whole = TRUE /\ read.msg = Stamped(s.msg)
        /\ Rest(s.left, n) # <<>> => read.whole = FALSE
        /\ IsReader(read.r) /\ SameReader(read.r, r)
        /\ Agree(ChunkOf(read.r, cid), Cut(s, n))
        /\ \A c : c # cid => ChunkOf(read.r, c) = ChunkOf(r, c)
        /\ DOMAIN read.r.chunks = {cid} \cup DOMAIN r.chunks

\* Where the piece d is: behind the size units of the header in v, and behind
\* used units in w, which goes on with rest.
Carried(d, v, size, w, used, rest) ==
    /\ Len(v) \in Nat /\ Len(v) >= size + Len(d) /\ Slice(v, size, Len(d)) = d
    /\ Rest(w, used + Len(d)) = rest /\ Len(w) = used + Len(d) + Len(rest)

\* The payload behind a header that has been read as it was meant.
LEMMA PayloadRead ==
  ASSUME NEW cid, NEW s, StreamOk(cid, s), s.started, s.left # <<>>,
         NEW r, IsReader(r), r.in_chunk_size \in Nat \ {0},
         NEW h, IsChunk(h), HeaderKnown(h, s), PayloadKnown(h, s),
         NEW v, NEW size \in Nat, NEW used \in Nat, NEW rest, NEW w,
         Carried(Piece(s, r.in_chunk_size), v, size, w, used, rest)
  PROVE  ReadAs(read_message_payload(r, cid, h, size, used, v), r, cid, s, w, rest)
  <1>1. PICK n \in Nat \ {0} : n = r.in_chunk_size
    OBVIOUS
  <1>2. PICK m, q, a : m = s.msg /\ q = s.left /\ a = h.partial
    OBVIOUS
  <1>3. /\ MessageOk(m) /\ m.cid = cid /\ IsStream(s)
        /\ q \in Seq(Nat) /\ q # <<>> /\ a \in Seq(Nat) /\ m.payload \in Seq(Nat)
        /\ a \o q = m.payload
    BY <1>2, MessageFacts DEF StreamOk, PayloadKnown
  <1>4. PICK d, t : d = Piece(s, n) /\ t = Rest(q, n)
    OBVIOUS
  <1>5. Parts(d, t, q, n)
    BY <1>2, <1>3, <1>4, PieceAndRest DEF Piece
  <1>6. PICK lq, la, ld, lt \in Nat : lq = Len(q) /\ la = Len(a) /\ ld = Len(d) /\ lt = Len(t)
    BY <1>3, <1>5, LenProperties DEF Parts
  <1>7. ld = (IF n <= lq THEN n ELSE lq) /\ lt = (IF n <= lq THEN lq - n ELSE 0) /\ (t = <<>> <=> lq <= n)
    BY <1>5, <1>6 DEF Parts
  <1>8. Len(m.payload) = la + lq
    <2>1. a \in Seq(Nat) /\ q \in Seq(Nat) /\ a \o q = m.payload
      BY <1>3
    <2>2. Len(a \o q) = Len(a) + Len(q)
      BY <2>1, ConcatProperties
    <2> QED
      BY <1>6, <2>1, <2>2
  <1>9. /\ h.len = la + lq /\ h.type = m.type /\ h.sid = m.sid /\ h.ts = m.ts % TimeMod
    BY <1>2, <1>8 DEF HeaderKnown
  <1>10. Min({h.len - Len(h.partial), r.in_chunk_size}) = ld
    <2>1. h.len - Len(h.partial) = lq
      BY <1>2, <1>6, <1>9
    <2>2. Min({lq, n}) = ld
      BY <1>7, MinPair
    <2> QED
      BY <1>1, <2>1, <2>2
  <1>11. PICK pay : pay = a \o d
    OBVIOUS
  <1>12. pay \in Seq(Nat) /\ Len(pay) = la + ld /\ pay \o t = m.payload
    <2>1. d \in Seq(Nat) /\ t \in Seq(Nat) /\ d \o t = q
      BY <1>5 DEF Parts
    <2>2. (a \o d) \o t = a \o (d \o t)
      <3>1. a \in Seq(Nat) /\ d \in Seq(Nat) /\ t \in Seq(Nat)
        BY <1>3, <2>1
      <3> QED
        BY <3>1, ConcatAssociative, SMTT(30)
    <2>3. pay \in Seq(Nat) /\ Len(pay) = la + ld
      BY <1>3, <1>6, <1>11, <2>1, ConcatProperties
    <2> QED
      BY <1>3, <1>11, <2>1, <2>2, <2>3
  <1>13. PICK read : read = read_message_payload(r, cid, h, size, used, v)
    OBVIOUS
  <1>14. PICK u \in Nat : u = used + ld
    OBVIOUS
  <1>15. read = Received(r, cid, h, pay, u)
    <2>1. ~(Len(v) < size + ld) /\ Slice(v, size, ld) = d
      <3>1. Len(v) \in Nat /\ Len(v) >= size + ld /\ Slice(v, size, ld) = d
        BY <1>1, <1>4, <1>6 DEF Carried
      <3> QED
        BY <3>1
    <2>2. h.partial \o Slice(v, size, ld) = pay
      BY <1>2, <1>11, <2>1
    <2> QED
      BY <1>10, <1>13, <1>14, <2>1, <2>2 DEF read_message_payload
  <1>16. ReceivedAs(read, r, cid, h, pay, u)
    BY <1>15, ReceivedFields
  <1>17. PICK c : c = ChunkOf(read.r, cid)
    OBVIOUS
  <1>18. Filled(c, h, pay)
    BY <1>16, <1>17 DEF ReceivedAs
  <1>19. Len(pay) = h.len <=> t = <<>>
    BY <1>7, <1>9, <1>12
  <1>20. PICK z : z = Cut(s, n)
    OBVIOUS
  <1>21. /\ z.started = TRUE /\ z.delta = s.delta /\ z.msg = m /\ z.extended = s.extended /\ z.left = t
    BY <1>2, <1>3, <1>4, <1>20, CutFields DEF StreamOk
  <1>22. Agree(c, z)
    <2>1. HeaderKnown(c, z)
      <3>1. HeaderKnown(h, s)
        OBVIOUS
      <3> QED
        BY <1>2, <1>18, <1>21, <3>1 DEF HeaderKnown, Filled
    <2>2. CASE t = <<>>
      <3>1. c.open = FALSE /\ c.partial = <<>> /\ IsChunk(c)
        BY <1>18, <1>19, <2>2 DEF Filled
      <3>2. (z.left # <<>>) = FALSE
        BY <1>21, <2>2
      <3> QED
        BY <1>21, <2>1, <2>2, <3>1, <3>2 DEF Agree
    <2>3. CASE t # <<>>
      <3>1. c.open = TRUE /\ c.partial = pay /\ IsChunk(c)
        BY <1>18, <1>19, <2>3 DEF Filled
      <3>2. (z.left # <<>>) = TRUE
        BY <1>21, <2>3
      <3>3. PayloadKnown(c, z)
        BY <1>12, <1>21, <3>1 DEF PayloadKnown
      <3> QED
        BY <1>21, <2>1, <2>3, <3>1, <3>2, <3>3 DEF Agree
    <2> QED
      BY <2>2, <2>3
  <1>23. t = <<>> => read.whole = TRUE /\ read.msg = Stamped(s.msg)
    <2> SUFFICES ASSUME t = <<>> PROVE read.whole = TRUE /\ read.msg = Stamped(s.msg)
      OBVIOUS
    <2>1. read.whole = TRUE /\ read.msg = Message(cid, h.type, h.sid, h.ts, pay)
      BY <1>16, <1>19 DEF ReceivedAs
    <2>2. pay = m.payload
      BY <1>12, ConcatEmptySeq
    <2>3. Message(cid, m.type, m.sid, m.ts % TimeMod, m.payload) = Stamped(m)
      <3>1. m.cid = cid /\ MessageOk(m)
        BY <1>3
      <3> QED
        BY <3>1, StampedMessage
    <2> QED
      BY <1>2, <1>9, <2>1, <2>2, <2>3
  <1>24. t # <<>> => read.whole = FALSE
    BY <1>16, <1>19 DEF ReceivedAs
  <1>25. read.used = u /\ Rest(w, u) = rest /\ Len(w) = u + Len(rest)
    BY <1>1, <1>4, <1>6, <1>14, <1>16 DEF ReceivedAs, Carried
  <1>26. ReadAs(read, r, cid, s, w, rest)
    BY <1>1, <1>2, <1>4, <1>14, <1>16, <1>17, <1>20, <1>22, <1>23, <1>24, <1>25, Zenon DEF ReadAs, ReceivedAs
  <1> QED
    BY <1>13, <1>26

\* A chunk whose header is read as it was meant.
LEMMA ChunkRead ==
  ASSUME NEW cid \in Nat, cid > 1, NEW fmt \in 0..3,
         NEW s, StreamOk(cid, s), s.started, s.left # <<>>,
         NEW r, IsReader(r), r.in_chunk_size \in Nat \ {0},
         NEW w, NEW H, NEW X, NEW rest,
         Laid(w, Nat, BasicHeader(fmt, cid), H, X, Piece(s, r.in_chunk_size), rest),
         HeaderDone(ChunkOf(r, cid), cid, fmt, SubSeq(w, Len(BasicHeader(fmt, cid)) + 1, Len(w)), Len(H) + Len(X), s),
         PayloadKnown(ChunkOf(r, cid), s)
  PROVE  ReadAs(recv_interlaced_message(r, w), r, cid, s, w, rest)
  <1>1. PICK B, d, k : B = BasicHeader(fmt, cid) /\ d = Piece(s, r.in_chunk_size) /\ k = ChunkOf(r, cid)
    OBVIOUS
  <1>2. PICK b : b = Len(B)
    OBVIOUS
  <1>3. PICK v : v = SubSeq(w, b + 1, Len(w))
    OBVIOUS
  <1>4. Laid(w, Nat, B, H, X, d, rest) /\ HeaderDone(k, cid, fmt, v, Len(H) + Len(X), s)
    BY <1>1, <1>2, <1>3
  <1>5. /\ w \in Seq(Nat) /\ Len(w) = b + Len(H) + Len(X) + Len(d) + Len(rest)
        /\ \A i \in 1..b : w[i] = B[i]
        /\ Behind(v, Nat, H, X, d, rest)
        /\ Rest(w, b + Len(H) + Len(X) + Len(d)) = rest
    BY <1>2, <1>3, <1>4, LaidOut, SMTT(30)
  <1>6. read_basic_header(w) = <<fmt, cid, b>>
    BY <1>1, <1>2, <1>5, BasicRead
  <1>7. PICK lh, lx, ld, lr \in Nat : lh = Len(H) /\ lx = Len(X) /\ ld = Len(d) /\ lr = Len(rest)
    BY <1>4, LenProperties DEF Laid
  <1>8. b \in Nat
    BY <1>1, <1>2, <1>4, LenProperties DEF Laid
  <1>9. PICK size \in Nat, used \in Nat : size = lh + lx /\ used = b + size
    BY <1>7, <1>8
  <1>10. Carried(d, v, size, w, used, rest)
    <2>1. Len(v) = lh + lx + ld + lr /\ Slice(v, lh + lx, ld) = d
      BY <1>5, <1>7 DEF Behind
    <2>2. Len(v) \in Nat /\ Len(v) >= size + ld /\ Slice(v, size, ld) = d
      BY <1>9, <2>1
    <2>3. used + ld = b + lh + lx + ld
      BY <1>7, <1>8, <1>9
    <2>4. Rest(w, used + ld) = rest /\ Len(w) = used + ld + lr
      BY <1>5, <1>7, <2>3
    <2> QED
      BY <1>7, <2>2, <2>4 DEF Carried
  <1>11. PICK head : head = read_message_header(k, fmt, v)
    OBVIOUS
  <1>12. PICK h : h = head.chunk
    OBVIOUS
  <1>13. /\ ~HeaderRefused(k, cid, fmt, v)
         /\ ~(Len(v) < MessageHeaderSize[fmt + 1])
         /\ ~(HeaderFields(k, fmt, v).ext /\ Len(v) = MessageHeaderSize[fmt + 1])
         /\ head.size = size /\ IsChunk(h) /\ h.partial = k.partial /\ HeaderKnown(h, s)
    BY <1>4, <1>7, <1>9, <1>11, <1>12 DEF HeaderDone
  <1>14. PayloadKnown(h, s)
    BY <1>1, <1>13 DEF PayloadKnown
  <1>15. PICK read : read = read_message_payload(r, cid, h, size, used, v)
    OBVIOUS
  <1>16. ReadAs(read, r, cid, s, w, rest)
    BY <1>1, <1>10, <1>13, <1>14, <1>15, PayloadRead
  <1>17. ReadChunk(r, fmt, cid, k, b, v) = read
    <2>1. ReadAfterHeader(r, cid, head, b, v) = read
      BY <1>9, <1>12, <1>13, <1>15 DEF ReadAfterHeader
    <2> QED
      BY <1>11, <1>13, <2>1 DEF ReadChunk
  <1>18. recv_interlaced_message(r, w) = read
    <2>1. PICK basic : basic = read_basic_header(w)
      OBVIOUS
    <2>2. basic[1] = fmt /\ basic[2] = cid /\ basic[3] = b
      BY <1>6, <2>1
    <2> QED
      BY <1>1, <1>3, <1>17, <2>1, <2>2 DEF recv_interlaced_message
  <1> QED
    BY <1>16, <1>18

\* Chunk stream ids are above 1.
LEMMA CidFacts ==
  ASSUME NEW cid \in AllCids
  PROVE  cid \in Nat /\ cid > 1
  BY ChunkProtocolAssumption DEF AllCids, CidProtocolControl

-----------------------------------------------------------------------------
(* What the publisher writes                                               *)

\* A message that is begun puts its stream in order.
LEMMA OpenedOk ==
  ASSUME NEW cid \in AllCids, NEW s, StreamOk(cid, s), NEW m, MessageOk(m), m.cid = cid,
         NEW fmt \in Formats(s, m)
  PROVE  StreamOk(cid, Opened(s, m, fmt)) /\ Opened(s, m, fmt).started = TRUE
  <1>1. PICK z : z = Opened(s, m, fmt)
    OBVIOUS
  <1>2. PICK d, e : d = (IF fmt = 0 THEN m.ts ELSE m.ts - s.ts) /\ e = (fmt = 0 /\ m.ts >= ExtTime)
    OBVIOUS
  <1>3. /\ m.ts \in Nat /\ m.payload \in Seq(Nat) /\ Len(m.payload) \in Nat \ {0}
        /\ m.type \in Nat /\ m.sid \in {0, PlayerSid}
    BY MessageFacts
  <1>4. ExtTime \in Nat \ {0}
    BY ChunkStreamAssumption
  <1>5. d \in Nat
    <2>1. fmt \in 0..3 /\ s.ts \in Nat /\ (fmt # 0 => Time(s, m, fmt) \in 0..ExtTime - 1)
      BY FormatFacts
    <2>2. d = Time(s, m, fmt)
      BY <1>2 DEF Time
    <2>3. CASE fmt = 0
      BY <1>2, <1>3, <2>3
    <2>4. CASE fmt # 0
      BY <1>4, <2>1, <2>2, <2>4
    <2> QED
      BY <2>3, <2>4
  <1>6. e \in BOOLEAN /\ (e => m.ts >= ExtTime)
    BY <1>2, <1>3, <1>4
  <1>7. m.ts >= ExtTime => Plain(m)
    BY <1>3, <1>4 DEF MessageOk
  <1>8. z = [started |-> TRUE, ts |-> m.ts, delta |-> d, msg |-> m, left |-> m.payload, extended |-> e]
    BY <1>1, <1>2 DEF Opened
  <1>9. /\ z.started = TRUE /\ z.ts = m.ts /\ z.delta = d /\ z.msg = m /\ z.left = m.payload /\ z.extended = e
        /\ z \in StreamType({TRUE, m.ts, d, m, m.payload, e})
    BY <1>8 DEF StreamType
  <1>10. Plain(m) => \A i \in 1..Len(m.payload) : m.payload[i] % TimeMod = 0
    BY DEF Plain
  <1>11. StreamOk(cid, z)
    <2>1. IsStream(z) /\ z.started \in BOOLEAN /\ MessageOk(z.msg) /\ z.msg.cid = cid /\ z.ts = z.msg.ts
      BY <1>9 DEF IsStream
    <2>2. z.delta \in Nat /\ z.extended \in BOOLEAN /\ z.left \in Seq(Nat) /\ Len(z.left) <= Len(z.msg.payload)
      BY <1>3, <1>5, <1>6, <1>9
    <2>3. z.extended => z.msg.ts >= ExtTime /\ Plain(z.msg) /\ \A i \in 1..Len(z.left) : z.left[i] % TimeMod = 0
      BY <1>6, <1>7, <1>9, <1>10
    <2> QED
      BY <1>9, <2>1, <2>2, <2>3 DEF StreamOk
  <1> QED
    BY <1>1, <1>9, <1>11

\* The message header and the extended timestamp are naturals.
LEMMA HeadType ==
  ASSUME NEW s, NEW m, NEW fmt \in 0..3, Time(s, m, fmt) \in Nat, Len(m.payload) \in Nat,
         m.type \in Nat, m.sid \in Nat
  PROVE  HeadOf(s, m, fmt) \in Seq(Nat)
  <1>1. PICK t \in Nat, l \in Nat, y \in Nat, i \in Nat :
          t = Min({Time(s, m, fmt), ExtTime}) /\ l = Len(m.payload) /\ y = m.type /\ i = m.sid
    <2>1. Min({Time(s, m, fmt), ExtTime}) \in Nat
      BY MinPair, ChunkStreamAssumption
    <2> QED
      BY <2>1
  <1>2. PICK n \in 0..4 : n = MessageHeaderSize[fmt + 1]
    BY DEF MessageHeaderSize
  <1>3. PICK q : q = <<t, l, y, i>>
    OBVIOUS
  <1>4. \A j \in 1..n : q[j] \in Nat
    BY <1>3
  <1>5. SubSeq(q, 1, n) \in Seq(Nat)
    BY <1>4, SubSeqProperties
  <1>6. HeadOf(s, m, fmt) = SubSeq(q, 1, n)
    <2>1. 0 + 1 = 1 /\ 0 + n = n
      OBVIOUS
    <2> QED
      BY <1>1, <1>2, <1>3, <2>1 DEF HeadOf, Slice
  <1> QED
    BY <1>5, <1>6

\* A chunk is made of its four parts, and is never empty.
MadeOf(c, B, H, X, D) ==
    /\ B \in Seq(Nat) /\ H \in Seq(Nat) /\ X \in Seq(Nat) /\ D \in Seq(Nat)
    /\ Len(B) \in Nat \ {0} /\ Len(H) \in Nat /\ Len(X) \in Nat /\ Len(D) \in Nat \ {0}
    /\ c = ((B \o H) \o X) \o D
    /\ c \in Seq(Nat) /\ Len(c) \in Nat \ {0}

\* Four such parts make a chunk, which is not empty.
LEMMA MakeChunk ==
  ASSUME NEW B \in Seq(Nat), NEW H \in Seq(Nat), NEW X \in Seq(Nat), NEW D \in Seq(Nat),
         B # <<>>, D # <<>>
  PROVE  MadeOf(((B \o H) \o X) \o D, B, H, X, D)
  <1>1. Len(B) \in Nat \ {0} /\ Len(D) \in Nat \ {0} /\ Len(H) \in Nat /\ Len(X) \in Nat
    BY EmptySeq, LenProperties
  <1>2. PICK bh, bhx, c : bh = B \o H /\ bhx = bh \o X /\ c = bhx \o D
    OBVIOUS
  <1>3. bh \in Seq(Nat) /\ Len(bh) = Len(B) + Len(H)
    BY <1>2, ConcatProperties
  <1>4. bhx \in Seq(Nat) /\ Len(bhx) = Len(bh) + Len(X)
    BY <1>2, <1>3, ConcatProperties
  <1>5. c \in Seq(Nat) /\ Len(c) = Len(bhx) + Len(D)
    BY <1>2, <1>4, ConcatProperties
  <1>6. Len(c) \in Nat \ {0}
    BY <1>1, <1>3, <1>4, <1>5
  <1> QED
    BY <1>1, <1>2, <1>5, <1>6 DEF MadeOf

\* The basic header has one to three bytes.
LEMMA BasicType ==
  ASSUME NEW fmt \in 0..3, NEW cid \in AllCids
  PROVE  BasicHeader(fmt, cid) \in Seq(Nat) /\ BasicHeader(fmt, cid) # <<>>
  <1>1. \A i \in 1..Len(BasicHeader(fmt, cid)) : BasicHeader(fmt, cid)[i] = BasicHeader(fmt, cid)[i]
    OBVIOUS
  <1>2. cid \in Nat /\ cid > 1
    BY CidFacts
  <1>3. BasicHeader(fmt, cid) \in Seq(Nat) /\ Len(BasicHeader(fmt, cid)) \in Nat \ {0}
    BY <1>1, <1>2, BasicRead
  <1> QED
    BY <1>3, EmptySeq

\* A piece of a payload that is not empty is not empty.
LEMMA PieceType ==
  ASSUME NEW s, s.left \in Seq(Nat), s.left # <<>>, NEW n \in Nat \ {0}
  PROVE  /\ Piece(s, n) \in Seq(Nat) /\ Piece(s, n) # <<>> /\ Len(Piece(s, n)) \in Nat \ {0}
         /\ 1 \in 1..Len(s.left) /\ Piece(s, n)[1] = s.left[1]
  <1>1. PICK D, q : D = Piece(s, n) /\ q = s.left
    OBVIOUS
  <1>2. PICK t : Parts(D, t, q, n)
    BY <1>1, PieceAndRest DEF Piece
  <1>3. Len(q) \in Nat \ {0}
    BY <1>1, EmptySeq
  <1>4. D \in Seq(Nat) /\ Len(D) = (IF n <= Len(q) THEN n ELSE Len(q)) /\ \A i \in 1..Len(D) : D[i] = q[i]
    BY <1>2 DEF Parts
  <1>5. Len(D) \in Nat \ {0}
    BY <1>3, <1>4
  <1>6. D # <<>>
    BY <1>5, EmptySeq
  <1>7. 1 \in 1..Len(q) /\ D[1] = q[1]
    BY <1>3, <1>4, <1>5
  <1> QED
    BY <1>1, <1>4, <1>5, <1>6, <1>7

\* The first chunk of a message, in any format in which it may follow the last
\* message of its chunk stream.
LEMMA FirstMade ==
  ASSUME NEW cid \in AllCids, NEW s, StreamOk(cid, s), NEW m, MessageOk(m), m.cid = cid,
         NEW fmt \in Formats(s, m), NEW n \in Nat \ {0}
  PROVE  MadeOf(FirstChunk(s, m, fmt, n), BasicHeader(fmt, cid), HeadOf(s, m, fmt), ExtensionOf(s, m, fmt),
                Piece(Opened(s, m, fmt), n))
  <1>1. PICK z : z = Opened(s, m, fmt)
    OBVIOUS
  <1>2. z.left = m.payload
    BY <1>1 DEF Opened
  <1>3. PICK B, H, X, D : /\ B = BasicHeader(fmt, cid) /\ D = Piece(z, n)
                          /\ H = HeadOf(s, m, fmt) /\ X = ExtensionOf(s, m, fmt)
    OBVIOUS
  <1>4. FirstChunk(s, m, fmt, n) = ((B \o H) \o X) \o D
    <2>1. D = Slice(m.payload, 0, Min({n, Len(m.payload)}))
      BY <1>2, <1>3 DEF Piece
    <2> QED
      BY <1>3, <2>1 DEF FirstChunk, HeadOf, ExtensionOf, Time
  <1>5. fmt \in 0..3 /\ Time(s, m, fmt) \in Nat
    <2>1. /\ fmt \in 0..3
          /\ fmt # 0 => Time(s, m, fmt) \in 0..ExtTime - 1
      BY FormatFacts
    <2>2. fmt = 0 => Time(s, m, fmt) = m.ts
      BY DEF Time
    <2> QED
      BY <2>1, <2>2, MessageFacts, ChunkStreamAssumption
  <1>6. /\ m.payload \in Seq(Nat) /\ m.payload # <<>> /\ Len(m.payload) \in Nat \ {0}
        /\ m.type \in Nat /\ m.sid \in Nat
    BY MessageFacts, ChunkProtocolAssumption
  <1>7. H \in Seq(Nat)
    BY <1>3, <1>5, <1>6, HeadType
  <1>8. X \in Seq(Nat)
    BY <1>3, <1>5, EmptySeq DEF ExtensionOf, Extension
  <1>9. D \in Seq(Nat) /\ D # <<>>
    BY <1>2, <1>3, <1>6, PieceType
  <1>10. B \in Seq(Nat) /\ B # <<>>
    BY <1>3, <1>5, BasicType
  <1>11. MadeOf(((B \o H) \o X) \o D, B, H, X, D)
    BY <1>7, <1>8, <1>9, <1>10, MakeChunk
  <1> QED
    BY <1>1, <1>3, <1>4, <1>11

\* The first chunk of a message is read as it was written.
LEMMA FirstRead ==
  ASSUME NEW cid \in AllCids, NEW s, StreamOk(cid, s), s.left = <<>>, NEW m, MessageOk(m), m.cid = cid,
         NEW fmt \in Formats(s, m), NEW r, IsReader(r), r.in_chunk_size \in Nat \ {0},
         Agree(ChunkOf(r, cid), s), NEW rest \in Seq(Nat)
  PROVE  \A w : w = FirstChunk(s, m, fmt, r.in_chunk_size) \o rest =>
            ReadAs(recv_interlaced_message(r, w), r, cid, Opened(s, m, fmt), w, rest)
  <1>1. PICK n \in Nat \ {0} : n = r.in_chunk_size
    OBVIOUS
  <1>2. PICK z : z = Opened(s, m, fmt)
    OBVIOUS
  <1>3. StreamOk(cid, z) /\ z.started = TRUE /\ z.left # <<>> /\ z.msg = m
    <2>1. StreamOk(cid, Opened(s, m, fmt)) /\ Opened(s, m, fmt).started = TRUE
      BY OpenedOk
    <2>2. Opened(s, m, fmt).left = m.payload /\ Opened(s, m, fmt).msg = m
      BY DEF Opened
    <2>3. m.payload # <<>>
      BY MessageFacts
    <2> QED
      BY <1>2, <2>1, <2>2, <2>3
  <1>4. PICK B, H, X, D : /\ B = BasicHeader(fmt, cid) /\ D = Piece(z, n)
                          /\ H = HeadOf(s, m, fmt) /\ X = ExtensionOf(s, m, fmt)
    OBVIOUS
  <1>5. PICK c : c = FirstChunk(s, m, fmt, n)
    OBVIOUS
  <1>6. MadeOf(c, B, H, X, D)
    BY <1>2, <1>4, <1>5, FirstMade
  <1>7. PICK w : w = c \o rest
    OBVIOUS
  <1>8. Laid(w, Nat, B, H, X, D, rest)
    BY <1>6, <1>7 DEF Laid, MadeOf
  <1>9. PICK v : v = SubSeq(w, Len(B) + 1, Len(w))
    OBVIOUS
  <1>10. Behind(v, Nat, H, X, D, rest)
    BY <1>8, <1>9, LaidOut
  <1>11. PICK k : k = ChunkOf(r, cid)
    OBVIOUS
  <1>12. HeaderDone(k, cid, fmt, v, Len(H) + Len(X), z)
    <2>1. Agree(k, s) /\ Len(rest) \in Nat /\ Len(D) \in Nat
      BY <1>6, <1>11, LenProperties DEF MadeOf
    <2>2. Behind(v, Nat, HeadOf(s, m, fmt), ExtensionOf(s, m, fmt), D, rest)
      BY <1>4, <1>10
    <2>3. HeaderDone(k, cid, fmt, v, Len(HeadOf(s, m, fmt)) + Len(ExtensionOf(s, m, fmt)), Opened(s, m, fmt))
      BY <2>1, <2>2, FirstHeader
    <2> QED
      BY <1>2, <1>4, <2>3
  <1>13. PayloadKnown(k, z)
    <2>1. k.partial = <<>>
      BY <1>11 DEF Agree, StreamOk
    <2>2. z.left = m.payload /\ z.msg = m /\ m.payload \in Seq(Nat)
      BY <1>2, MessageFacts DEF Opened
    <2>3. <<>> \o m.payload = m.payload /\ <<>> \in Seq(Nat)
      BY <2>2, ConcatEmptySeq, EmptySeq
    <2> QED
      BY <2>1, <2>2, <2>3 DEF PayloadKnown
  <1>14. ReadAs(recv_interlaced_message(r, w), r, cid, z, w, rest)
    <2>1. Laid(w, Nat, BasicHeader(fmt, cid), H, X, Piece(z, r.in_chunk_size), rest)
      BY <1>1, <1>4, <1>8
    <2>2. HeaderDone(ChunkOf(r, cid), cid, fmt, SubSeq(w, Len(BasicHeader(fmt, cid)) + 1, Len(w)), Len(H) + Len(X), z)
      BY <1>4, <1>9, <1>11, <1>12
    <2>3. fmt \in 0..3 /\ cid \in Nat /\ cid > 1
      BY CidFacts, FormatFacts
    <2> QED
      BY <1>3, <1>11, <1>13, <2>1, <2>2, <2>3, ChunkRead
  <1> QED
    BY <1>1, <1>2, <1>5, <1>7, <1>14

\* A later chunk of a message.
LEMMA LaterMade ==
  ASSUME NEW cid \in AllCids, NEW s, StreamOk(cid, s), s.started, s.left # <<>>, NEW repeats \in BOOLEAN,
         NEW n \in Nat \ {0}
  PROVE  MadeOf(LaterChunk(repeats, s, n), BasicHeader(3, cid), <<>>, RepeatOf(repeats, s), Piece(s, n))
  <1>1. MessageOk(s.msg) /\ s.msg.cid = cid /\ s.left \in Seq(Nat)
    BY DEF StreamOk
  <1>2. PICK B, X, D : B = BasicHeader(3, cid) /\ X = RepeatOf(repeats, s) /\ D = Piece(s, n)
    OBVIOUS
  <1>3. LaterChunk(repeats, s, n) = (B \o X) \o D
    BY <1>1, <1>2 DEF LaterChunk, RepeatOf, Piece
  <1>4. X \in Seq(Nat)
    <2>1. s.msg.ts \in Nat
      BY <1>1, MessageFacts
    <2> QED
      BY <1>2, <2>1, EmptySeq DEF RepeatOf, Extension
  <1>5. D \in Seq(Nat) /\ D # <<>>
    BY <1>1, <1>2, PieceType
  <1>6. B \in Seq(Nat) /\ B # <<>>
    <2>1. 3 \in 0..3
      OBVIOUS
    <2> QED
      BY <1>2, <2>1, BasicType
  <1>7. <<>> \in Seq(Nat) /\ B \o <<>> = B
    BY <1>6, EmptySeq, ConcatEmptySeq
  <1>8. MadeOf(((B \o <<>>) \o X) \o D, B, <<>>, X, D)
    BY <1>4, <1>5, <1>6, <1>7, MakeChunk
  <1> QED
    BY <1>2, <1>3, <1>7, <1>8

\* So is a later one, whether it repeats the extended timestamp or not.
LEMMA LaterRead ==
  ASSUME NEW cid \in AllCids, NEW s, StreamOk(cid, s), s.started, s.left # <<>>, NEW repeats \in BOOLEAN,
         NEW r, IsReader(r), r.in_chunk_size \in Nat \ {0},
         Agree(ChunkOf(r, cid), s), NEW rest \in Seq(Nat)
  PROVE  \A w : w = LaterChunk(repeats, s, r.in_chunk_size) \o rest =>
            ReadAs(recv_interlaced_message(r, w), r, cid, s, w, rest)
  <1>1. PICK n \in Nat \ {0} : n = r.in_chunk_size
    OBVIOUS
  <1>2. /\ s.left \in Seq(Nat) /\ s.extended \in BOOLEAN
        /\ s.extended => \A i \in 1..Len(s.left) : s.left[i] % TimeMod = 0
    BY DEF StreamOk
  <1>3. PICK B, X, D : B = BasicHeader(3, cid) /\ X = RepeatOf(repeats, s) /\ D = Piece(s, n)
    OBVIOUS
  <1>4. PICK c : c = LaterChunk(repeats, s, n)
    OBVIOUS
  <1>5. MadeOf(c, B, <<>>, X, D)
    BY <1>3, <1>4, LaterMade
  <1>6. Len(D) \in Nat \ {0} /\ (s.extended => D[1] % TimeMod = 0)
    <2>1. Len(D) \in Nat \ {0} /\ 1 \in 1..Len(s.left) /\ D[1] = s.left[1]
      BY <1>2, <1>3, PieceType
    <2> QED
      BY <1>2, <2>1
  <1>7. PICK w : w = c \o rest
    OBVIOUS
  <1>8. Laid(w, Nat, B, <<>>, X, D, rest)
    BY <1>5, <1>7 DEF Laid, MadeOf
  <1>9. PICK v : v = SubSeq(w, Len(B) + 1, Len(w))
    OBVIOUS
  <1>10. Behind(v, Nat, <<>>, X, D, rest)
    BY <1>8, <1>9, LaidOut
  <1>11. PICK k : k = ChunkOf(r, cid)
    OBVIOUS
  <1>12. HeaderDone(k, cid, 3, v, Len(<<>>) + Len(X), s)
    <2>1. Agree(k, s) /\ Len(rest) \in Nat
      BY <1>11, LenProperties
    <2>2. HeaderDone(k, cid, 3, v, Len(X), s)
      BY <1>3, <1>6, <1>10, <2>1, LaterHeader
    <2>3. Len(X) \in Nat /\ Len(<<>>) = 0
      BY <1>5, EmptySeq DEF MadeOf
    <2>4. Len(<<>>) + Len(X) = Len(X)
      BY <2>3
    <2> QED
      BY <2>2, <2>4
  <1>13. PayloadKnown(k, s)
    BY <1>11 DEF Agree
  <1>14. ReadAs(recv_interlaced_message(r, w), r, cid, s, w, rest)
    <2>1. Laid(w, Nat, BasicHeader(3, cid), <<>>, X, Piece(s, r.in_chunk_size), rest)
      BY <1>1, <1>3, <1>8
    <2>2. HeaderDone(ChunkOf(r, cid), cid, 3, SubSeq(w, Len(BasicHeader(3, cid)) + 1, Len(w)), Len(<<>>) + Len(X), s)
      BY <1>3, <1>9, <1>11, <1>12
    <2>3. 3 \in 0..3 /\ cid \in Nat /\ cid > 1
      BY CidFacts
    <2> QED
      BY <1>11, <1>13, <2>1, <2>2, <2>3, ChunkRead
  <1> QED
    BY <1>1, <1>4, <1>7, <1>14

-----------------------------------------------------------------------------
(* What a message does to the reader                                       *)

\* What comes of it that nb bytes have been read: nothing, or an
\* acknowledgement.
CountedAs(a, r, nb) ==
    LET delta == nb - r.nb_recv
        seq   == IF r.seq + delta > SeqMax THEN delta ELSE r.seq + delta
    IN  IF r.window <= 0 \/ delta < r.window \div 2
        THEN a.r.nb_recv = r.nb_recv /\ a.r.seq = r.seq /\ a.responses = <<>>
        ELSE /\ a.r.nb_recv = nb /\ a.r.seq = seq
             /\ a.responses = <<Message(CidProtocolControl, MsgAcknowledgement, 0, 0, <<seq>>)>>
AckedAs(a, r, nb) ==
    /\ IsReader(a.r) /\ a.r.chunks = r.chunks /\ a.r.window = r.window
    /\ a.r.in_chunk_size = r.in_chunk_size /\ a.r.in_buffer_length = r.in_buffer_length
    /\ CountedAs(a, r, nb)

\* response_acknowledgement_message does that.
LEMMA AckFields ==
  ASSUME NEW r, IsReader(r), NEW nb
  PROVE  AckedAs(response_acknowledgement_message(r, nb), r, nb)
  <1>1. PICK a : a = response_acknowledgement_message(r, nb)
    OBVIOUS
  <1>2. PICK delta : delta = nb - r.nb_recv
    OBVIOUS
  <1>3. PICK seq : seq = IF r.seq + delta > SeqMax THEN delta ELSE r.seq + delta
    OBVIOUS
  <1>4. PICK q, ack : /\ q = [r EXCEPT !.nb_recv = nb, !.seq = seq]
                      /\ ack = Message(CidProtocolControl, MsgAcknowledgement, 0, 0, <<seq>>)
    OBVIOUS
  <1>5. a = IF r.window <= 0 \/ delta < r.window \div 2
            THEN [r |-> r, responses |-> <<>>] ELSE [r |-> q, responses |-> <<ack>>]
    BY <1>1, <1>2, <1>3, <1>4, Zenon DEF response_acknowledgement_message
  <1>6. a.r = r \/ a.r = q
    BY <1>5
  <1>7. /\ IsReader(q) /\ q.chunks = r.chunks /\ q.window = r.window
        /\ q.in_chunk_size = r.in_chunk_size /\ q.in_buffer_length = r.in_buffer_length
        /\ q.nb_recv = nb /\ q.seq = seq
    <2>1. PICK A : r \in ReaderType(A)
      BY DEF IsReader
    <2>2. r \in ReaderType(A \cup {nb, seq}) /\ nb \in A \cup {nb, seq} /\ seq \in A \cup {nb, seq}
      BY <2>1 DEF ReaderType
    <2>3. /\ q \in ReaderType(A \cup {nb, seq}) /\ q.chunks = r.chunks /\ q.window = r.window
          /\ q.in_chunk_size = r.in_chunk_size /\ q.in_buffer_length = r.in_buffer_length
          /\ q.nb_recv = nb /\ q.seq = seq
      BY <1>4, <2>2 DEF ReaderType
    <2> QED
      BY <2>3 DEF IsReader
  <1>8. CountedAs(a, r, nb)
    <2>1. CASE r.window <= 0 \/ delta < r.window \div 2
      <3>1. a.r = r /\ a.responses = <<>>
        BY <1>5, <2>1
      <3> QED
        BY <1>2, <2>1, <3>1, Zenon DEF CountedAs
    <2>2. CASE ~(r.window <= 0 \/ delta < r.window \div 2)
      <3>1. a.r = q /\ a.responses = <<ack>>
        BY <1>5, <2>2
      <3>2. a.r.nb_recv = nb /\ a.r.seq = seq
        BY <1>7, <3>1
      <3> QED
        BY <1>2, <1>3, <1>4, <2>2, <3>1, <3>2, Zenon DEF CountedAs
    <2> QED
      BY <2>1, <2>2
  <1>9. AckedAs(a, r, nb)
    BY <1>6, <1>7, <1>8 DEF AckedAs
  <1> QED
    BY <1>1, <1>9

\* Of the messages that the publisher sends only one changes the chunk size,
\* and one the window.
TakenAs(done, r, m, nb) ==
    /\ IsReader(done.r) /\ done.r.chunks = r.chunks /\ CountedAs(done, r, nb)
    /\ done.r.in_chunk_size = IF m.type = MsgSetChunkSize THEN m.payload[1] ELSE r.in_chunk_size
    /\ done.r.window = IF m.type = MsgWindowAckSize /\ m.payload[1] > 0 THEN m.payload[1] ELSE r.window

\* on_recv_message does that, for the messages that the publisher sends.
LEMMA MessageTaken ==
  ASSUME NEW r, IsReader(r), NEW m, m.type \in {MsgSetChunkSize, MsgWindowAckSize, MsgAudio, MsgVideo}, NEW nb
  PROVE  TakenAs(on_recv_message(r, m, nb), r, m, nb)
  <1>1. PICK a : a = response_acknowledgement_message(r, nb)
    OBVIOUS
  <1>2. AckedAs(a, r, nb)
    BY <1>1, AckFields
  <1>3. PICK q, x : a = [r |-> q, responses |-> x]
    <2>1. PICK delta, seq, b, ack :
            a = IF r.window <= 0 \/ delta < r.window \div 2
                THEN [r |-> r, responses |-> <<>>] ELSE [r |-> b, responses |-> <<ack>>]
      BY <1>1, Zenon DEF response_acknowledgement_message
    <2> QED
      BY <2>1, Zenon
  <1>4. q = a.r
    BY <1>3
  <1>5. PICK done : done = on_recv_message(r, m, nb)
    OBVIOUS
  <1>6. PICK A : q \in ReaderType(A)
    BY <1>2, <1>4 DEF AckedAs, IsReader
  <1>7. ASSUME NEW b, b.nb_recv = q.nb_recv, b.seq = q.seq, done = [r |-> b, responses |-> x]
        PROVE  done.r = b /\ CountedAs(done, r, nb)
    <2>1. done.r = b /\ done.responses = x
      BY <1>7
    <2>2. done.r.nb_recv = a.r.nb_recv /\ done.r.seq = a.r.seq /\ done.responses = a.responses
      BY <1>3, <1>4, <1>7, <2>1
    <2>3. CountedAs(a, r, nb)
      BY <1>2 DEF AckedAs
    <2>4. CountedAs(done, r, nb)
      BY <2>2, <2>3 DEF CountedAs
    <2> QED
      BY <2>1, <2>4
  <1>8. CASE m.type = MsgSetChunkSize
    <2>1. done = [a EXCEPT !.r.in_chunk_size = m.payload[1]]
      BY <1>1, <1>5, <1>8
         DEF on_recv_message, MsgSetChunkSize, MsgWindowAckSize, MsgUserControl, SetBufferLength, PingRequest
    <2>2. PICK p, b : p = m.payload[1] /\ b = [q EXCEPT !.in_chunk_size = p]
      OBVIOUS
    <2>3. done = [r |-> b, responses |-> x]
      BY <1>3, <2>1, <2>2
    <2>4. q \in ReaderType(A \cup {p}) /\ p \in A \cup {p}
      BY <1>6 DEF ReaderType
    <2>5. /\ b \in ReaderType(A \cup {p}) /\ b.chunks = q.chunks /\ b.in_chunk_size = p
          /\ b.nb_recv = q.nb_recv /\ b.seq = q.seq /\ b.window = q.window
      BY <2>2, <2>4 DEF ReaderType
    <2>6. done.r = b /\ CountedAs(done, r, nb)
      BY <1>7, <2>3, <2>5
    <2>7. m.type # MsgWindowAckSize
      BY <1>8 DEF MsgSetChunkSize, MsgWindowAckSize
    <2>8. TakenAs(done, r, m, nb)
      BY <1>2, <1>4, <1>8, <2>2, <2>5, <2>6, <2>7 DEF TakenAs, AckedAs, IsReader
    <2> QED
      BY <1>5, <2>8
  <1>9. CASE m.type = MsgWindowAckSize
    <2>1. done = [a EXCEPT !.r.window = IF m.payload[1] > 0 THEN m.payload[1] ELSE @]
      BY <1>1, <1>5, <1>9
         DEF on_recv_message, MsgSetChunkSize, MsgWindowAckSize, MsgUserControl, SetBufferLength, PingRequest
    <2>2. PICK p, b : p = (IF m.payload[1] > 0 THEN m.payload[1] ELSE q.window) /\ b = [q EXCEPT !.window = p]
      OBVIOUS
    <2>3. done = [r |-> b, responses |-> x]
      BY <1>3, <2>1, <2>2
    <2>4. q \in ReaderType(A \cup {p}) /\ p \in A \cup {p}
      BY <1>6 DEF ReaderType
    <2>5. /\ b \in ReaderType(A \cup {p}) /\ b.chunks = q.chunks /\ b.in_chunk_size = q.in_chunk_size
          /\ b.nb_recv = q.nb_recv /\ b.seq = q.seq /\ b.window = p
      BY <2>2, <2>4 DEF ReaderType
    <2>6. done.r = b /\ CountedAs(done, r, nb)
      BY <1>7, <2>3, <2>5
    <2>7. m.type # MsgSetChunkSize
      BY <1>9 DEF MsgSetChunkSize, MsgWindowAckSize
    <2>8. TakenAs(done, r, m, nb)
      BY <1>2, <1>4, <1>9, <2>2, <2>5, <2>6, <2>7 DEF TakenAs, AckedAs, IsReader
    <2> QED
      BY <1>5, <2>8
  <1>10. CASE m.type \in {MsgAudio, MsgVideo}
    <2>1. done = a
      BY <1>1, <1>5, <1>10
         DEF on_recv_message, MsgSetChunkSize, MsgWindowAckSize, MsgUserControl, MsgAudio, MsgVideo
    <2>2. m.type # MsgSetChunkSize /\ m.type # MsgWindowAckSize
      BY <1>10 DEF MsgSetChunkSize, MsgWindowAckSize, MsgAudio, MsgVideo
    <2>3. TakenAs(done, r, m, nb)
      BY <1>2, <2>1, <2>2 DEF TakenAs, AckedAs
    <2> QED
      BY <1>5, <2>3
  <1> QED
    BY <1>8, <1>9, <1>10

\* What a step of the reader comes to when the chunk carries the next piece of
\* the message of z.
AdvancedBy(cid, z) ==
    LET n == srv.in_chunk_size
    IN  /\ IsReader(srv') /\ Agree(ChunkOf(srv', cid), Cut(z, n))
        /\ \A c : c # cid => ChunkOf(srv', c) = ChunkOf(srv, c)
        /\ srv'.in_chunk_size =
             IF Rest(z.left, n) = <<>> /\ z.msg.type = MsgSetChunkSize THEN z.msg.payload[1] ELSE n
        /\ got' = IF Rest(z.left, n) = <<>> THEN [got EXCEPT ![cid] = Append(@, Stamped(z.msg))] ELSE got

\* What it has counted then, and what it has answered.
AnsweredBy(cid, z) ==
    LET t == Rest(z.left, srv.in_chunk_size)
    IN  /\ Len(wire') <= Len(wire) /\ cid \in DOMAIN srv'.chunks
        /\ t # <<>> => SameReader(srv', srv) /\ acked' = acked
        /\ t = <<>> =>
             /\ \E nb, done :
                  /\ nb \in (written - Len(wire'))..written
                  /\ CountedAs(done, srv, nb) /\ srv' = done.r /\ acked' = acked \o done.responses
             /\ srv'.window = IF z.msg.type = MsgWindowAckSize /\ z.msg.payload[1] > 0
                             THEN z.msg.payload[1] ELSE srv.window
             /\ latest' = z.msg.type

\* Recv does that.
LEMMA RecvStep ==
  ASSUME Recv, NEW cid \in AllCids, NEW z, StreamOk(cid, z), z.started, IsReader(srv),
         NEW rest, Len(rest) \in Nat, Len(wire) \in Nat, written \in Nat,
         ReadAs(recv_interlaced_message(srv, wire), srv, cid, z, wire, rest)
  PROVE  wire' = rest /\ status' = status /\ AdvancedBy(cid, z) /\ AnsweredBy(cid, z)
  <1>1. PICK n, m, t : n = srv.in_chunk_size /\ m = z.msg /\ t = Rest(z.left, n)
    OBVIOUS
  <1>2. PICK read : read = recv_interlaced_message(srv, wire)
    OBVIOUS
  <1>3. /\ read.ok = TRUE /\ Rest(wire, read.used) = rest
        /\ read.used \in Nat /\ Len(wire) = read.used + Len(rest) /\ cid \in DOMAIN read.r.chunks
        /\ t = <<>> => read.whole = TRUE /\ read.msg = Stamped(m)
        /\ t # <<>> => read.whole = FALSE
        /\ IsReader(read.r) /\ SameReader(read.r, srv)
        /\ Agree(ChunkOf(read.r, cid), Cut(z, n))
        /\ \A c : c # cid => ChunkOf(read.r, c) = ChunkOf(srv, c)
    BY <1>1, <1>2 DEF ReadAs
  <1>4. MessageOk(m) /\ m.cid = cid
    BY <1>1 DEF StreamOk
  <1>5. PICK y : y = Stamped(m)
    OBVIOUS
  <1>6. /\ y.cid = cid /\ y.type = m.type /\ y.payload = m.payload /\ m.payload # <<>>
        /\ m.type \in {MsgSetChunkSize, MsgWindowAckSize, MsgAudio, MsgVideo}
        /\ m.type = MsgSetChunkSize => m.payload[1] >= MinChunk /\ m.payload[1] \in Nat
    <2>1. y = Message(m.cid, m.type, m.sid, m.ts % TimeMod, m.payload)
      BY <1>4, <1>5, StampedMessage
    <2>2. m.payload # <<>> /\ m.payload \in Seq(Nat) /\ Len(m.payload) \in Nat \ {0}
      BY <1>4, MessageFacts
    <2>3. m.payload[1] \in Nat
      BY <2>2, ElementOfSeq
    <2>4. /\ m.type \in {MsgSetChunkSize, MsgWindowAckSize, MsgAudio, MsgVideo}
          /\ m.type = MsgSetChunkSize => m.payload[1] >= MinChunk
      BY <1>4 DEF MessageOk, MsgSetChunkSize, MsgWindowAckSize, MsgAudio, MsgVideo
    <2> QED
      BY <1>4, <2>1, <2>2, <2>3, <2>4 DEF Message
  <1>7. ~(read.whole /\ ChunkSizeRefused(read.msg))
    <2>1. CASE t = <<>>
      <3>1. ~ChunkSizeRefused(y)
        BY <1>6, ChunkStreamAssumption DEF ChunkSizeRefused
      <3> QED
        BY <1>3, <1>5, <2>1, <3>1
    <2>2. CASE t # <<>>
      BY <1>3, <2>2
    <2> QED
      BY <2>1, <2>2
  <1>8. /\ wire' = Rest(wire, read.used) /\ UNCHANGED status
        /\ IF ~read.whole \/ read.msg.payload = <<>>
           THEN srv' = read.r /\ UNCHANGED <<got, latest, acked, queue>>
           ELSE \E nb \in GivenBytes(read.used) :
                  \E done \in {on_recv_message(read.r, read.msg, nb)} :
                    /\ srv' = done.r /\ acked' = acked \o done.responses
                    /\ got' = [got EXCEPT ![read.msg.cid] = Append(@, read.msg)] /\ latest' = read.msg.type
    <2>1. PICK other \in {recv_interlaced_message(srv, wire)} :
          IF ~other.ok \/ (other.whole /\ ChunkSizeRefused(other.msg))
          THEN status' = "publisher refused" /\ UNCHANGED <<wire, srvVars, queue>>
          ELSE /\ wire' = Rest(wire, other.used)
               /\ UNCHANGED status
               /\ IF ~other.whole \/ other.msg.payload = <<>>
                  THEN srv' = other.r /\ UNCHANGED <<got, latest, acked, queue>>
                  ELSE \E nb \in GivenBytes(other.used) :
                       \E done \in {on_recv_message(other.r, other.msg, nb)} :
                         /\ srv' = done.r
                         /\ acked' = acked \o done.responses
                         /\ got' = [got EXCEPT ![other.msg.cid] = Append(@, other.msg)]
                         /\ latest' = other.msg.type
                         /\ queue' = IF other.msg.type \in {MsgAudio, MsgVideo} THEN Append(queue, other.msg) ELSE queue
      BY Zenon DEF Recv
    <2>2. other = read
      BY <1>2, <2>1
    <2>3. ~(~other.ok \/ (other.whole /\ ChunkSizeRefused(other.msg)))
      BY <1>3, <1>7, <2>2
    <2> QED
      BY <2>1, <2>2, <2>3, Zenon
  <1>9. wire' = rest /\ status' = status /\ Len(wire') <= Len(wire)
    BY <1>3, <1>8
  <1>10. CASE t = <<>>
    <2>1. read.whole = TRUE /\ read.msg = y
      BY <1>3, <1>5, <1>10
    <2>2. PICK nb, done :
            /\ nb \in GivenBytes(read.used)
            /\ done = on_recv_message(read.r, y, nb)
            /\ srv' = done.r /\ acked' = acked \o done.responses
            /\ got' = [got EXCEPT ![y.cid] = Append(@, y)] /\ latest' = y.type
      BY <1>6, <1>8, <2>1
    <2>3. TakenAs(done, read.r, y, nb)
      BY <1>3, <1>6, <2>2, MessageTaken
    <2>4. /\ IsReader(srv') /\ srv'.chunks = read.r.chunks
          /\ srv'.in_chunk_size = IF m.type = MsgSetChunkSize THEN m.payload[1] ELSE n
          /\ srv'.window = IF m.type = MsgWindowAckSize /\ m.payload[1] > 0 THEN m.payload[1] ELSE srv.window
      BY <1>1, <1>3, <1>6, <2>2, <2>3 DEF TakenAs, SameReader
    <2>5. \A c : ChunkOf(srv', c) = ChunkOf(read.r, c)
      BY <2>4 DEF ChunkOf
    <2>6. got' = [got EXCEPT ![cid] = Append(@, Stamped(m))]
      BY <1>5, <1>6, <2>2
    <2>7. Agree(ChunkOf(srv', cid), Cut(z, n)) /\ \A c : c # cid => ChunkOf(srv', c) = ChunkOf(srv, c)
      BY <1>3, <2>5
    <2>8. AdvancedBy(cid, z)
      BY <1>1, <1>10, <2>4, <2>6, <2>7 DEF AdvancedBy
    <2>9. CountedAs(done, srv, nb)
      <3>1. CountedAs(done, read.r, nb)
        BY <2>3 DEF TakenAs
      <3> QED
        BY <1>3, <3>1 DEF CountedAs, SameReader
    <2>10. nb \in (written - Len(wire'))..written
      <3>1. written - Len(wire) + read.used = written - Len(wire')
        BY <1>3, <1>9
      <3> QED
        BY <2>2, <3>1 DEF GivenBytes
    <2>11. AnsweredBy(cid, z)
      BY <1>1, <1>3, <1>6, <1>9, <1>10, <2>2, <2>4, <2>9, <2>10 DEF AnsweredBy
    <2> QED
      BY <1>9, <2>8, <2>11
  <1>11. CASE t # <<>>
    <2>1. srv' = read.r /\ got' = got /\ acked' = acked
      BY <1>3, <1>8, <1>11
    <2>2. AdvancedBy(cid, z)
      BY <1>1, <1>3, <1>11, <2>1 DEF AdvancedBy, SameReader
    <2>3. AnsweredBy(cid, z)
      BY <1>1, <1>3, <1>9, <1>11, <2>1 DEF AnsweredBy
    <2> QED
      BY <1>9, <2>2, <2>3
  <1> QED
    BY <1>10, <1>11

-----------------------------------------------------------------------------
(* What is on its way                                                      *)

MsgType == [cid : AllCids, type : Nat, sid : Nat, ts : Nat, payload : Seq(Nat)]

\* The publisher at a moment: what it has on its way, what it knows of its
\* chunk streams, its chunk size and what it has sent.
Snap(w, p, q) == [wire |-> w, cids |-> p.cids, size |-> p.chunk_size, sent |-> q]
SnapOk(x) ==
    /\ x.wire \in Seq(Nat) /\ x.size \in Nat \ {0}
    /\ DOMAIN x.cids = AllCids
    /\ \A c \in AllCids : /\ StreamOk(c, x.cids[c])
                          /\ x.cids[c].left # <<>> => x.cids[c].msg.type \in {MsgAudio, MsgVideo}
    /\ x.sent \in [AllCids -> Seq(MsgType)]

\* A chunk leads from x to y: the first of a message, or a later one.
BeganAs(x, y, m, fmt) ==
    /\ MessageOk(m) /\ x.cids[m.cid].left = <<>> /\ fmt \in Formats(x.cids[m.cid], m)
    /\ x.wire = FirstChunk(x.cids[m.cid], m, fmt, x.size) \o y.wire
    /\ y.cids = [x.cids EXCEPT ![m.cid] = Cut(Opened(x.cids[m.cid], m, fmt), x.size)]
    /\ y.size = IF m.type = MsgSetChunkSize THEN m.payload[1] ELSE x.size
    /\ y.sent = [x.sent EXCEPT ![m.cid] = Append(@, Stamped(m))]
ContinuedAs(x, y, cid, repeats) ==
    /\ cid \in AllCids /\ x.cids[cid].left # <<>>
    /\ x.wire = LaterChunk(repeats, x.cids[cid], x.size) \o y.wire
    /\ y.cids = [x.cids EXCEPT ![cid] = Cut(x.cids[cid], x.size)]
    /\ y.size = x.size /\ y.sent = x.sent
Wrote(x, y, repeats) == (\E m, fmt : BeganAs(x, y, m, fmt)) \/ (\E cid : ContinuedAs(x, y, cid, repeats))

\* The reader r, which has read the messages g, is where the publisher was in x.
Matches(r, g, x) ==
    /\ IsReader(r) /\ r.in_chunk_size = x.size
    /\ g \in [AllCids -> Seq(MsgType)]
    /\ \A c \in AllCids :
         /\ Agree(ChunkOf(r, c), x.cids[c])
         /\ x.sent[c] = IF x.cids[c].left = <<>> THEN g[c] ELSE Append(g[c], Stamped(x.cids[c].msg))

\* What is delivered is a message.
LEMMA StampedType ==
  ASSUME NEW m, MessageOk(m)
  PROVE  Stamped(m) \in MsgType
  <1>1. /\ m.cid \in AllCids /\ m.type \in Nat /\ m.sid \in {0, PlayerSid} /\ m.ts \in Nat
        /\ m.payload \in Seq(Nat)
    BY MessageFacts
  <1>2. m.ts % TimeMod \in Nat
    BY <1>1, ChunkStreamAssumption
  <1>3. m.sid \in Nat
    BY <1>1, ChunkProtocolAssumption
  <1>4. Message(m.cid, m.type, m.sid, m.ts % TimeMod, m.payload) \in MsgType
    BY <1>1, <1>2, <1>3 DEF Message, MsgType
  <1> QED
    BY <1>4, StampedMessage

\* The reader follows the publisher chunk by chunk.
Answered ==
    \E cid, z : cid \in AllCids /\ StreamOk(cid, z) /\ z.started /\ AdvancedBy(cid, z) /\ AnsweredBy(cid, z)

\* When the next chunk on its way leads from x to y, Recv brings the reader
\* from x to y.
LEMMA ReadNext ==
  ASSUME Recv, written \in Nat, NEW x, SnapOk(x), x.wire = wire, NEW y, y.wire \in Seq(Nat),
         NEW repeats \in BOOLEAN, Wrote(x, y, repeats), Matches(srv, got, x)
  PROVE  wire' = y.wire /\ status' = status /\ Matches(srv', got', y) /\ Answered
  <1>1. IsReader(srv) /\ srv.in_chunk_size = x.size /\ x.size \in Nat \ {0} /\ got \in [AllCids -> Seq(MsgType)]
    BY DEF Matches, SnapOk
  <1>2. PICK n : n = x.size
    OBVIOUS
  <1>3. Len(wire) \in Nat /\ Len(y.wire) \in Nat
    BY LenProperties DEF SnapOk
  <1>4. ASSUME NEW m, NEW fmt, BeganAs(x, y, m, fmt)
        PROVE  wire' = y.wire /\ status' = status /\ Matches(srv', got', y) /\ Answered
    <2>1. PICK cid : cid = m.cid
      OBVIOUS
    <2>2. PICK s, z, t : s = x.cids[cid] /\ z = Opened(s, m, fmt) /\ t = Rest(m.payload, n)
      OBVIOUS
    <2>3. /\ MessageOk(m) /\ cid \in AllCids /\ fmt \in Formats(s, m) /\ s.left = <<>>
          /\ StreamOk(cid, s) /\ Agree(ChunkOf(srv, cid), s) /\ x.sent[cid] = got[cid]
      <3>1. MessageOk(m) /\ cid \in AllCids /\ s.left = <<>> /\ fmt \in Formats(s, m)
        BY <1>4, <2>1, <2>2, MessageFacts DEF BeganAs
      <3>2. StreamOk(cid, s)
        BY <2>2, <3>1 DEF SnapOk
      <3>3. Agree(ChunkOf(srv, cid), s) /\ x.sent[cid] = got[cid]
        BY <2>2, <3>1 DEF Matches
      <3> QED
        BY <3>1, <3>2, <3>3
    <2>4. wire = FirstChunk(s, m, fmt, srv.in_chunk_size) \o y.wire
      BY <1>1, <1>4, <2>1, <2>2 DEF BeganAs
    <2>5. ReadAs(recv_interlaced_message(srv, wire), srv, cid, z, wire, y.wire)
      BY <1>1, <2>1, <2>2, <2>3, <2>4, FirstRead
    <2>6. StreamOk(cid, z) /\ z.started = TRUE /\ z.msg = m /\ z.left = m.payload
      <3>1. StreamOk(cid, Opened(s, m, fmt)) /\ Opened(s, m, fmt).started = TRUE
        BY <2>1, <2>3, OpenedOk
      <3> QED
        BY <2>2, <3>1 DEF Opened
    <2>7. wire' = y.wire /\ status' = status /\ AdvancedBy(cid, z) /\ AnsweredBy(cid, z)
      BY <1>1, <1>3, <2>3, <2>5, <2>6, RecvStep
    <2>8. /\ IsReader(srv') /\ Agree(ChunkOf(srv', cid), Cut(z, n))
          /\ \A c : c # cid => ChunkOf(srv', c) = ChunkOf(srv, c)
          /\ srv'.in_chunk_size = IF t = <<>> /\ m.type = MsgSetChunkSize THEN m.payload[1] ELSE n
          /\ got' = IF t = <<>> THEN [got EXCEPT ![cid] = Append(@, Stamped(m))] ELSE got
      BY <1>1, <1>2, <2>2, <2>6, <2>7 DEF AdvancedBy
    <2>9. /\ y.cids = [x.cids EXCEPT ![cid] = Cut(z, n)]
          /\ y.size = IF m.type = MsgSetChunkSize THEN m.payload[1] ELSE n
          /\ y.sent = [x.sent EXCEPT ![cid] = Append(@, Stamped(m))]
      BY <1>2, <1>4, <2>1, <2>2 DEF BeganAs
    <2>10. m.type = MsgSetChunkSize => t = <<>>
      <3>1. m.payload \in Seq(Nat)
        BY <2>3, MessageFacts
      <3>2. PICK d : Parts(d, t, m.payload, n)
        BY <1>1, <1>2, <2>2, <3>1, PieceAndRest
      <3>3. m.type = MsgSetChunkSize => Len(m.payload) = 1
        BY <2>3 DEF MessageOk, MsgSetChunkSize, MsgAudio, MsgVideo
      <3> QED
        <4>1. t = <<>> <=> Len(m.payload) <= n
          BY <3>2, Zenon DEF Parts
        <4>2. n \in Nat \ {0}
          BY <1>1, <1>2
        <4>3. 1 <= n
          BY <4>2
        <4> QED
          BY <3>3, <4>1, <4>3, Zenon
    <2>11. srv'.in_chunk_size = y.size
      BY <2>8, <2>9, <2>10
    <2>12. Stamped(m) \in MsgType
      BY <2>3, StampedType
    <2>13. got' \in [AllCids -> Seq(MsgType)]
      <3>1. Append(got[cid], Stamped(m)) \in Seq(MsgType)
        BY <1>1, <2>3, <2>12, AppendProperties
      <3> QED
        BY <1>1, <2>3, <2>8, <3>1
    <2>14. Cut(z, n).left = t /\ Cut(z, n).msg = m
      BY <2>2, <2>6, CutFields DEF StreamOk
    <2>15. ASSUME NEW c \in AllCids
           PROVE  /\ Agree(ChunkOf(srv', c), y.cids[c])
                  /\ y.sent[c] = IF y.cids[c].left = <<>> THEN got'[c] ELSE Append(got'[c], Stamped(y.cids[c].msg))
      <3>1. DOMAIN x.cids = AllCids /\ DOMAIN x.sent = AllCids
        BY DEF SnapOk
      <3>2. CASE c = cid
        <4>1. y.cids[c] = Cut(z, n)
          BY <2>9, <3>1, <3>2
        <4>2. y.sent[c] = Append(got[cid], Stamped(m))
          BY <2>3, <2>9, <3>1, <3>2
        <4>3. t = <<>> => got'[c] = Append(got[cid], Stamped(m))
          BY <1>1, <2>3, <2>8, <3>2
        <4>4. t # <<>> => got'[c] = got[cid]
          BY <2>8, <3>2
        <4> QED
          BY <2>8, <2>14, <3>2, <4>1, <4>2, <4>3, <4>4
      <3>3. CASE c # cid
        <4>1. y.cids[c] = x.cids[c] /\ y.sent[c] = x.sent[c]
          BY <2>9, <3>1, <3>3
        <4>2. got'[c] = got[c]
          BY <1>1, <2>8, <3>3
        <4>3. ChunkOf(srv', c) = ChunkOf(srv, c)
          BY <2>8, <3>3
        <4> QED
          BY <4>1, <4>2, <4>3 DEF Matches
      <3> QED
        BY <3>2, <3>3
    <2>16. Matches(srv', got', y)
      BY <2>8, <2>11, <2>13, <2>15 DEF Matches
    <2>17. Answered
      BY <2>3, <2>6, <2>7 DEF Answered
    <2> QED
      BY <2>7, <2>16, <2>17
  <1>5. ASSUME NEW cid, ContinuedAs(x, y, cid, repeats)
        PROVE  wire' = y.wire /\ status' = status /\ Matches(srv', got', y) /\ Answered
    <2>1. PICK s, m, t : s = x.cids[cid] /\ m = s.msg /\ t = Rest(s.left, n)
      OBVIOUS
    <2>2. /\ cid \in AllCids /\ s.left # <<>> /\ StreamOk(cid, s) /\ m.type \in {MsgAudio, MsgVideo}
          /\ Agree(ChunkOf(srv, cid), s) /\ x.sent[cid] = Append(got[cid], Stamped(m))
      <3>1. cid \in AllCids /\ s.left # <<>>
        BY <1>5, <2>1 DEF ContinuedAs
      <3>2. StreamOk(cid, s) /\ m.type \in {MsgAudio, MsgVideo}
        BY <2>1, <3>1 DEF SnapOk
      <3>3. Agree(ChunkOf(srv, cid), s) /\ x.sent[cid] = Append(got[cid], Stamped(m))
        BY <2>1, <3>1 DEF Matches
      <3> QED
        BY <3>1, <3>2, <3>3
    <2>3. s.started /\ MessageOk(m)
      BY <2>1, <2>2 DEF StreamOk, NewStream
    <2>4. wire = LaterChunk(repeats, s, srv.in_chunk_size) \o y.wire
      BY <1>1, <1>5, <2>1 DEF ContinuedAs
    <2>5. ReadAs(recv_interlaced_message(srv, wire), srv, cid, s, wire, y.wire)
      BY <1>1, <2>2, <2>3, <2>4, LaterRead
    <2>6. wire' = y.wire /\ status' = status /\ AdvancedBy(cid, s) /\ AnsweredBy(cid, s)
      BY <1>1, <1>3, <2>2, <2>3, <2>5, RecvStep
    <2>7. /\ IsReader(srv') /\ Agree(ChunkOf(srv', cid), Cut(s, n))
          /\ \A c : c # cid => ChunkOf(srv', c) = ChunkOf(srv, c)
          /\ srv'.in_chunk_size = IF t = <<>> /\ m.type = MsgSetChunkSize THEN m.payload[1] ELSE n
          /\ got' = IF t = <<>> THEN [got EXCEPT ![cid] = Append(@, Stamped(m))] ELSE got
      BY <1>1, <1>2, <2>1, <2>6 DEF AdvancedBy
    <2>8. y.cids = [x.cids EXCEPT ![cid] = Cut(s, n)] /\ y.size = n /\ y.sent = x.sent
      BY <1>2, <1>5, <2>1 DEF ContinuedAs
    <2>9. srv'.in_chunk_size = y.size
      BY <2>2, <2>7, <2>8 DEF MsgSetChunkSize, MsgAudio, MsgVideo
    <2>10. Stamped(m) \in MsgType
      BY <2>3, StampedType
    <2>11. got' \in [AllCids -> Seq(MsgType)]
      <3>1. Append(got[cid], Stamped(m)) \in Seq(MsgType)
        BY <1>1, <2>2, <2>10, AppendProperties
      <3> QED
        BY <1>1, <2>2, <2>7, <3>1
    <2>12. Cut(s, n).left = t /\ Cut(s, n).msg = m
      BY <2>1, <2>2, <2>3, CutFields DEF StreamOk
    <2>13. ASSUME NEW c \in AllCids
           PROVE  /\ Agree(ChunkOf(srv', c), y.cids[c])
                  /\ y.sent[c] = IF y.cids[c].left = <<>> THEN got'[c] ELSE Append(got'[c], Stamped(y.cids[c].msg))
      <3>1. DOMAIN x.cids = AllCids
        BY DEF SnapOk
      <3>2. CASE c = cid
        <4>1. y.cids[c] = Cut(s, n)
          BY <2>8, <3>1, <3>2
        <4>2. y.sent[c] = Append(got[cid], Stamped(m))
          BY <2>2, <2>8, <3>2
        <4>3. t = <<>> => got'[c] = Append(got[cid], Stamped(m))
          BY <1>1, <2>2, <2>7, <3>2
        <4>4. t # <<>> => got'[c] = got[cid]
          BY <2>7, <3>2
        <4> QED
          BY <2>7, <2>12, <3>2, <4>1, <4>2, <4>3, <4>4
      <3>3. CASE c # cid
        <4>1. y.cids[c] = x.cids[c] /\ y.sent[c] = x.sent[c]
          BY <2>8, <3>1, <3>3
        <4>2. got'[c] = got[c]
          BY <1>1, <2>7, <3>3
        <4>3. ChunkOf(srv', c) = ChunkOf(srv, c)
          BY <2>7, <3>3
        <4> QED
          BY <4>1, <4>2, <4>3 DEF Matches
      <3> QED
        BY <3>2, <3>3
    <2>14. Matches(srv', got', y)
      BY <2>7, <2>9, <2>11, <2>13 DEF Matches
    <2>15. Answered
      BY <2>2, <2>3, <2>6 DEF Answered
    <2> QED
      BY <2>6, <2>14, <2>15
  <1> QED
    BY <1>4, <1>5 DEF Wrote

-----------------------------------------------------------------------------
(* The history of what is on its way                                       *)

Begins(a, b) == Len(a) \in Nat /\ Len(a) <= Len(b) /\ \A i \in 1..Len(a) : a[i] = b[i]

\* From where the reader is, h[0], chunk by chunk to where the publisher is.
HistoryOf(h, n, w, p, q, r, g) ==
    /\ \A i \in 0..n : SnapOk(h[i]) /\ \A c \in AllCids : Begins(h[i].sent[c], q[c])
    /\ \A i \in 0..n - 1 : Wrote(h[i], h[i + 1], p.ext_in_c3)
    /\ h[0].wire = w /\ h[n] = Snap(<<>>, p, q)
    /\ Matches(r, g, h[0])

\* The moment x, when the bytes c have been added to what is on its way.
Longer(x, c) == [wire |-> x.wire \o c, cids |-> x.cids, size |-> x.size, sent |-> x.sent]

\* Only the bytes differ.
LEMMA LongerFields ==
  ASSUME NEW x, NEW c
  PROVE  /\ Longer(x, c).wire = x.wire \o c /\ Longer(x, c).cids = x.cids
         /\ Longer(x, c).size = x.size /\ Longer(x, c).sent = x.sent
  BY DEF Longer

\* What was written is a chunk, whatever is written behind it.
LEMMA BeganChunk ==
  ASSUME NEW x, SnapOk(x), NEW y, NEW m, NEW fmt, BeganAs(x, y, m, fmt)
  PROVE  /\ FirstChunk(x.cids[m.cid], m, fmt, x.size) \in Seq(Nat)
         /\ Len(FirstChunk(x.cids[m.cid], m, fmt, x.size)) \in Nat \ {0}
  <1>1. MessageOk(m) /\ m.cid \in AllCids /\ fmt \in Formats(x.cids[m.cid], m)
    BY MessageFacts DEF BeganAs
  <1>2. StreamOk(m.cid, x.cids[m.cid]) /\ x.size \in Nat \ {0}
    BY <1>1 DEF SnapOk
  <1>3. PICK B, H, X, D : MadeOf(FirstChunk(x.cids[m.cid], m, fmt, x.size), B, H, X, D)
    BY <1>1, <1>2, FirstMade
  <1> QED
    BY <1>3 DEF MadeOf

LEMMA ContinuedChunk ==
  ASSUME NEW x, SnapOk(x), NEW y, NEW repeats \in BOOLEAN, NEW cid, ContinuedAs(x, y, cid, repeats)
  PROVE  /\ LaterChunk(repeats, x.cids[cid], x.size) \in Seq(Nat)
         /\ Len(LaterChunk(repeats, x.cids[cid], x.size)) \in Nat \ {0}
  <1>1. cid \in AllCids /\ StreamOk(cid, x.cids[cid]) /\ x.cids[cid].left # <<>> /\ x.size \in Nat \ {0}
    BY DEF SnapOk, ContinuedAs
  <1>2. x.cids[cid].started
    BY <1>1 DEF StreamOk, NewStream
  <1>3. PICK B, H, X, D : MadeOf(LaterChunk(repeats, x.cids[cid], x.size), B, H, X, D)
    BY <1>1, <1>2, LaterMade
  <1> QED
    BY <1>3 DEF MadeOf

LEMMA WroteChunk ==
  ASSUME NEW x, SnapOk(x), NEW y, NEW repeats \in BOOLEAN, Wrote(x, y, repeats)
  PROVE  \E a \in Seq(Nat) : Len(a) \in Nat \ {0} /\ x.wire = a \o y.wire
  <1>1. ASSUME NEW m, NEW fmt, BeganAs(x, y, m, fmt)
        PROVE  \E a \in Seq(Nat) : Len(a) \in Nat \ {0} /\ x.wire = a \o y.wire
    <2>1. x.wire = FirstChunk(x.cids[m.cid], m, fmt, x.size) \o y.wire
      BY <1>1 DEF BeganAs
    <2> QED
      BY <1>1, <2>1, BeganChunk
  <1>2. ASSUME NEW cid, ContinuedAs(x, y, cid, repeats)
        PROVE  \E a \in Seq(Nat) : Len(a) \in Nat \ {0} /\ x.wire = a \o y.wire
    <2>1. x.wire = LaterChunk(repeats, x.cids[cid], x.size) \o y.wire
      BY <1>2 DEF ContinuedAs
    <2> QED
      BY <1>2, <2>1, ContinuedChunk
  <1> QED
    BY <1>1, <1>2 DEF Wrote

\* What leads from x to y does so when more is written behind it.
LEMMA WroteLonger ==
  ASSUME NEW x, SnapOk(x), NEW y, SnapOk(y), NEW repeats \in BOOLEAN, Wrote(x, y, repeats), NEW c \in Seq(Nat)
  PROVE  Wrote(Longer(x, c), Longer(y, c), repeats)
  <1>1. PICK u, v : u = Longer(x, c) /\ v = Longer(y, c)
    OBVIOUS
  <1>2. /\ u.wire = x.wire \o c /\ u.cids = x.cids /\ u.size = x.size /\ u.sent = x.sent
        /\ v.wire = y.wire \o c /\ v.cids = y.cids /\ v.size = y.size /\ v.sent = y.sent
    BY <1>1, LongerFields
  <1>3. \A a \in Seq(Nat) : (a \o y.wire) \o c = a \o (y.wire \o c)
    <2>1. PICK q \in Seq(Nat) : q = y.wire
      BY DEF SnapOk
    <2>2. ASSUME NEW a \in Seq(Nat) PROVE (a \o q) \o c = a \o (q \o c)
      BY ConcatAssociative
    <2> QED
      BY <2>1, <2>2
  <1>4. ASSUME NEW m, NEW fmt, BeganAs(x, y, m, fmt) PROVE BeganAs(u, v, m, fmt)
    <2>1. PICK a : a = FirstChunk(x.cids[m.cid], m, fmt, x.size)
      OBVIOUS
    <2>2. a \in Seq(Nat) /\ x.wire = a \o y.wire
      BY <1>4, <2>1, BeganChunk DEF BeganAs
    <2>3. u.wire = a \o v.wire
      BY <1>2, <1>3, <2>2
    <2> QED
      BY <1>2, <1>4, <2>1, <2>3 DEF BeganAs
  <1>5. ASSUME NEW cid, ContinuedAs(x, y, cid, repeats) PROVE ContinuedAs(u, v, cid, repeats)
    <2>1. PICK a : a = LaterChunk(repeats, x.cids[cid], x.size)
      OBVIOUS
    <2>2. a \in Seq(Nat) /\ x.wire = a \o y.wire
      BY <1>5, <2>1, ContinuedChunk DEF ContinuedAs
    <2>3. u.wire = a \o v.wire
      BY <1>2, <1>3, <2>2
    <2> QED
      BY <1>2, <1>5, <2>1, <2>3 DEF ContinuedAs
  <1>6. Wrote(u, v, repeats)
    BY <1>4, <1>5 DEF Wrote
  <1> QED
    BY <1>1, <1>6

\* The publisher adds a chunk.
LEMMA HistoryGrows ==
  ASSUME NEW n \in Nat, NEW h, NEW w, NEW p, NEW q, NEW r, NEW g, HistoryOf(h, n, w, p, q, r, g),
         p.ext_in_c3 \in BOOLEAN, NEW c \in Seq(Nat), NEW p2, NEW q2, SnapOk(Snap(<<>>, p2, q2)),
         p2.ext_in_c3 = p.ext_in_c3, Wrote(Snap(c, p, q), Snap(<<>>, p2, q2), p.ext_in_c3),
         \A cid \in AllCids : \A a : Begins(a, q[cid]) => Begins(a, q2[cid])
  PROVE  \E k, f : k \in Nat /\ HistoryOf(f, k, w \o c, p2, q2, r, g)
  <1>1. PICK z : z = Snap(<<>>, p2, q2)
    OBVIOUS
  <1>2. PICK f : f = [i \in 0..n + 1 |-> IF i <= n THEN Longer(h[i], c) ELSE z]
    OBVIOUS
  <1>3. /\ \A i \in 0..n : f[i] = Longer(h[i], c)
        /\ f[n + 1] = z
    BY <1>2
  <1>4. /\ \A i \in 0..n : SnapOk(h[i]) /\ \A cid \in AllCids : Begins(h[i].sent[cid], q[cid])
        /\ \A i \in 0..n - 1 : Wrote(h[i], h[i + 1], p.ext_in_c3)
        /\ h[0].wire = w /\ h[n] = Snap(<<>>, p, q)
        /\ Matches(r, g, h[0])
    BY DEF HistoryOf
  <1>5. ASSUME NEW x, SnapOk(x) PROVE SnapOk(Longer(x, c))
    <2>1. PICK y : y = Longer(x, c)
      OBVIOUS
    <2>2. y.wire = x.wire \o c /\ y.cids = x.cids /\ y.size = x.size /\ y.sent = x.sent
      BY <2>1, LongerFields
    <2>3. x.wire \in Seq(Nat)
      BY <1>5 DEF SnapOk
    <2>4. x.wire \o c \in Seq(Nat)
      BY <2>3, ConcatProperties
    <2>5. SnapOk(y)
      BY <1>5, <2>2, <2>4 DEF SnapOk
    <2> QED
      BY <2>1, <2>5
  <1>6. ASSUME NEW i \in 0..n + 1
        PROVE  SnapOk(f[i]) /\ \A cid \in AllCids : Begins(f[i].sent[cid], q2[cid])
    <2>1. CASE i \in 0..n
      <3>1. f[i] = Longer(h[i], c) /\ SnapOk(h[i])
        BY <1>3, <1>4, <2>1
      <3>2. f[i].sent = h[i].sent
        BY <3>1, LongerFields
      <3>3. SnapOk(f[i])
        BY <1>5, <3>1
      <3> QED
        BY <1>4, <2>1, <3>2, <3>3
    <2>2. CASE i = n + 1
      <3>1. f[i] = z /\ SnapOk(z)
        BY <1>1, <1>3, <2>2
      <3>2. z.sent = q2
        BY <1>1 DEF Snap
      <3>3. ASSUME NEW cid \in AllCids PROVE Begins(q2[cid], q2[cid])
        <4>1. q2[cid] \in Seq(MsgType)
          BY <3>1, <3>2 DEF SnapOk
        <4>2. Len(q2[cid]) \in Nat
          BY <4>1, LenProperties
        <4> QED
          BY <4>2 DEF Begins
      <3> QED
        BY <3>1, <3>2, <3>3
    <2> QED
      BY <2>1, <2>2
  <1>7. ASSUME NEW i \in 0..n PROVE Wrote(f[i], f[i + 1], p.ext_in_c3)
    <2>1. CASE i < n
      <3>1. i \in 0..n - 1 /\ i \in 0..n /\ i + 1 \in 0..n
        BY <2>1
      <3>2. Wrote(h[i], h[i + 1], p.ext_in_c3) /\ SnapOk(h[i]) /\ SnapOk(h[i + 1])
        BY <1>4, <3>1
      <3>3. Wrote(Longer(h[i], c), Longer(h[i + 1], c), p.ext_in_c3)
        BY <3>2, WroteLonger
      <3> QED
        BY <1>3, <3>1, <3>3
    <2>2. CASE i = n
      <3>1. f[n] = Longer(Snap(<<>>, p, q), c)
        BY <1>3, <1>4
      <3>2. <<>> \o c = c
        BY ConcatEmptySeq
      <3>3. f[n] = Snap(c, p, q)
        BY <3>1, <3>2 DEF Longer, Snap
      <3> QED
        BY <1>1, <1>3, <2>2, <3>3
    <2> QED
      BY <2>1, <2>2
  <1>8. f[0].wire = w \o c /\ Matches(r, g, f[0])
    <2>1. PICK x, y : x = h[0] /\ y = f[0]
      OBVIOUS
    <2>2. y = Longer(x, c)
      BY <1>3, <2>1
    <2>3. y.wire = x.wire \o c /\ y.cids = x.cids /\ y.size = x.size /\ y.sent = x.sent
      BY <2>2, LongerFields
    <2>4. Matches(r, g, y)
      BY <1>4, <2>1, <2>3 DEF Matches
    <2> QED
      BY <1>4, <2>1, <2>3, <2>4
  <1>9. \A i \in 0..n + 1 - 1 : Wrote(f[i], f[i + 1], p2.ext_in_c3)
    BY <1>7
  <1>10. n + 1 \in Nat /\ HistoryOf(f, n + 1, w \o c, p2, q2, r, g)
    BY <1>1, <1>3, <1>6, <1>8, <1>9 DEF HistoryOf
  <1> QED
    BY <1>10

\* The reader takes the chunk that comes first.
LEMMA HistoryShifts ==
  ASSUME NEW n \in Nat, NEW h, NEW w, NEW p, NEW q, NEW r, NEW g, HistoryOf(h, n, w, p, q, r, g),
         n # 0, NEW r2, NEW g2, Matches(r2, g2, h[1])
  PROVE  \E k, f : k \in Nat /\ HistoryOf(f, k, h[1].wire, p, q, r2, g2)
  <1>1. PICK k \in Nat : n = k + 1
    <2>1. n - 1 \in Nat /\ n = (n - 1) + 1
      OBVIOUS
    <2> QED
      BY <2>1
  <1>2. PICK f : f = [i \in 0..k |-> h[i + 1]]
    OBVIOUS
  <1>3. \A i \in 0..k : f[i] = h[i + 1]
    BY <1>2
  <1>4. /\ \A i \in 0..n : SnapOk(h[i]) /\ \A c \in AllCids : Begins(h[i].sent[c], q[c])
        /\ \A i \in 0..n - 1 : Wrote(h[i], h[i + 1], p.ext_in_c3)
        /\ h[n] = Snap(<<>>, p, q)
    BY DEF HistoryOf
  <1>5. ASSUME NEW i \in 0..k PROVE SnapOk(f[i]) /\ \A c \in AllCids : Begins(f[i].sent[c], q[c])
    <2>1. i + 1 \in 0..n
      BY <1>1
    <2> QED
      BY <1>3, <1>4, <2>1
  <1>6. ASSUME NEW i \in 0..k - 1 PROVE Wrote(f[i], f[i + 1], p.ext_in_c3)
    <2>1. i + 1 \in 0..n - 1 /\ i \in 0..k /\ i + 1 \in 0..k
      BY <1>1
    <2> QED
      BY <1>3, <1>4, <2>1
  <1>7. f[0] = h[1] /\ f[k] = h[n]
    BY <1>1, <1>3
  <1>8. HistoryOf(f, k, h[1].wire, p, q, r2, g2)
    BY <1>4, <1>5, <1>6, <1>7 DEF HistoryOf
  <1> QED
    BY <1>8

\* Nothing is on its way when the reader is where the publisher is.
LEMMA HistoryEnds ==
  ASSUME NEW n \in Nat, NEW h, NEW w, NEW p, NEW q, NEW r, NEW g, HistoryOf(h, n, w, p, q, r, g),
         p.ext_in_c3 \in BOOLEAN
  PROVE  w = <<>> <=> n = 0
  <1>1. /\ \A i \in 0..n : SnapOk(h[i])
        /\ \A i \in 0..n - 1 : Wrote(h[i], h[i + 1], p.ext_in_c3)
        /\ h[0].wire = w /\ h[n] = Snap(<<>>, p, q)
    BY DEF HistoryOf
  <1>2. CASE n = 0
    BY <1>1, <1>2 DEF Snap
  <1>3. CASE n # 0
    <2>1. 0 \in 0..n - 1 /\ 0 \in 0..n /\ 0 + 1 \in 0..n
      BY <1>3
    <2>2. SnapOk(h[0]) /\ SnapOk(h[0 + 1]) /\ Wrote(h[0], h[0 + 1], p.ext_in_c3)
      BY <1>1, <2>1
    <2>3. PICK x, y : x = h[0] /\ y = h[0 + 1]
      OBVIOUS
    <2>4. SnapOk(x) /\ SnapOk(y) /\ Wrote(x, y, p.ext_in_c3)
      BY <2>2, <2>3
    <2>5. PICK a \in Seq(Nat) : Len(a) \in Nat \ {0} /\ x.wire = a \o y.wire
      BY <2>4, WroteChunk
    <2>6. y.wire \in Seq(Nat)
      BY <2>4 DEF SnapOk
    <2>7. a \o y.wire # <<>>
      <3>1. a # <<>>
        BY <2>5
      <3> QED
        BY <2>6, <3>1, ConcatEqualIffEmpty
    <2> QED
      BY <1>1, <1>3, <2>3, <2>5, <2>7
  <1> QED
    BY <1>2, <1>3

-----------------------------------------------------------------------------
(* The steps of the publisher                                              *)

PeerType(A) == [ext_in_c3 : A, chunk_size : A, begun : A, cids : A]
IsPeer(p) == \E A : p \in PeerType(A)

\* The publisher has written the chunk c.
Grown(c) ==
    /\ wire' = wire \o c /\ IsPeer(peer') /\ peer'.ext_in_c3 = peer.ext_in_c3
    /\ peer.begun \in Nat => peer'.begun \in Nat
    /\ SnapOk(Snap(<<>>, peer', sent'))
    /\ Wrote(Snap(c, peer, sent), Snap(<<>>, peer', sent'), peer.ext_in_c3)
    /\ \A cid \in AllCids : \A a : Begins(a, sent[cid]) => Begins(a, sent'[cid])
    /\ srv' = srv /\ got' = got /\ status' = status
    /\ Len(c) \in Nat \ {0} /\ written' = written + Len(c) /\ acked' = acked

\* The fields of a moment.
LEMMA SnapFields ==
  ASSUME NEW w, NEW p, NEW q
  PROVE  /\ Snap(w, p, q).wire = w /\ Snap(w, p, q).cids = p.cids
         /\ Snap(w, p, q).size = p.chunk_size /\ Snap(w, p, q).sent = q
  BY DEF Snap

\* What begins b begins b when something is added to it.
LEMMA BeginsAppend ==
  ASSUME NEW b \in Seq(MsgType), NEW e \in MsgType, NEW a, Begins(a, b)
  PROVE  Begins(a, Append(b, e))
  <1>1. PICK l, k \in Nat : l = Len(a) /\ k = Len(b)
    BY LenProperties DEF Begins
  <1>2. PICK u : u = Append(b, e)
    OBVIOUS
  <1>3. Len(u) = k + 1 /\ \A i \in 1..k : u[i] = b[i]
    BY <1>1, <1>2, AppendProperties
  <1>4. l <= k /\ \A i \in 1..l : a[i] = b[i]
    BY <1>1 DEF Begins
  <1>5. l <= Len(u) /\ \A i \in 1..l : a[i] = u[i]
    BY <1>3, <1>4
  <1> QED
    BY <1>1, <1>2, <1>5 DEF Begins

\* The first chunk of a message.
LEMMA BeginStep ==
  ASSUME NEW m, NEW fmt, Begin(m, fmt), MessageOk(m), IsPeer(peer), SnapOk(Snap(<<>>, peer, sent))
  PROVE  \E c \in Seq(Nat) : Grown(c)
  <1>1. PICK cid, n, s : cid = m.cid /\ n = peer.chunk_size /\ s = peer.cids[m.cid]
    OBVIOUS
  <1>2. cid \in AllCids
    BY <1>1, MessageFacts
  <1>3. /\ n \in Nat \ {0} /\ DOMAIN peer.cids = AllCids /\ sent \in [AllCids -> Seq(MsgType)]
        /\ \A c \in AllCids : /\ StreamOk(c, peer.cids[c])
                              /\ peer.cids[c].left # <<>> => peer.cids[c].msg.type \in {MsgAudio, MsgVideo}
    BY <1>1, SnapFields DEF SnapOk
  <1>4. StreamOk(cid, s)
    BY <1>1, <1>2, <1>3
  <1>5. PICK z, e : /\ z = [started |-> TRUE, ts |-> m.ts, delta |-> IF fmt = 0 THEN m.ts ELSE m.ts - s.ts,
                            msg |-> m, left |-> Rest(m.payload, n), extended |-> fmt = 0 /\ m.ts >= ExtTime]
                    /\ e = IF m.type = MsgSetChunkSize THEN m.payload[1] ELSE n
    OBVIOUS
  <1>6. PICK f, b : f = [peer.cids EXCEPT ![cid] = z] /\ b = peer.begun + 1
    OBVIOUS
  <1>7. PICK c : c = FirstChunk(s, m, fmt, n)
    OBVIOUS
  <1>8. /\ s.left = <<>> /\ fmt \in Formats(s, m)
        /\ wire' = wire \o c
        /\ peer' = [peer EXCEPT !.cids = f, !.chunk_size = e, !.begun = b]
        /\ sent' = [sent EXCEPT ![cid] = Append(@, Stamped(m))]
        /\ srv' = srv /\ got' = got /\ status' = status
        /\ written' = written + Len(c) /\ acked' = acked
    <2>1. s.left = <<>> /\ fmt \in Formats(s, m) /\ wire' = wire \o c /\ written' = written + Len(c)
      BY <1>1, <1>7 DEF Begin, Write
    <2>2. peer' = [peer EXCEPT !.cids = f, !.chunk_size = e, !.begun = b]
      BY <1>1, <1>5, <1>6 DEF Begin
    <2>3. sent' = [sent EXCEPT ![cid] = Append(@, Stamped(m))]
      BY <1>1 DEF Begin, Stamped
    <2>4. srv' = srv /\ got' = got /\ status' = status /\ acked' = acked
      BY DEF Begin, srvVars
    <2> QED
      BY <2>1, <2>2, <2>3, <2>4
  <1>9. /\ IsPeer(peer') /\ peer'.ext_in_c3 = peer.ext_in_c3
        /\ peer'.cids = f /\ peer'.chunk_size = e /\ peer'.begun = b
    <2>1. PICK A : peer \in PeerType(A)
      BY DEF IsPeer
    <2>2. PICK C : C = A \cup {f, e, b}
      OBVIOUS
    <2>3. peer \in PeerType(C) /\ f \in C /\ e \in C /\ b \in C
      BY <2>1, <2>2 DEF PeerType
    <2>4. /\ peer' \in PeerType(C) /\ peer'.ext_in_c3 = peer.ext_in_c3
          /\ peer'.cids = f /\ peer'.chunk_size = e /\ peer'.begun = b
      BY <1>8, <2>3 DEF PeerType
    <2> QED
      BY <2>4 DEF IsPeer
  <1>10. z = Cut(Opened(s, m, fmt), n)
    <2>1. PICK ts, delta, payload, extended, left :
            /\ ts = m.ts /\ delta = (IF fmt = 0 THEN m.ts ELSE m.ts - s.ts)
            /\ payload = m.payload /\ extended = (fmt = 0 /\ m.ts >= ExtTime) /\ left = Rest(payload, n)
      OBVIOUS
    <2>2. PICK o : o = [started |-> TRUE, ts |-> ts, delta |-> delta, msg |-> m, left |-> payload, extended |-> extended]
      OBVIOUS
    <2>3. [o EXCEPT !.left = left] =
            [started |-> TRUE, ts |-> ts, delta |-> delta, msg |-> m, left |-> left, extended |-> extended]
      <3>1. PICK C : C = {TRUE, ts, delta, m, payload, left, extended}
        OBVIOUS
      <3>2. o \in StreamType(C) /\ left \in C
        BY <2>2, <3>1 DEF StreamType
      <3>3. PICK u : u = [o EXCEPT !.left = left]
        OBVIOUS
      <3>4. u \in StreamType(C) /\ u.started = o.started /\ u.ts = o.ts /\ u.delta = o.delta /\ u.msg = o.msg
            /\ u.left = left /\ u.extended = o.extended
        BY <3>2, <3>3 DEF StreamType
      <3>5. o.started = TRUE /\ o.ts = ts /\ o.delta = delta /\ o.msg = m /\ o.extended = extended
        BY <2>2
      <3>6. u = [started |-> u.started, ts |-> u.ts, delta |-> u.delta, msg |-> u.msg, left |-> u.left,
                 extended |-> u.extended]
        BY <3>4 DEF StreamType
      <3> QED
        BY <3>3, <3>4, <3>5, <3>6
    <2>4. o = Opened(s, m, fmt) /\ o.left = payload
      BY <2>1, <2>2 DEF Opened
    <2>5. z = [started |-> TRUE, ts |-> ts, delta |-> delta, msg |-> m, left |-> left, extended |-> extended]
      BY <1>5, <2>1
    <2> QED
      BY <2>1, <2>3, <2>4, <2>5 DEF Cut
  <1>11. StreamOk(cid, z)
    BY <1>1, <1>2, <1>3, <1>4, <1>8, <1>10, OpenedOk, CutOk
  <1>12. m.payload \in Seq(Nat) /\ Len(m.payload) \in Nat \ {0} /\ m.payload[1] \in Nat
    <2>1. m.payload \in Seq(Nat) /\ Len(m.payload) \in Nat \ {0}
      BY MessageFacts
    <2> QED
      BY <2>1, ElementOfSeq
  <1>13. z.left # <<>> => z.msg.type \in {MsgAudio, MsgVideo}
    <2>1. z.left = Rest(m.payload, n) /\ z.msg = m
      BY <1>5
    <2>2. PICK d, t : t = Rest(m.payload, n) /\ Parts(d, t, m.payload, n)
      BY <1>3, <1>12, PieceAndRest
    <2>3. t = <<>> <=> Len(m.payload) <= n
      BY <2>2, Zenon DEF Parts
    <2>4. m.type \notin {MsgAudio, MsgVideo} => Len(m.payload) = 1
      BY DEF MessageOk
    <2>5. 1 <= n
      BY <1>3
    <2>6. m.type \notin {MsgAudio, MsgVideo} => t = <<>>
      BY <2>3, <2>4, <2>5, Zenon
    <2> QED
      BY <2>1, <2>2, <2>6
  <1>14. e \in Nat \ {0}
    BY <1>3, <1>5, <1>12, ChunkStreamAssumption, SMTT(30) DEF MessageOk, MsgSetChunkSize, MsgWindowAckSize, MsgAudio, MsgVideo
  <1>15. Stamped(m) \in MsgType
    BY StampedType
  <1>16. sent' \in [AllCids -> Seq(MsgType)]
    <2>1. Append(sent[cid], Stamped(m)) \in Seq(MsgType)
      BY <1>2, <1>3, <1>15, AppendProperties
    <2> QED
      BY <1>2, <1>3, <1>8, <2>1
  <1>17. SnapOk(Snap(<<>>, peer', sent'))
    <2>1. PICK y : y = Snap(<<>>, peer', sent')
      OBVIOUS
    <2>2. y.wire = <<>> /\ y.cids = f /\ y.size = e /\ y.sent = sent'
      BY <1>9, <2>1, SnapFields
    <2>3. DOMAIN f = AllCids
      BY <1>3, <1>6
    <2>4. ASSUME NEW d \in AllCids
          PROVE  StreamOk(d, f[d]) /\ (f[d].left # <<>> => f[d].msg.type \in {MsgAudio, MsgVideo})
      <3>1. CASE d = cid
        BY <1>3, <1>6, <1>11, <1>13, <3>1
      <3>2. CASE d # cid
        BY <1>3, <1>6, <3>2
      <3> QED
        BY <3>1, <3>2
    <2>5. <<>> \in Seq(Nat)
      BY EmptySeq
    <2>6. SnapOk(y)
      BY <1>14, <1>16, <2>2, <2>3, <2>4, <2>5 DEF SnapOk
    <2> QED
      BY <2>1, <2>6
  <1>18. PICK x, y : x = Snap(c, peer, sent) /\ y = Snap(<<>>, peer', sent')
    OBVIOUS
  <1>19. /\ x.wire = c /\ x.cids = peer.cids /\ x.size = n /\ x.sent = sent
         /\ y.wire = <<>> /\ y.cids = f /\ y.size = e /\ y.sent = sent'
    BY <1>1, <1>9, <1>18, SnapFields
  <1>20. c \in Seq(Nat) /\ Len(c) \in Nat \ {0}
    <2>1. PICK B, H, X, D : MadeOf(c, B, H, X, D)
      BY <1>1, <1>2, <1>3, <1>4, <1>7, <1>8, FirstMade
    <2> QED
      BY <2>1 DEF MadeOf
  <1>21. BeganAs(x, y, m, fmt)
    <2>1. c = c \o <<>>
      BY <1>20, ConcatEmptySeq
    <2> QED
      BY <1>1, <1>5, <1>6, <1>7, <1>8, <1>10, <1>19, <2>1 DEF BeganAs
  <1>22. ASSUME NEW d \in AllCids, NEW a, Begins(a, sent[d]) PROVE Begins(a, sent'[d])
    <2>1. CASE d = cid
      <3>1. sent'[d] = Append(sent[d], Stamped(m)) /\ sent[d] \in Seq(MsgType)
        BY <1>3, <1>8, <2>1
      <3> QED
        BY <1>15, <1>22, <3>1, BeginsAppend
    <2>2. CASE d # cid
      BY <1>3, <1>8, <1>22, <2>2
    <2> QED
      BY <2>1, <2>2
  <1>23. Wrote(x, y, peer.ext_in_c3)
    BY <1>21 DEF Wrote
  <1>24. peer.begun \in Nat => peer'.begun \in Nat
    BY <1>6, <1>9
  <1>25. Grown(c)
    BY <1>8, <1>9, <1>17, <1>18, <1>20, <1>22, <1>23, <1>24 DEF Grown
  <1> QED
    BY <1>20, <1>25

\* A later chunk.
LEMMA ContinueStep ==
  ASSUME NEW cid \in Cids, Continue(cid), IsPeer(peer), peer.ext_in_c3 \in BOOLEAN, SnapOk(Snap(<<>>, peer, sent))
  PROVE  \E c \in Seq(Nat) : Grown(c)
  <1>1. PICK n, s : n = peer.chunk_size /\ s = peer.cids[cid]
    OBVIOUS
  <1>2. cid \in AllCids
    BY DEF AllCids
  <1>3. /\ n \in Nat \ {0} /\ DOMAIN peer.cids = AllCids /\ sent \in [AllCids -> Seq(MsgType)]
        /\ \A c \in AllCids : /\ StreamOk(c, peer.cids[c])
                              /\ peer.cids[c].left # <<>> => peer.cids[c].msg.type \in {MsgAudio, MsgVideo}
    BY <1>1, SnapFields DEF SnapOk
  <1>4. StreamOk(cid, s)
    BY <1>1, <1>2, <1>3
  <1>5. PICK z, f : z = Cut(s, n) /\ f = [peer.cids EXCEPT ![cid] = z]
    OBVIOUS
  <1>6. PICK c : c = LaterChunk(peer.ext_in_c3, s, n)
    OBVIOUS
  <1>7. /\ s.left # <<>>
        /\ wire' = wire \o c
        /\ peer' = [peer EXCEPT !.cids = f]
        /\ sent' = sent /\ srv' = srv /\ got' = got /\ status' = status
        /\ written' = written + Len(c) /\ acked' = acked
    <2>1. s.left # <<>> /\ wire' = wire \o c /\ written' = written + Len(c)
      BY <1>1, <1>6 DEF Continue, Write
    <2>2. peer' = [peer EXCEPT !.cids = f]
      BY <1>1, <1>5 DEF Continue, Cut
    <2>3. sent' = sent /\ srv' = srv /\ got' = got /\ status' = status /\ acked' = acked
      BY DEF Continue, srvVars
    <2> QED
      BY <2>1, <2>2, <2>3
  <1>8. /\ IsPeer(peer') /\ peer'.ext_in_c3 = peer.ext_in_c3
        /\ peer'.cids = f /\ peer'.chunk_size = n /\ peer'.begun = peer.begun
    <2>1. PICK A : peer \in PeerType(A)
      BY DEF IsPeer
    <2>2. peer \in PeerType(A \cup {f})
      BY <2>1 DEF PeerType
    <2>3. /\ peer' \in PeerType(A \cup {f}) /\ peer'.ext_in_c3 = peer.ext_in_c3
          /\ peer'.cids = f /\ peer'.chunk_size = peer.chunk_size /\ peer'.begun = peer.begun
      BY <1>7, <2>2 DEF PeerType
    <2> QED
      BY <1>1, <2>3 DEF IsPeer
  <1>9. s.started /\ s.msg.type \in {MsgAudio, MsgVideo}
    BY <1>1, <1>2, <1>3, <1>4, <1>7 DEF StreamOk, NewStream
  <1>10. StreamOk(cid, z) /\ z.msg = s.msg
    <2>1. StreamOk(cid, z)
      BY <1>3, <1>4, <1>5, <1>9, CutOk
    <2> QED
      BY <1>4, <1>5, <1>9, <2>1, CutFields DEF StreamOk
  <1>11. SnapOk(Snap(<<>>, peer', sent'))
    <2>1. PICK y : y = Snap(<<>>, peer', sent')
      OBVIOUS
    <2>2. y.wire = <<>> /\ y.cids = f /\ y.size = n /\ y.sent = sent
      <3>1. y.wire = <<>> /\ y.cids = peer'.cids /\ y.size = peer'.chunk_size /\ y.sent = sent'
        BY <2>1, SnapFields
      <3> QED
        BY <1>7, <1>8, <3>1
    <2>3. DOMAIN f = AllCids
      BY <1>3, <1>5
    <2>4. ASSUME NEW d \in AllCids
          PROVE  StreamOk(d, f[d]) /\ (f[d].left # <<>> => f[d].msg.type \in {MsgAudio, MsgVideo})
      <3>1. CASE d = cid
        BY <1>3, <1>5, <1>9, <1>10, <3>1
      <3>2. CASE d # cid
        BY <1>3, <1>5, <3>2
      <3> QED
        BY <3>1, <3>2
    <2>5. <<>> \in Seq(Nat)
      BY EmptySeq
    <2>6. SnapOk(y)
      BY <1>3, <2>2, <2>3, <2>4, <2>5 DEF SnapOk
    <2> QED
      BY <2>1, <2>6
  <1>12. PICK x, y : x = Snap(c, peer, sent) /\ y = Snap(<<>>, peer', sent')
    OBVIOUS
  <1>13. /\ x.wire = c /\ x.cids = peer.cids /\ x.size = n /\ x.sent = sent
         /\ y.wire = <<>> /\ y.cids = f /\ y.size = n /\ y.sent = sent
    <2>1. /\ x.wire = c /\ x.cids = peer.cids /\ x.size = peer.chunk_size /\ x.sent = sent
          /\ y.wire = <<>> /\ y.cids = peer'.cids /\ y.size = peer'.chunk_size /\ y.sent = sent'
      BY <1>12, SnapFields
    <2> QED
      BY <1>1, <1>7, <1>8, <2>1
  <1>14. c \in Seq(Nat) /\ Len(c) \in Nat \ {0}
    <2>1. PICK B, H, X, D : MadeOf(c, B, H, X, D)
      BY <1>2, <1>3, <1>4, <1>6, <1>7, <1>9, LaterMade
    <2> QED
      BY <2>1 DEF MadeOf
  <1>15. ContinuedAs(x, y, cid, peer.ext_in_c3)
    <2>1. c = c \o <<>>
      BY <1>14, ConcatEmptySeq
    <2> QED
      BY <1>1, <1>2, <1>5, <1>6, <1>7, <1>13, <2>1 DEF ContinuedAs
  <1>16. Wrote(x, y, peer.ext_in_c3)
    BY <1>15 DEF Wrote
  <1>17. Grown(c)
    BY <1>7, <1>8, <1>11, <1>12, <1>14, <1>16 DEF Grown
  <1> QED
    BY <1>14, <1>17

-----------------------------------------------------------------------------
(* The invariant                                                           *)

DeliveryInv ==
    /\ IsPeer(peer) /\ peer.ext_in_c3 \in BOOLEAN /\ peer.begun \in Nat /\ written \in Nat
    /\ status # "publisher refused"
    /\ \E n, h : n \in Nat /\ HistoryOf(h, n, wire, peer, sent, srv, got)

\* At first nothing is on its way, and both know nothing.
LEMMA DeliveryInit == Init => DeliveryInv
  <1> SUFFICES ASSUME Init PROVE DeliveryInv
    OBVIOUS
  <1>1. PICK e, f : /\ e \in BOOLEAN /\ f = [c \in AllCids |-> NewStream]
                     /\ peer = [ext_in_c3 |-> e, chunk_size |-> MinChunk, begun |-> 0, cids |-> f]
    BY DEF Init
  <1>2. /\ peer.ext_in_c3 = e /\ peer.chunk_size = MinChunk /\ peer.cids = f /\ peer.begun = 0
        /\ peer \in PeerType({e, MinChunk, 0, f})
    BY <1>1 DEF PeerType
  <1>3. /\ wire = <<>> /\ sent = [c \in AllCids |-> <<>>] /\ got = [c \in AllCids |-> <<>>]
        /\ srv = SrsProtocol /\ status = "ok" /\ written = 0
    BY DEF Init
  <1>4. PICK x : x = Snap(<<>>, peer, sent)
    OBVIOUS
  <1>5. x.wire = <<>> /\ x.cids = f /\ x.size = MinChunk /\ x.sent = sent
    BY <1>2, <1>4, SnapFields
  <1>6. <<>> \in Seq(Nat) /\ <<>> \in Seq(MsgType) /\ Len(<<>>) = 0
    BY EmptySeq
  <1>7. SnapOk(x)
    <2>1. ASSUME NEW c \in AllCids
          PROVE  StreamOk(c, f[c]) /\ (f[c].left # <<>> => f[c].msg.type \in {MsgAudio, MsgVideo})
      <3>1. f[c] = NewStream
        BY <1>1
      <3>2. NewStream.started = FALSE /\ NewStream.left = <<>>
        BY DEF NewStream
      <3> QED
        BY <3>1, <3>2 DEF StreamOk
    <2>2. DOMAIN f = AllCids /\ sent \in [AllCids -> Seq(MsgType)] /\ MinChunk \in Nat \ {0}
      BY <1>1, <1>3, <1>6, ChunkStreamAssumption
    <2> QED
      BY <1>5, <1>6, <2>1, <2>2 DEF SnapOk
  <1>8. Matches(srv, got, x)
    <2>1. /\ srv \in ReaderType({<<>>, MinChunk, 0}) /\ srv.chunks = <<>> /\ srv.in_chunk_size = MinChunk
      BY <1>3 DEF SrsProtocol, ReaderType
    <2>2. got \in [AllCids -> Seq(MsgType)]
      BY <1>3, <1>6
    <2>3. ASSUME NEW c \in AllCids
          PROVE  /\ Agree(ChunkOf(srv, c), f[c])
                 /\ sent[c] = IF f[c].left = <<>> THEN got[c] ELSE Append(got[c], Stamped(f[c].msg))
      <3>1. f[c] = NewStream /\ NewStream.started = FALSE /\ NewStream.left = <<>>
        BY <1>1 DEF NewStream
      <3>2. ChunkOf(srv, c) = SrsChunkStream
        BY <2>1 DEF ChunkOf
      <3>3. /\ SrsChunkStream \in ChunkType({FALSE, <<>>, 0})
            /\ SrsChunkStream.msg_count = 0 /\ ~SrsChunkStream.open /\ SrsChunkStream.partial = <<>>
            /\ SrsChunkStream.ts = 0 /\ SrsChunkStream.sid = 0
        BY DEF SrsChunkStream, ChunkType
      <3>4. Agree(SrsChunkStream, NewStream)
        BY <3>1, <3>3 DEF Agree, IsChunk
      <3> QED
        BY <1>3, <3>1, <3>2, <3>4
    <2> QED
      BY <1>5, <2>1, <2>2, <2>3 DEF Matches, IsReader
  <1>9. PICK h : h = [i \in 0..0 |-> x]
    OBVIOUS
  <1>10. HistoryOf(h, 0, wire, peer, sent, srv, got)
    <2>1. h[0] = x
      BY <1>9
    <2>2. ASSUME NEW i \in 0..0 PROVE SnapOk(h[i]) /\ \A c \in AllCids : Begins(h[i].sent[c], sent[c])
      <3>1. h[i] = x
        BY <2>1
      <3>2. ASSUME NEW c \in AllCids PROVE Begins(sent[c], sent[c])
        <4>1. sent[c] = <<>>
          BY <1>3
        <4> QED
          BY <1>6, <4>1 DEF Begins
      <3> QED
        BY <1>5, <1>7, <3>1, <3>2
    <2>3. 0..0 - 1 = {}
      OBVIOUS
    <2> QED
      BY <1>3, <1>4, <1>5, <1>8, <2>1, <2>2, <2>3 DEF HistoryOf
  <1>11. 0 \in Nat
    OBVIOUS
  <1> QED
    BY <1>1, <1>2, <1>3, <1>10, <1>11 DEF DeliveryInv, IsPeer

\* The messages that the publisher begins.
LEMMA PayloadPlain ==
  ASSUME NEW n \in Nat \ {0}, peer.begun \in Nat
  PROVE  /\ Payload(n) \in Seq(Nat) \ {<<>>} /\ Len(Payload(n)) = n
         /\ \A i \in 1..n : Payload(n)[i] % TimeMod = 0
  <1>1. TimeMod \in Nat \ {0}
    BY ChunkStreamAssumption
  <1>2. PICK b \in Nat : b = 8 * peer.begun
    OBVIOUS
  <1>3. \A x \in Int : (TimeMod * x) % TimeMod = 0
    BY <1>1, ModFacts
  <1>4. PICK p : p = [i \in 1..n |-> TimeMod * (b + i)]
    OBVIOUS
  <1>5. p = Payload(n)
    BY <1>2, <1>4 DEF Payload
  <1>6. \A i \in 1..n : TimeMod * (b + i) \in Nat
    BY <1>1
  <1>7. p \in [1..n -> Nat]
    BY <1>4, <1>6
  <1>8. p \in Seq(Nat) /\ Len(p) = n
    BY <1>7
  <1>9. ASSUME NEW i \in 1..n PROVE p[i] % TimeMod = 0
    <2>1. b + i \in Int /\ p[i] = TimeMod * (b + i)
      BY <1>4
    <2> QED
      BY <1>3, <2>1
  <1>10. p # <<>>
    BY <1>8, EmptySeq
  <1> QED
    BY <1>5, <1>8, <1>9, <1>10

LEMMA MediaOk ==
  ASSUME NEW cid \in Cids, NEW type \in MediaTypes, NEW ts \in Times, NEW n \in Lengths, peer.begun \in Nat
  PROVE  MessageOk(Message(cid, type, PlayerSid, ts, Payload(n)))
  <1>1. PICK p, m : p = Payload(n) /\ m = Message(cid, type, PlayerSid, ts, p)
    OBVIOUS
  <1>2. n \in Nat \ {0}
    BY ChunkProtocolAssumption
  <1>3. p \in Seq(Nat) \ {<<>>} /\ Len(p) = n /\ \A i \in 1..n : p[i] % TimeMod = 0
    BY <1>1, <1>2, PayloadPlain
  <1>4. m.cid = cid /\ m.type = type /\ m.sid = PlayerSid /\ m.ts = ts /\ m.payload = p
    BY <1>1 DEF Message
  <1>5. /\ cid \in AllCids /\ type \in {MsgAudio, MsgVideo} /\ ts \in Nat
        /\ ts >= ExtTime => ts % TimeMod # 0
    BY ChunkProtocolAssumption DEF AllCids
  <1>6. type \in Nat
    BY <1>5 DEF MsgAudio, MsgVideo
  <1>7. \E c \in AllCids, y \in Nat, s \in {0, PlayerSid}, t \in Nat, q \in Seq(Nat) \ {<<>>} :
           m = Message(c, y, s, t, q)
    BY <1>1, <1>3, <1>5, <1>6
  <1>8. Plain(m)
    BY <1>3, <1>4 DEF Plain
  <1>9. MessageOk(m)
    BY <1>4, <1>5, <1>7, <1>8 DEF MessageOk
  <1> QED
    BY <1>1, <1>9

LEMMA ControlOk ==
  ASSUME NEW n \in Nat
  PROVE  /\ n >= MinChunk => MessageOk(Message(CidProtocolControl, MsgSetChunkSize, 0, 0, <<n>>))
         /\ MessageOk(Message(CidProtocolControl, MsgWindowAckSize, 0, 0, <<n>>))
  <1>1. PICK p : p = <<n>>
    OBVIOUS
  <1>2. p \in Seq(Nat) \ {<<>>} /\ Len(p) = 1 /\ p[1] = n
    BY <1>1
  <1>3. CidProtocolControl \in AllCids /\ ~(0 >= ExtTime)
    BY ChunkStreamAssumption DEF AllCids
  <1>4. ASSUME NEW type \in Nat, \/ type = MsgSetChunkSize /\ n >= MinChunk
                                 \/ type = MsgWindowAckSize
        PROVE  MessageOk(Message(CidProtocolControl, type, 0, 0, p))
    <2>1. PICK m : m = Message(CidProtocolControl, type, 0, 0, p)
      OBVIOUS
    <2>2. m.cid = CidProtocolControl /\ m.type = type /\ m.sid = 0 /\ m.ts = 0 /\ m.payload = p
      BY <2>1 DEF Message
    <2>3. \E c \in AllCids, y \in Nat, s \in {0, PlayerSid}, t \in Nat, q \in Seq(Nat) \ {<<>>} :
             m = Message(c, y, s, t, q)
      BY <1>2, <1>3, <2>1
    <2>4. MessageOk(m)
      BY <1>2, <1>3, <1>4, <2>2, <2>3 DEF MessageOk
    <2> QED
      BY <2>1, <2>4
  <1>5. MsgSetChunkSize \in Nat /\ MsgWindowAckSize \in Nat
    BY DEF MsgSetChunkSize, MsgWindowAckSize
  <1> QED
    BY <1>1, <1>4, <1>5

\* A chunk that is written is added to the history.
LEMMA GrownKeeps ==
  ASSUME DeliveryInv, NEW c \in Seq(Nat), Grown(c)
  PROVE  DeliveryInv'
  <1>1. PICK n, h : n \in Nat /\ HistoryOf(h, n, wire, peer, sent, srv, got)
    BY DEF DeliveryInv
  <1>2. peer.ext_in_c3 \in BOOLEAN
    BY DEF DeliveryInv
  <1>3. PICK w2, p2, q2 : w2 = wire \o c /\ p2 = peer' /\ q2 = sent'
    OBVIOUS
  <1>4. /\ SnapOk(Snap(<<>>, p2, q2)) /\ p2.ext_in_c3 = peer.ext_in_c3
        /\ Wrote(Snap(c, peer, sent), Snap(<<>>, p2, q2), peer.ext_in_c3)
        /\ \A cid \in AllCids : \A a : Begins(a, sent[cid]) => Begins(a, q2[cid])
    BY <1>3 DEF Grown
  <1>5. PICK k, f : k \in Nat /\ HistoryOf(f, k, wire \o c, p2, q2, srv, got)
    BY <1>1, <1>2, <1>4, HistoryGrows
  <1>6. written' \in Nat
    <2>1. PICK l : l = Len(c)
      OBVIOUS
    <2>2. l \in Nat /\ written' = written + l /\ written \in Nat
      BY <2>1 DEF Grown, DeliveryInv
    <2> QED
      BY <2>2
  <1>7. /\ wire' = wire \o c /\ IsPeer(peer') /\ peer'.ext_in_c3 = peer.ext_in_c3
        /\ peer'.begun \in Nat /\ srv' = srv /\ got' = got /\ status' = status
    BY DEF Grown, DeliveryInv
  <1>8. k \in Nat /\ HistoryOf(f, k, wire', peer', sent', srv', got')
    BY <1>3, <1>5, <1>7
  <1> QED
    BY <1>6, <1>7, <1>8 DEF DeliveryInv

\* A chunk that is read is dropped from it.
LEMMA RecvKeeps ==
  ASSUME DeliveryInv, Recv
  PROVE  DeliveryInv' /\ Answered
  <1>1. PICK n, h : n \in Nat /\ HistoryOf(h, n, wire, peer, sent, srv, got)
    BY DEF DeliveryInv
  <1>2. peer.ext_in_c3 \in BOOLEAN /\ written \in Nat
    BY DEF DeliveryInv
  <1>3. wire # <<>> /\ peer' = peer /\ sent' = sent /\ written' = written
    BY DEF Recv
  <1>4. n # 0
    BY <1>1, <1>2, <1>3, HistoryEnds
  <1>5. PICK x, y : x = h[0] /\ y = h[0 + 1]
    OBVIOUS
  <1>6. SnapOk(x) /\ SnapOk(y) /\ Wrote(x, y, peer.ext_in_c3) /\ x.wire = wire /\ Matches(srv, got, x)
    <2>1. 0 \in 0..n /\ 0 + 1 \in 0..n /\ 0 \in 0..n - 1
      BY <1>1, <1>4
    <2> QED
      BY <1>1, <1>5, <2>1 DEF HistoryOf
  <1>7. y.wire \in Seq(Nat)
    BY <1>6 DEF SnapOk
  <1>8. wire' = y.wire /\ status' = status /\ Matches(srv', got', y) /\ Answered
    BY <1>2, <1>6, <1>7, ReadNext
  <1>9. y = h[1]
    BY <1>5
  <1>10. PICK k, f : k \in Nat /\ HistoryOf(f, k, h[1].wire, peer, sent, srv', got')
    <2>1. PICK r2, g2 : r2 = srv' /\ g2 = got'
      OBVIOUS
    <2>2. Matches(r2, g2, h[1])
      BY <1>8, <1>9, <2>1
    <2>3. \E k, f : k \in Nat /\ HistoryOf(f, k, h[1].wire, peer, sent, r2, g2)
      BY <1>1, <1>4, <2>2, HistoryShifts
    <2> QED
      BY <2>1, <2>3
  <1>11. k \in Nat /\ HistoryOf(f, k, wire', peer', sent', srv', got')
    BY <1>3, <1>8, <1>9, <1>10
  <1>12. /\ IsPeer(peer') /\ peer'.ext_in_c3 \in BOOLEAN /\ peer'.begun \in Nat /\ written' \in Nat
         /\ status' # "publisher refused"
    BY <1>2, <1>3, <1>8 DEF DeliveryInv
  <1> QED
    BY <1>8, <1>11, <1>12 DEF DeliveryInv

\* A step writes a chunk, reads one, or concerns the player only.
PlayerStep == UNCHANGED <<wire, written, peer, sent, srv, got, latest, acked>> /\ status' # "publisher refused"

LEMMA StepKinds == DeliveryInv /\ [Next]_vars => (\E c \in Seq(Nat) : Grown(c)) \/ Recv \/ PlayerStep
  <1> SUFFICES ASSUME DeliveryInv, [Next]_vars PROVE (\E c \in Seq(Nat) : Grown(c)) \/ Recv \/ PlayerStep
    OBVIOUS
  <1>1. /\ IsPeer(peer) /\ peer.begun \in Nat /\ peer.ext_in_c3 \in BOOLEAN
        /\ SnapOk(Snap(<<>>, peer, sent))
    <2>1. PICK n, h : n \in Nat /\ HistoryOf(h, n, wire, peer, sent, srv, got)
      BY DEF DeliveryInv
    <2>2. n \in 0..n
      BY <2>1
    <2>3. SnapOk(h[n]) /\ h[n] = Snap(<<>>, peer, sent)
      BY <2>1, <2>2 DEF HistoryOf
    <2> QED
      BY <2>3 DEF DeliveryInv
  <1>2. ASSUME NEW m, NEW fmt, Begin(m, fmt), MessageOk(m) PROVE \E c \in Seq(Nat) : Grown(c)
    BY <1>1, <1>2, BeginStep
  <1>3. CASE BeginMedia
    <2>1. PICK cid \in Cids, type \in MediaTypes, ts \in Times, n \in Lengths, fmt \in 0..3 :
            Begin(Message(cid, type, PlayerSid, ts, Payload(n)), fmt)
      BY <1>3 DEF BeginMedia
    <2>2. MessageOk(Message(cid, type, PlayerSid, ts, Payload(n)))
      BY <1>1, MediaOk
    <2> QED
      BY <1>2, <2>1, <2>2
  <1>4. CASE BeginControl
    <2>1. PICK fmt \in 0..3 :
            \/ \E n \in ChunkSizes : Begin(Message(CidProtocolControl, MsgSetChunkSize, 0, 0, <<n>>), fmt)
            \/ \E n \in Windows : Begin(Message(CidProtocolControl, MsgWindowAckSize, 0, 0, <<n>>), fmt)
      BY <1>4 DEF BeginControl
    <2>2. ASSUME NEW n \in ChunkSizes, Begin(Message(CidProtocolControl, MsgSetChunkSize, 0, 0, <<n>>), fmt)
          PROVE  \E c \in Seq(Nat) : Grown(c)
      <3>1. n \in Nat /\ n >= MinChunk
        BY ChunkProtocolAssumption
      <3>2. MessageOk(Message(CidProtocolControl, MsgSetChunkSize, 0, 0, <<n>>))
        BY <3>1, ControlOk
      <3> QED
        BY <1>2, <2>2, <3>2
    <2>3. ASSUME NEW n \in Windows, Begin(Message(CidProtocolControl, MsgWindowAckSize, 0, 0, <<n>>), fmt)
          PROVE  \E c \in Seq(Nat) : Grown(c)
      <3>1. n \in Nat
        BY ChunkProtocolAssumption
      <3>2. MessageOk(Message(CidProtocolControl, MsgWindowAckSize, 0, 0, <<n>>))
        BY <3>1, ControlOk
      <3> QED
        BY <1>2, <2>3, <3>2
    <2> QED
      BY <2>1, <2>2, <2>3
  <1>5. ASSUME NEW cid \in Cids, Continue(cid) PROVE \E c \in Seq(Nat) : Grown(c)
    BY <1>1, <1>5, ContinueStep
  <1>6. CASE SendMessages
    <2>1. status' # "publisher refused"
      BY <1>6 DEF SendMessages, DeliveryInv
    <2>2. UNCHANGED <<wire, written, peer, sent, srv, got, latest, acked>>
      BY <1>6 DEF SendMessages, pubVars, srvVars
    <2> QED
      BY <2>1, <2>2 DEF PlayerStep
  <1>7. CASE Ping
    BY <1>7 DEF Ping, pubVars, srvVars, DeliveryInv, PlayerStep
  <1>8. CASE Play
    <2>1. status' # "publisher refused"
      BY <1>8 DEF Play, DeliveryInv
    <2>2. UNCHANGED <<wire, written, peer, sent, srv, got, latest, acked>>
      BY <1>8 DEF Play, pubVars, srvVars
    <2> QED
      BY <2>1, <2>2 DEF PlayerStep
  <1>9. ASSUME NEW n \in ChunkSizes, SetChunkSize(n) PROVE PlayerStep
    BY <1>9 DEF SetChunkSize, pubVars, srvVars, DeliveryInv, PlayerStep
  <1>10. CASE UNCHANGED vars
    BY <1>10 DEF vars, pubVars, srvVars, DeliveryInv, PlayerStep
  <1> QED
    BY <1>3, <1>4, <1>5, <1>6, <1>7, <1>8, <1>9, <1>10 DEF Next

\* The invariant is kept by every step.
LEMMA DeliveryNext == DeliveryInv /\ [Next]_vars => DeliveryInv'
  <1> SUFFICES ASSUME DeliveryInv, [Next]_vars PROVE DeliveryInv'
    OBVIOUS
  <1>1. CASE \E c \in Seq(Nat) : Grown(c)
    BY <1>1, GrownKeeps
  <1>2. CASE Recv
    BY <1>2, RecvKeeps
  <1>3. CASE PlayerStep
    BY <1>3 DEF PlayerStep, DeliveryInv
  <1> QED
    BY <1>1, <1>2, <1>3, StepKinds

-----------------------------------------------------------------------------
(* Theorems                                                                *)

\* To begin a sequence is to be a prefix of it.
LEMMA BeginsPrefix ==
  ASSUME NEW S, NEW a \in Seq(S), NEW b \in Seq(S), Begins(a, b)
  PROVE  IsPrefix(a, b)
  <1>1. PICK l, k \in Nat : l = Len(a) /\ k = Len(b)
    BY LenProperties
  <1>2. l <= k /\ \A i \in 1..l : a[i] = b[i]
    BY <1>1 DEF Begins
  <1>3. /\ \A i \in 1..l : a[i] \in S
        /\ \A i \in 1..l : b[i] \in S
    BY <1>1, <1>2, ElementOfSeq
  <1>4. PICK c, d : c = SubSeq(a, 1, l) /\ d = SubSeq(b, 1, l)
    OBVIOUS
  <1>5. c \in Seq(S) /\ Len(c) = l /\ \A i \in 1..l : c[i] = a[i]
    <2>1. /\ c \in Seq(S) /\ Len(c) = IF 1 <= l THEN l - 1 + 1 ELSE 0
          /\ \A i \in 1..l - 1 + 1 : c[i] = a[1 + i - 1]
      BY <1>3, <1>4, SubSeqProperties
    <2>2. Len(c) = l /\ \A i \in 1..l : i \in 1..l - 1 + 1 /\ 1 + i - 1 = i
      BY <2>1
    <2> QED
      BY <2>1, <2>2
  <1>6. d \in Seq(S) /\ Len(d) = l /\ \A i \in 1..l : d[i] = b[i]
    <2>1. /\ d \in Seq(S) /\ Len(d) = IF 1 <= l THEN l - 1 + 1 ELSE 0
          /\ \A i \in 1..l - 1 + 1 : d[i] = b[1 + i - 1]
      BY <1>3, <1>4, SubSeqProperties
    <2>2. Len(d) = l /\ \A i \in 1..l : i \in 1..l - 1 + 1 /\ 1 + i - 1 = i
      BY <2>1
    <2> QED
      BY <2>1, <2>2
  <1>7. c = d
    BY <1>2, <1>5, <1>6, SeqEqual
  <1> QED
    BY <1>1, <1>2, <1>4, <1>7 DEF IsPrefix

\* AllDeliveredIntact follows from where the reader is.
LEMMA DeliveryMeans == DeliveryInv => AllDeliveredIntact
  <1> SUFFICES ASSUME DeliveryInv PROVE AllDeliveredIntact
    OBVIOUS
  <1>1. PICK n, h : n \in Nat /\ HistoryOf(h, n, wire, peer, sent, srv, got)
    BY DEF DeliveryInv
  <1>2. PICK x, z : x = h[0] /\ z = h[n]
    OBVIOUS
  <1>3. /\ SnapOk(x) /\ SnapOk(z) /\ \A c \in AllCids : Begins(x.sent[c], sent[c])
        /\ z = Snap(<<>>, peer, sent) /\ Matches(srv, got, x)
    <2>1. 0 \in 0..n /\ n \in 0..n
      BY <1>1
    <2> QED
      BY <1>1, <1>2, <2>1 DEF HistoryOf
  <1>4. z.cids = peer.cids /\ z.sent = sent
    BY <1>3, SnapFields
  <1>5. ASSUME NEW c \in AllCids
        PROVE  /\ got[c] \in Seq(MsgType) /\ sent[c] \in Seq(MsgType) /\ x.sent[c] \in Seq(MsgType)
               /\ x.sent[c] = IF x.cids[c].left = <<>> THEN got[c] ELSE Append(got[c], Stamped(x.cids[c].msg))
               /\ x.cids[c].left # <<>> => Stamped(x.cids[c].msg) \in MsgType
    <2>1. got[c] \in Seq(MsgType) /\ sent[c] \in Seq(MsgType) /\ x.sent[c] \in Seq(MsgType)
      BY <1>3, <1>4 DEF Matches, SnapOk
    <2>2. x.sent[c] = IF x.cids[c].left = <<>> THEN got[c] ELSE Append(got[c], Stamped(x.cids[c].msg))
      BY <1>3 DEF Matches
    <2>3. x.cids[c].left # <<>> => MessageOk(x.cids[c].msg)
      <3>1. PICK s : s = x.cids[c]
        OBVIOUS
      <3>2. StreamOk(c, s)
        BY <1>3, <3>1 DEF SnapOk
      <3>3. CASE s.started
        BY <3>1, <3>2, <3>3 DEF StreamOk
      <3>4. CASE ~s.started
        <4>1. s = NewStream
          BY <3>2, <3>4 DEF StreamOk
        <4> QED
          BY <3>1, <4>1 DEF NewStream
      <3>5. s.started \in BOOLEAN
        BY <3>2 DEF StreamOk
      <3> QED
        BY <3>1, <3>3, <3>4
    <2> QED
      BY <2>1, <2>2, <2>3, StampedType
  <1>6. ASSUME NEW c \in AllCids PROVE IsPrefix(got[c], sent[c])
    <2>1. PICK b, e : b = x.sent[c] /\ e = Stamped(x.cids[c].msg)
      OBVIOUS
    <2>2. Begins(got[c], b)
      <3>1. Len(got[c]) \in Nat /\ got[c] \in Seq(MsgType)
        BY <1>5, LenProperties
      <3>2. Begins(got[c], got[c])
        BY <3>1 DEF Begins
      <3>3. CASE x.cids[c].left = <<>>
        BY <1>5, <2>1, <3>2, <3>3
      <3>4. CASE x.cids[c].left # <<>>
        BY <1>5, <2>1, <3>1, <3>2, <3>4, BeginsAppend
      <3> QED
        BY <3>3, <3>4
    <2>3. Begins(b, sent[c])
      BY <1>3, <2>1
    <2>4. Begins(got[c], sent[c])
      <3>1. Len(b) \in Nat /\ Len(sent[c]) \in Nat
        BY <1>5, <2>1, LenProperties
      <3> QED
        BY <2>2, <2>3, <3>1 DEF Begins
    <2> QED
      BY <1>5, <2>4, BeginsPrefix
  <1>7. ASSUME wire = <<>>, NEW c \in AllCids
        PROVE  Len(got[c]) = Len(sent[c]) - (IF peer.cids[c].left = <<>> THEN 0 ELSE 1)
    <2>1. n = 0
      BY <1>1, <1>7, HistoryEnds DEF DeliveryInv
    <2>2. x.cids = peer.cids /\ x.sent = sent
      BY <1>2, <1>4, <2>1
    <2>3. sent[c] = IF peer.cids[c].left = <<>> THEN got[c] ELSE Append(got[c], Stamped(x.cids[c].msg))
      BY <1>5, <2>2
    <2>4. Len(got[c]) \in Nat /\ got[c] \in Seq(MsgType)
      BY <1>5, LenProperties
    <2>5. CASE peer.cids[c].left = <<>>
      BY <2>3, <2>4, <2>5
    <2>6. CASE peer.cids[c].left # <<>>
      <3>1. PICK e \in MsgType : sent[c] = Append(got[c], e)
        BY <1>5, <2>2, <2>3, <2>6
      <3>2. Len(sent[c]) = Len(got[c]) + 1
        BY <2>4, <3>1, AppendProperties
      <3> QED
        BY <2>4, <2>6, <3>2
    <2> QED
      BY <2>5, <2>6
  <1>8. status # "publisher refused"
    BY DEF DeliveryInv
  <1> QED
    BY <1>6, <1>7, <1>8 DEF AllDeliveredIntact, DeliveredIntact, AllDelivered

-----------------------------------------------------------------------------
(* The acknowledgements                                                    *)

\* The reader has counted no more than was written, and no more than it has
\* counted has been acknowledged: exactly that, until the count starts again.
\* When the last byte has been read and has completed a message, what is not
\* counted is below half a window, or the message has just set the window.
AckInv ==
    /\ Len(wire) <= written
    /\ srv.window \in Nat /\ srv.nb_recv \in Nat /\ srv.seq \in Nat
    /\ srv.seq <= srv.nb_recv /\ srv.nb_recv <= written
    /\ written <= SeqMax => srv.seq = srv.nb_recv
    /\ acked \in Seq(MsgType)
    /\ srv.seq = IF acked = <<>> THEN 0 ELSE Last(acked).payload[1]
    /\ (wire = <<>> /\ srv.window > 0 /\ \A c \in DOMAIN srv.chunks : ~srv.chunks[c].open) =>
          2 * (written - srv.nb_recv) < srv.window \/ latest = MsgWindowAckSize

\* The last element is the one that was appended.
LEMMA LastOfAppend ==
  ASSUME NEW S, NEW b \in Seq(S), NEW e \in S
  PROVE  Append(b, e) # <<>> /\ Last(Append(b, e)) = e
  <1>1. PICK u : u = Append(b, e)
    OBVIOUS
  <1>2. Len(b) \in Nat
    BY LenProperties
  <1>3. Len(u) = Len(b) + 1 /\ u[Len(b) + 1] = e
    BY <1>1, AppendProperties
  <1>4. u[Len(u)] = e
    BY <1>3
  <1>5. u # <<>>
    <2>1. Len(<<>>) = 0
      BY EmptySeq
    <2> QED
      BY <1>2, <1>3, <2>1
  <1> QED
    BY <1>1, <1>4, <1>5 DEF Last

\* At first nothing has been counted.
LEMMA AckInit == Init => AckInv
  <1> SUFFICES ASSUME Init PROVE AckInv
    OBVIOUS
  <1>1. wire = <<>> /\ written = 0 /\ srv = SrsProtocol /\ acked = <<>>
    BY DEF Init
  <1>2. srv.window = 0 /\ srv.nb_recv = 0 /\ srv.seq = 0
    BY <1>1 DEF SrsProtocol
  <1>3. Len(<<>>) = 0 /\ <<>> \in Seq(MsgType)
    BY EmptySeq
  <1> QED
    BY <1>1, <1>2, <1>3 DEF AckInv

\* The publisher writes.
LEMMA AckGrown ==
  ASSUME DeliveryInv, AckInv, NEW c \in Seq(Nat), Grown(c), wire \in Seq(Nat)
  PROVE  AckInv'
  <1>1. /\ wire' = wire \o c /\ srv' = srv /\ got' = got /\ acked' = acked /\ written' = written + Len(c)
        /\ Len(c) \in Nat \ {0} /\ written \in Nat
    BY DEF Grown, DeliveryInv
  <1>2. PICK n \in Nat \ {0} : n = Len(c)
    BY <1>1
  <1>3. PICK l \in Nat : l = Len(wire)
    BY LenProperties
  <1>4. Len(wire') = l + n
    <2>1. wire \in Seq(Nat) /\ c \in Seq(Nat)
      OBVIOUS
    <2>2. Len(wire \o c) = Len(wire) + Len(c)
      BY <2>1, ConcatProperties
    <2> QED
      BY <1>1, <1>2, <1>3, <2>2
  <1>5. wire' # <<>>
    <2>1. Len(<<>>) = 0
      BY EmptySeq
    <2> QED
      BY <1>2, <1>3, <1>4, <2>1
  <1>6. l <= written /\ written' = written + n
    BY <1>1, <1>2, <1>3 DEF AckInv
  <1>7. Len(wire') <= written' /\ written <= written' /\ written' \in Nat
    BY <1>1, <1>2, <1>3, <1>4, <1>6
  <1>8. /\ srv.window \in Nat /\ srv.nb_recv \in Nat /\ srv.seq \in Nat
        /\ srv.seq <= srv.nb_recv /\ srv.nb_recv <= written
        /\ written <= SeqMax => srv.seq = srv.nb_recv
        /\ acked \in Seq(MsgType)
        /\ srv.seq = IF acked = <<>> THEN 0 ELSE Last(acked).payload[1]
    BY DEF AckInv
  <1>9. srv.nb_recv <= written' /\ (written' <= SeqMax => srv.seq = srv.nb_recv)
    BY <1>1, <1>7, <1>8, ChunkStreamAssumption
  <1> QED
    BY <1>1, <1>5, <1>7, <1>8, <1>9 DEF AckInv

\* What the counts come to when so many bytes have been given.
LEMMA CountsKept ==
  ASSUME NEW a, NEW r, NEW nb \in Nat, CountedAs(a, r, nb),
         NEW total \in Nat, nb <= total, r.window \in Nat, r.nb_recv \in Nat, r.seq \in Nat,
         r.seq <= r.nb_recv, r.nb_recv <= total
  PROVE  /\ a.r.nb_recv \in Nat /\ a.r.seq \in Nat /\ a.r.seq <= a.r.nb_recv /\ a.r.nb_recv <= total
         /\ r.seq = r.nb_recv /\ total <= SeqMax => a.r.seq = a.r.nb_recv
         /\ \/ a.responses = <<>> /\ a.r.seq = r.seq
            \/ a.responses = <<Message(CidProtocolControl, MsgAcknowledgement, 0, 0, <<a.r.seq>>)>>
         /\ r.window > 0 => 2 * (nb - a.r.nb_recv) < r.window
  <1>1. PICK w \in Nat, b \in Nat, s \in Nat : w = r.window /\ b = r.nb_recv /\ s = r.seq
    OBVIOUS
  <1>2. PICK delta \in Int : delta = nb - b
    OBVIOUS
  <1>3. PICK seq \in Int : seq = IF s + delta > SeqMax THEN delta ELSE s + delta
    BY <1>1, <1>2
  <1>4. PICK half \in Nat : half = w \div 2 /\ 2 * half <= w
    <2>1. w \div 2 \in Nat /\ 2 * (w \div 2) <= w
      OBVIOUS
    <2> QED
      BY <2>1
  <1>5. s <= b /\ b <= total
    BY <1>1
  <1>6. IF w <= 0 \/ delta < half
        THEN a.r.nb_recv = b /\ a.r.seq = s /\ a.responses = <<>>
        ELSE /\ a.r.nb_recv = nb /\ a.r.seq = seq
             /\ a.responses = <<Message(CidProtocolControl, MsgAcknowledgement, 0, 0, <<seq>>)>>
    BY <1>1, <1>2, <1>3, <1>4, Zenon DEF CountedAs
  <1>7. CASE w <= 0 \/ delta < half
    <2>1. a.r.nb_recv = b /\ a.r.seq = s /\ a.responses = <<>>
      BY <1>6, <1>7
    <2>2. w > 0 => 2 * (nb - b) < w
      BY <1>2, <1>4, <1>7
    <2> QED
      BY <1>1, <1>5, <2>1, <2>2
  <1>8. CASE ~(w <= 0 \/ delta < half)
    <2>1. /\ a.r.nb_recv = nb /\ a.r.seq = seq
          /\ a.responses = <<Message(CidProtocolControl, MsgAcknowledgement, 0, 0, <<seq>>)>>
      BY <1>6, <1>8
    <2>2. delta >= 0
      BY <1>4, <1>8
    <2>3. seq \in Nat /\ seq <= nb /\ (s = b /\ total <= SeqMax => seq = nb)
      BY <1>2, <1>3, <1>5, <2>2, ChunkStreamAssumption
    <2>4. w > 0 => 2 * (nb - nb) < w
      OBVIOUS
    <2> QED
      BY <1>1, <2>1, <2>3, <2>4
  <1> QED
    BY <1>7, <1>8

\* What the counts come to is kept by an acknowledgement that is sent.
LEMMA AckSent ==
  ASSUME acked \in Seq(MsgType), NEW e \in Nat,
         acked' = acked \o <<Message(CidProtocolControl, MsgAcknowledgement, 0, 0, <<e>>)>>
  PROVE  acked' \in Seq(MsgType) /\ acked' # <<>> /\ Last(acked').payload[1] = e
  <1>1. PICK m, p : p = <<e>> /\ m = Message(CidProtocolControl, MsgAcknowledgement, 0, 0, p)
    OBVIOUS
  <1>2. p \in Seq(Nat) /\ p[1] = e
    BY <1>1
  <1>3. m \in MsgType /\ m.payload = p
    BY <1>1, <1>2 DEF Message, MsgType, AllCids, MsgAcknowledgement
  <1>4. PICK u, v : u = acked /\ v = acked'
    OBVIOUS
  <1>5. u \in Seq(MsgType) /\ v = Append(u, m)
    <2>1. u \in Seq(MsgType) /\ v = u \o <<m>>
      BY <1>1, <1>4
    <2> QED
      BY <1>3, <2>1, AppendIsConcat
  <1>6. v \in Seq(MsgType) /\ v # <<>> /\ Last(v) = m
    BY <1>3, <1>5, AppendProperties, LastOfAppend
  <1> QED
    BY <1>2, <1>3, <1>4, <1>6

\* The reader reads a chunk.
LEMMA AckRecv ==
  ASSUME DeliveryInv, AckInv, Answered, written' = written, wire \in Seq(Nat), wire' \in Seq(Nat)
  PROVE  AckInv'
  <1>1. PICK cid, z : /\ cid \in AllCids /\ StreamOk(cid, z) /\ z.started
                     /\ AdvancedBy(cid, z) /\ AnsweredBy(cid, z)
    BY DEF Answered
  <1>2. PICK n, m, t : n = srv.in_chunk_size /\ m = z.msg /\ t = Rest(z.left, n)
    OBVIOUS
  <1>3. MessageOk(m) /\ m.cid = cid
    BY <1>1, <1>2 DEF StreamOk
  <1>4. /\ Len(wire') \in Nat /\ Len(wire) \in Nat /\ written \in Nat /\ Len(wire) <= written
        /\ Len(wire') <= Len(wire)
    BY <1>1, LenProperties DEF AnsweredBy, AckInv, DeliveryInv
  <1>5. Len(wire') <= written'
    BY <1>4
  <1>6. /\ srv.window \in Nat /\ srv.nb_recv \in Nat /\ srv.seq \in Nat
        /\ srv.seq <= srv.nb_recv /\ srv.nb_recv <= written
        /\ written <= SeqMax => srv.seq = srv.nb_recv
        /\ acked \in Seq(MsgType)
        /\ srv.seq = IF acked = <<>> THEN 0 ELSE Last(acked).payload[1]
    BY DEF AckInv
  <1>7. CASE t # <<>>
    <2>1. SameReader(srv', srv) /\ acked' = acked /\ cid \in DOMAIN srv'.chunks
      BY <1>1, <1>2, <1>7 DEF AnsweredBy
    <2>2. srv'.chunks[cid].open
      <3>1. Agree(ChunkOf(srv', cid), Cut(z, n))
        BY <1>1, <1>2 DEF AdvancedBy
      <3>2. Cut(z, n).left = t /\ Cut(z, n).started
        BY <1>1, <1>2, CutFields DEF StreamOk
      <3>3. ChunkOf(srv', cid) = srv'.chunks[cid]
        BY <2>1 DEF ChunkOf
      <3>4. ChunkOf(srv', cid).open = (Cut(z, n).left # <<>>)
        BY <3>1, <3>2 DEF Agree
      <3> QED
        BY <1>7, <3>2, <3>3, <3>4
    <2>3. srv'.window = srv.window /\ srv'.nb_recv = srv.nb_recv /\ srv'.seq = srv.seq
      BY <2>1 DEF SameReader
    <2> QED
      BY <1>5, <1>6, <2>1, <2>2, <2>3 DEF AckInv
  <1>8. CASE t = <<>>
    <2>1. PICK nb, done :
            /\ nb \in (written - Len(wire'))..written
            /\ CountedAs(done, srv, nb) /\ srv' = done.r /\ acked' = acked \o done.responses
      BY <1>1, <1>2, <1>8 DEF AnsweredBy
    <2>2. nb \in Nat /\ nb <= written
      BY <1>4, <2>1
    <2>3. /\ srv'.nb_recv \in Nat /\ srv'.seq \in Nat /\ srv'.seq <= srv'.nb_recv /\ srv'.nb_recv <= written
          /\ srv.seq = srv.nb_recv /\ written <= SeqMax => srv'.seq = srv'.nb_recv
          /\ \/ done.responses = <<>> /\ srv'.seq = srv.seq
             \/ done.responses = <<Message(CidProtocolControl, MsgAcknowledgement, 0, 0, <<srv'.seq>>)>>
          /\ srv.window > 0 => 2 * (nb - srv'.nb_recv) < srv.window
      BY <1>4, <1>6, <2>1, <2>2, CountsKept
    <2>4. acked' \in Seq(MsgType) /\ srv'.seq = IF acked' = <<>> THEN 0 ELSE Last(acked').payload[1]
      <3>1. CASE done.responses = <<>> /\ srv'.seq = srv.seq
        <4>1. acked' = acked
          BY <1>6, <2>1, <3>1, ConcatEmptySeq
        <4> QED
          BY <1>6, <3>1, <4>1
      <3>2. CASE done.responses = <<Message(CidProtocolControl, MsgAcknowledgement, 0, 0, <<srv'.seq>>)>>
        <4>1. acked' \in Seq(MsgType) /\ acked' # <<>> /\ Last(acked').payload[1] = srv'.seq
          BY <1>6, <2>1, <2>3, <3>2, AckSent
        <4> QED
          BY <4>1
      <3> QED
        BY <2>3, <3>1, <3>2
    <2>5. /\ srv'.window = IF m.type = MsgWindowAckSize /\ m.payload[1] > 0 THEN m.payload[1] ELSE srv.window
          /\ latest' = m.type
      BY <1>1, <1>2, <1>8 DEF AnsweredBy
    <2>6. m.payload[1] \in Nat
      <3>1. m.payload \in Seq(Nat) /\ Len(m.payload) \in Nat \ {0}
        BY <1>3, MessageFacts
      <3>2. 1 \in 1..Len(m.payload)
        BY <3>1
      <3> QED
        BY <3>1, <3>2, ElementOfSeq
    <2>7. srv'.window \in Nat
      BY <1>6, <2>5, <2>6
    <2>8. ASSUME wire' = <<>>, srv'.window > 0
          PROVE  2 * (written - srv'.nb_recv) < srv'.window \/ latest' = MsgWindowAckSize
      <3>1. CASE m.type = MsgWindowAckSize
        BY <2>5, <3>1
      <3>2. CASE m.type # MsgWindowAckSize
        <4>1. srv'.window = srv.window
          BY <2>5, <3>2
        <4>2. nb = written
          <5>1. Len(wire') = 0
            BY <2>8, EmptySeq
          <5> QED
            BY <1>4, <2>1, <5>1
        <4> QED
          BY <2>3, <2>8, <4>1, <4>2
      <3> QED
        BY <3>1, <3>2
    <2> QED
      BY <1>5, <1>6, <2>3, <2>4, <2>7, <2>8 DEF AckInv
  <1> QED
    BY <1>7, <1>8

\* What is on its way is a sequence of bytes.
LEMMA WireType ==
  ASSUME NEW n \in Nat, NEW h, NEW w, NEW p, NEW q, NEW r, NEW g, HistoryOf(h, n, w, p, q, r, g)
  PROVE  w \in Seq(Nat)
  <1>1. 0 \in 0..n
    OBVIOUS
  <1>2. SnapOk(h[0]) /\ h[0].wire = w
    BY <1>1 DEF HistoryOf
  <1> QED
    BY <1>2 DEF SnapOk

\* The invariant is kept by every step.
LEMMA AckNext == DeliveryInv /\ AckInv /\ [Next]_vars => AckInv'
  <1> SUFFICES ASSUME DeliveryInv, AckInv, [Next]_vars PROVE AckInv'
    OBVIOUS
  <1>1. wire \in Seq(Nat)
    <2>1. PICK n, h : n \in Nat /\ HistoryOf(h, n, wire, peer, sent, srv, got)
      BY DEF DeliveryInv
    <2> QED
      BY <2>1, WireType
  <1>2. wire' \in Seq(Nat)
    <2>1. PICK n, h : n \in Nat /\ HistoryOf(h, n, wire', peer', sent', srv', got')
      BY DeliveryNext DEF DeliveryInv
    <2> QED
      BY <2>1, WireType
  <1>3. CASE \E c \in Seq(Nat) : Grown(c)
    BY <1>1, <1>3, AckGrown
  <1>4. CASE Recv
    <2>1. written' = written
      BY <1>4 DEF Recv
    <2> QED
      BY <1>1, <1>2, <1>4, <2>1, RecvKeeps, AckRecv
  <1>5. CASE PlayerStep
    BY <1>5 DEF PlayerStep, AckInv
  <1> QED
    BY <1>3, <1>4, <1>5, StepKinds

\* AcksFollow is what the counts mean.
LEMMA AckMeans == DeliveryInv /\ AckInv => (written <= SeqMax => AcksFollow)
  <1> SUFFICES ASSUME DeliveryInv, AckInv, written <= SeqMax PROVE AcksFollow
    OBVIOUS
  <1>1. PICK last : last = IF acked = <<>> THEN 0 ELSE Last(acked).payload[1]
    OBVIOUS
  <1>2. last = srv.seq /\ srv.seq = srv.nb_recv /\ srv.nb_recv <= written
    BY <1>1 DEF AckInv
  <1>3. ASSUME wire = <<>>, srv.window > 0, \A c \in DOMAIN srv.chunks : ~srv.chunks[c].open
        PROVE  2 * (written - last) < srv.window \/ latest = MsgWindowAckSize
    BY <1>2, <1>3 DEF AckInv
  <1> QED
    BY <1>1, <1>2, <1>3 DEF AcksFollow

\* What SrsProtocol makes of a publisher's bytes is what it sent: for any number
\* of messages and chunk streams, any chunk sizes and lengths, whatever the
\* formats of the headers, however the chunks of the streams are interleaved and
\* whether or not later chunks repeat the extended timestamp, the publisher is
\* never refused, nothing it sent is changed, and nothing is missing when all
\* has been read.
THEOREM AllDeliveredIntactProved == Spec => []AllDeliveredIntact
  <1>1. Spec => []DeliveryInv
    BY DeliveryInit, DeliveryNext, PTL DEF Spec
  <1> QED
    BY <1>1, DeliveryMeans, PTL

\* The publisher is told of what has been read: never of more than it wrote,
\* and once all has been read of all but less than half a window.  The count
\* starts again at SeqMax; up to there the numbers can be compared.
THEOREM AcksFollowProved == Spec => [](written <= SeqMax => AcksFollow)
  <1>1. Spec => []DeliveryInv
    BY DeliveryInit, DeliveryNext, PTL DEF Spec
  <1>2. Spec => []AckInv
    BY <1>1, AckInit, AckNext, PTL DEF Spec
  <1> QED
    BY <1>1, <1>2, AckMeans, PTL

=============================================================================
