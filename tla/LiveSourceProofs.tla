-------------------------- MODULE LiveSourceProofs --------------------------
(***************************************************************************)
(* Theorems of LiveSource, for any number of players and publishers, any   *)
(* configuration and any inputs: the type invariant, the shape of the gop  *)
(* cache, and the order of the mix queue.  They are proved of Spec, in     *)
(* which the threads interleave freely, so they hold of SerialSpec as well.*)
(***************************************************************************)
EXTENDS LiveSource, SequenceTheorems, FiniteSetTheorems, TLAPS

-----------------------------------------------------------------------------
(* The community sequence operators.  The first and the last index that    *)
(* passes a test exist because the strict subsets of a finite set are well *)
(* founded.                                                                *)

\* A set of indices that is not empty has a least and a greatest member.
LEMMA IndexBounds ==
    ASSUME NEW n \in Nat, NEW I \in SUBSET (1..n), I # {}
    PROVE  /\ Min(I) \in I /\ \A i \in I : Min(I) <= i
           /\ Max(I) \in I /\ \A i \in I : i <= Max(I)
<1> DEFINE Up == {1..i : i \in I}
           Down == {i..n : i \in I}
           R == StrictSubsetOrdering(1..n)
           F == FiniteSubsetsOf(1..n)
<1>1. IsWellFoundedOn(R, F)
  BY FS_StrictSubsetOrderingWellFounded
<1>2. IsFiniteSet(1..n)
  BY FS_Interval
<1>3. \A i \in I : (1..i) \in F /\ (i..n) \in F
  BY <1>2, FS_Subset DEF FiniteSubsetsOf
<1>4. Up \subseteq F /\ Up # {} /\ Down \subseteq F /\ Down # {}
  BY <1>3
<1>5. \E i \in I : \A j \in I : i <= j
  <2>1. PICK X \in Up : \A Y \in Up : <<Y, X>> \notin R
    BY <1>1, <1>4, WFMin, Zenon
  <2>2. PICK i \in I : X = 1..i
    OBVIOUS
  <2>3. ASSUME NEW j \in I, j < i PROVE FALSE
    <3>1. (1..j) \subseteq (1..i) /\ i \in (1..i) /\ i \notin (1..j)
      BY <2>3
    <3>2. <<1..j, X>> \in R
      BY <3>1, <2>2, <1>3 DEF StrictSubsetOrdering, FiniteSubsetsOf
    <3> QED BY <2>1, <3>2
  <2> QED BY <2>3
<1>6. \E i \in I : \A j \in I : i >= j
  <2>1. PICK X \in Down : \A Y \in Down : <<Y, X>> \notin R
    BY <1>1, <1>4, WFMin, Zenon
  <2>2. PICK i \in I : X = i..n
    OBVIOUS
  <2>3. ASSUME NEW j \in I, j > i PROVE FALSE
    <3>1. (j..n) \subseteq (i..n) /\ i \in (i..n) /\ i \notin (j..n)
      BY <2>3
    <3>2. <<j..n, X>> \in R
      BY <3>1, <2>2, <1>3 DEF StrictSubsetOrdering, FiniteSubsetsOf
    <3> QED BY <2>1, <3>2
  <2> QED BY <2>3
<1> QED BY <1>5, <1>6 DEF Min, Max

\* The integers at finitely many indices have a least and a greatest one.
LEMMA ValueBounds ==
    ASSUME NEW n \in Nat, NEW I \in SUBSET (1..n), I # {},
           NEW f, \A i \in I : f[i] \in Int,
           NEW S, S = {f[i] : i \in I}
    PROVE  /\ Min(S) \in S /\ \A x \in S : Min(S) <= x
           /\ Max(S) \in S /\ \A x \in S : x <= Max(S)
<1> DEFINE A(i) == {j \in I : f[j] > f[i]}
           B(i) == {j \in I : f[j] < f[i]}
           Up == {A(i) : i \in I}
           Down == {B(i) : i \in I}
           R == StrictSubsetOrdering(1..n)
           F == FiniteSubsetsOf(1..n)
<1>1. IsWellFoundedOn(R, F)
  BY FS_StrictSubsetOrderingWellFounded
<1>2. \A X \in SUBSET I : X \in F
  <2>1. \A X \in SUBSET I : X \in SUBSET (1..n)
    OBVIOUS
  <2>2. IsFiniteSet(1..n)
    BY FS_Interval
  <2> QED BY <2>1, <2>2, FS_Subset, Zenon DEF FiniteSubsetsOf
<1>3. \A i \in I : A(i) \in SUBSET I /\ B(i) \in SUBSET I
  OBVIOUS
<1>4. Up \subseteq F /\ Up # {} /\ Down \subseteq F /\ Down # {}
  <2> HIDE DEF A, B, F
  <2>1. Up \subseteq F /\ Down \subseteq F
    BY <1>2, <1>3
  <2>2. PICK i : i \in I
    OBVIOUS
  <2>3. A(i) \in Up /\ B(i) \in Down
    BY <2>2
  <2> QED BY <2>1, <2>3
<1>5. \E i \in I : \A j \in I : f[j] <= f[i]
  <2>1. PICK X \in Up : \A Y \in Up : <<Y, X>> \notin R
    BY <1>1, <1>4, WFMin, Zenon
  <2>2. PICK i \in I : X = A(i)
    OBVIOUS
  <2>3. ASSUME NEW j \in I, f[j] > f[i] PROVE FALSE
    <3>0. /\ \A k \in I : f[k] > f[j] => f[k] > f[i]
          /\ ~(f[j] > f[j])
      BY <2>3
    <3>1. A(j) \subseteq A(i) /\ j \in A(i) /\ j \notin A(j)
      BY <2>3, <3>0, Zenon
    <3>2. A(j) \in F /\ A(i) \in F /\ A(j) \in Up
      <4> HIDE DEF A, F
      <4> QED BY <1>2, <1>3
    <3>3. <<A(j), X>> \in R
      <4> HIDE DEF A
      <4> QED BY <3>1, <3>2, <2>2 DEF StrictSubsetOrdering, FiniteSubsetsOf
    <3> QED BY <2>1, <3>2, <3>3
  <2> QED BY <2>3
<1>6. \E i \in I : \A j \in I : f[i] <= f[j]
  <2>1. PICK X \in Down : \A Y \in Down : <<Y, X>> \notin R
    BY <1>1, <1>4, WFMin, Zenon
  <2>2. PICK i \in I : X = B(i)
    OBVIOUS
  <2>3. ASSUME NEW j \in I, f[j] < f[i] PROVE FALSE
    <3>0. /\ \A k \in I : f[k] < f[j] => f[k] < f[i]
          /\ ~(f[j] < f[j])
      BY <2>3
    <3>1. B(j) \subseteq B(i) /\ j \in B(i) /\ j \notin B(j)
      BY <2>3, <3>0, Zenon
    <3>2. B(j) \in F /\ B(i) \in F /\ B(j) \in Down
      <4> HIDE DEF B, F
      <4> QED BY <1>2, <1>3
    <3>3. <<B(j), X>> \in R
      <4> HIDE DEF B
      <4> QED BY <3>1, <3>2, <2>2 DEF StrictSubsetOrdering, FiniteSubsetsOf
    <3> QED BY <2>1, <3>2, <3>3
  <2> QED BY <2>3
<1>7. S \subseteq Int /\ (\E x \in S : \A y \in S : x >= y)
      /\ (\E x \in S : \A y \in S : x <= y)
  <2>1. S \subseteq Int
    OBVIOUS
  <2>2. PICK a \in I : \A j \in I : f[j] <= f[a]
    BY <1>5
  <2>3. f[a] \in S /\ \A y \in S : f[a] >= y
    BY <2>2
  <2>4. PICK b \in I : \A j \in I : f[b] <= f[j]
    BY <1>6
  <2>5. f[b] \in S /\ \A y \in S : f[b] <= y
    BY <2>4
  <2> QED BY <2>1, <2>3, <2>5, Zenon
<1> HIDE DEF A, B, Up, Down, R, F
<1> QED BY <1>7 DEF Min, Max

\* Inserting and removing one element keep the type, and change the length by
\* one.
LEMMA InsertAtType ==
    ASSUME NEW S, NEW s \in Seq(S), NEW i \in 1..Len(s) + 1, NEW e \in S
    PROVE  /\ InsertAt(s, i, e) \in Seq(S)
           /\ Len(InsertAt(s, i, e)) = Len(s) + 1
           /\ \A k \in 1..Len(s) + 1 :
                 InsertAt(s, i, e)[k] = IF k < i THEN s[k]
                                        ELSE IF k = i THEN e ELSE s[k - 1]
<1> DEFINE a == SubSeq(s, 1, i - 1)
           b == SubSeq(s, i, Len(s))
<1>1. /\ a \in Seq(S) /\ Len(a) = i - 1
      /\ \A k \in 1..i - 1 : a[k] = s[k]
  OBVIOUS
<1>2. /\ b \in Seq(S) /\ Len(b) = Len(s) - i + 1
      /\ \A k \in 1..Len(b) : b[k] = s[k + i - 1]
  OBVIOUS
<1>3. InsertAt(s, i, e) = a \o <<e>> \o b
  BY DEF InsertAt
<1> HIDE DEF a, b
<1>4. /\ a \o <<e>> \in Seq(S) /\ Len(a \o <<e>>) = i
      /\ \A k \in 1..i : (a \o <<e>>)[k] = IF k < i THEN s[k] ELSE e
  BY <1>1
<1>5. /\ InsertAt(s, i, e) \in Seq(S)
      /\ Len(InsertAt(s, i, e)) = Len(s) + 1
  <2>1. PICK p : p = a \o <<e>>
    OBVIOUS
  <2>2. p \in Seq(S) /\ b \in Seq(S) /\ Len(p) = i /\ InsertAt(s, i, e) = p \o b
    BY <1>2, <1>3, <1>4, <2>1
  <2>3. p \o b \in Seq(S) /\ Len(p \o b) = Len(p) + Len(b)
    BY <2>2, ConcatProperties
  <2> QED BY <1>2, <2>2, <2>3
<1>6. ASSUME NEW k \in 1..Len(s) + 1
      PROVE  InsertAt(s, i, e)[k] = IF k < i THEN s[k]
                                    ELSE IF k = i THEN e ELSE s[k - 1]
  <2>1. CASE k <= i
    BY <2>1, <1>2, <1>3, <1>4
  <2>2. CASE k > i
    <3>1. InsertAt(s, i, e)[k] = b[k - i]
      BY <2>2, <1>2, <1>3, <1>4
    <3>2. b[k - i] = s[k - i + i - 1]
      BY <2>2, <1>2
    <3> QED BY <2>2, <3>1, <3>2
  <2> QED BY <2>1, <2>2
<1> QED BY <1>5, <1>6

LEMMA RemoveFirstType ==
    ASSUME NEW S, NEW s \in Seq(S), NEW e
    PROVE  /\ RemoveFirst(s, e) \in Seq(S)
           /\ (\A k \in 1..Len(s) : s[k] # e) => RemoveFirst(s, e) = s
           /\ \A i \in 1..Len(s) :
                 s[i] = e /\ (\A j \in 1..i - 1 : s[j] # e) =>
                     /\ Len(RemoveFirst(s, e)) = Len(s) - 1
                     /\ \A k \in 1..Len(s) - 1 :
                           RemoveFirst(s, e)[k] = IF k < i THEN s[k] ELSE s[k + 1]
<1>1. CASE \A k \in 1..Len(s) : s[k] # e
  BY <1>1 DEF RemoveFirst
<1>2. CASE \E k \in 1..Len(s) : s[k] = e
  <2> DEFINE I == {k \in 1..Len(s) : s[k] = e}
             m == Min(I)
  <2>1. m \in I /\ \A k \in I : m <= k
    <3>1. I \in SUBSET (1..Len(s)) /\ I # {} /\ Len(s) \in Nat
      BY <1>2
    <3> HIDE DEF I
    <3> QED BY <3>1, IndexBounds
  <2>2. RemoveFirst(s, e) = SubSeq(s, 1, m - 1) \o SubSeq(s, m + 1, Len(s))
    BY <1>2 DEF RemoveFirst, RemoveAt, SelectInSeq
  <2>3. ASSUME NEW i \in 1..Len(s), s[i] = e, \A j \in 1..i - 1 : s[j] # e
        PROVE  i = m
    BY <2>1, <2>3
  <2>4. m \in 1..Len(s) /\ s[m] = e
    BY <2>1
  <2> HIDE DEF m
  <2> DEFINE a == SubSeq(s, 1, m - 1)
             b == SubSeq(s, m + 1, Len(s))
  <2>5. /\ a \in Seq(S) /\ Len(a) = m - 1
        /\ \A k \in 1..m - 1 : a[k] = s[k]
    BY <2>4
  <2>6. /\ b \in Seq(S) /\ Len(b) = Len(s) - m
        /\ \A k \in 1..Len(s) - m : b[k] = s[k + m]
    BY <2>4
  <2> HIDE DEF a, b
  <2>7. /\ RemoveFirst(s, e) \in Seq(S)
        /\ Len(RemoveFirst(s, e)) = Len(s) - 1
    <3>1. RemoveFirst(s, e) = a \o b
      BY <2>2 DEF a, b
    <3> QED BY <3>1, <2>4, <2>5, <2>6
  <2>8. ASSUME NEW k \in 1..Len(s) - 1
        PROVE  RemoveFirst(s, e)[k] = IF k < m THEN s[k] ELSE s[k + 1]
    <3>0. RemoveFirst(s, e) = a \o b
      BY <2>2 DEF a, b
    <3>1. CASE k < m
      BY <3>0, <3>1, <2>4, <2>5, <2>6
    <3>2. CASE k >= m
      <4>1. (a \o b)[k] = b[k - (m - 1)]
        BY <3>2, <2>4, <2>5, <2>6, SMTT(30)
      <4>2. k - (m - 1) \in 1..Len(s) - m /\ (k - (m - 1)) + m = k + 1
        BY <3>2, <2>4
      <4>3. b[k - (m - 1)] = s[(k - (m - 1)) + m]
        BY <4>2, <2>6
      <4>4. ~(k < m)
        BY <3>2, <2>4
      <4> QED BY <3>0, <4>1, <4>2, <4>3, <4>4
    <3> QED BY <3>1, <3>2, <2>4
  <2> QED BY <1>2, <2>3, <2>7, <2>8
<1> QED BY <1>1, <1>2

Has(s, d) == \E i \in 1..Len(s) : s[i] = d

\* A sequence from which the first e is taken holds the others.
LEMMA OthersStay ==
    ASSUME NEW S, NEW s \in Seq(S), NEW e, NEW d, d # e, Has(s, d)
    PROVE  Has(RemoveFirst(s, e), d)
<1> DEFINE I == {i \in 1..Len(s) : s[i] = e}
           z == RemoveFirst(s, e)
<1>0. PICK k \in 1..Len(s) : s[k] = d
  BY DEF Has
<1>1. CASE I = {}
  <2>1. z = s
    BY <1>1, RemoveFirstType
  <2> QED BY <2>1
<1>2. CASE I # {}
  <2> DEFINE i == Min(I)
  <2>1. I \in SUBSET (1..Len(s)) /\ Len(s) \in Nat
    OBVIOUS
  <2>2. i \in I /\ \A x \in I : i <= x
    <3> HIDE DEF I
    <3> QED BY <1>2, <2>1, IndexBounds
  <2>3. i \in 1..Len(s) /\ s[i] = e /\ \A j \in 1..i - 1 : s[j] # e
    <3>1. i \in 1..Len(s) /\ s[i] = e
      BY <2>2
    <3>2. ASSUME NEW j \in 1..i - 1 PROVE s[j] # e
      <4>1. j \in 1..Len(s) /\ ~(i <= j)
        <5> HIDE DEF i
        <5> QED BY <2>1, <3>1
      <4> QED BY <2>2, <4>1
    <3> QED BY <3>1, <3>2
  <2> HIDE DEF I, i
  <2>4. /\ Len(z) = Len(s) - 1
        /\ \A x \in 1..Len(s) - 1 : z[x] = IF x < i THEN s[x] ELSE s[x + 1]
    BY <2>3, RemoveFirstType
  <2> HIDE DEF z
  <2>5. CASE k < i
    <3>1. k \in 1..Len(s) - 1 /\ z[k] = s[k]
      BY <2>1, <2>3, <2>4, <2>5
    <3> QED BY <1>0, <2>1, <2>4, <3>1 DEF z, Has
  <2>6. CASE k > i
    <3>1. k - 1 \in 1..Len(s) - 1 /\ ~(k - 1 < i) /\ (k - 1) + 1 = k
      BY <2>1, <2>3, <2>6
    <3>2. z[k - 1] = s[k]
      BY <2>4, <3>1
    <3> QED BY <1>0, <2>1, <2>4, <3>1, <3>2 DEF z, Has
  <2>7. k # i
    BY <1>0, <2>3
  <2> QED BY <2>1, <2>3, <2>5, <2>6, <2>7
<1> QED BY <1>1, <1>2

-----------------------------------------------------------------------------
(* The operators on messages, queues and caches. *)

\* A message with another time is a message.
LEMMA RetimedType ==
    ASSUME NEW m \in Message, NEW t \in Int
    PROVE  [m EXCEPT !.ts = t] \in Message
  BY DEF Message

LEMMA MessageTs == \A m \in Message : m.ts \in Int
  BY DEF Message

\* NULL is no message.
LEMMA NoMessageIsNone == NoMessage \notin Message
  BY DEF Message, NoMessage

LEMMA JitterTypes ==
    ASSUME NEW j \in JitterType, NEW m \in Message, NEW ag \in JitterAlgorithm
    PROVE  /\ JitterAfter(j, m, ag) \in JitterType
           /\ Corrected(j, m, ag) \in Message
<1>1. m.ts \in Int
  BY MessageTs
<1>2. ZeroBase(j, m) \in Int
  BY <1>1 DEF ZeroBase, JitterType
<1>3. JitterDelta(j, m.ts) \in Int
  BY <1>1, QueueAssumption DEF JitterDelta, JitterType
<1>4. JitterAfter(j, m, ag) \in JitterType
  BY <1>1, <1>2, <1>3 DEF JitterAfter, JitterType, JitterAlgorithm, srs_max
<1>5. Corrected(j, m, ag) \in Message
  <2>1. CASE ag = "OFF"
    BY <2>1 DEF Corrected
  <2>2. CASE ag = "ZERO"
    BY <2>2, <1>1, <1>2, RetimedType DEF Corrected
  <2>3. CASE ag = "FULL"
    BY <2>3, <1>4, RetimedType DEF Corrected, JitterType
  <2> QED BY <2>1, <2>2, <2>3 DEF JitterAlgorithm
<1> QED BY <1>4, <1>5

LEMMA LatestHeaderType ==
    ASSUME NEW msgs \in Seq(Message), NEW type, NEW t \in Int
    PROVE  LatestHeader(msgs, type, t) \in Seq(Message)
<1> DEFINE I == {i \in 1..Len(msgs) : sh(msgs[i]) /\ msgs[i].type = type}
<1>1. CASE I = {}
  BY <1>1 DEF LatestHeader
<1>2. CASE I # {}
  <2>1. I \in SUBSET (1..Len(msgs)) /\ Len(msgs) \in Nat
    OBVIOUS
  <2>2. Max(I) \in I
    <3> HIDE DEF I
    <3> QED BY <1>2, <2>1, IndexBounds
  <2>3. msgs[Max(I)] \in Message
    BY <2>2
  <2>4. [msgs[Max(I)] EXCEPT !.ts = t] \in Message
    BY <2>3, RetimedType
  <2> QED BY <1>2, <2>4 DEF LatestHeader
<1> QED BY <1>1, <1>2

LEMMA QueueTypes ==
    ASSUME NEW q \in QueueType
    PROVE  /\ \A m \in Message : enqueue(q, m) \in QueueType
           /\ \A max \in Nat \ {0} : /\ AfterDump(q, max) \in QueueType
                                     /\ Dumped(q, max) \in Seq(Message)
<1>1. ASSUME NEW m \in Message PROVE enqueue(q, m) \in QueueType
  <2> DEFINE p == Pushed(q, m)
  <2>1. p \in QueueType
    BY MessageTs DEF Pushed, QueueType
  <2>2. \A type : LatestHeader(p.msgs, type, p.av_end_time) \in Seq(Message)
    BY <2>1, LatestHeaderType DEF QueueType
  <2>3. shrink(p) \in QueueType
    BY <2>1, <2>2 DEF shrink, QueueType
  <2> QED BY <2>1, <2>3 DEF enqueue
<1>2. ASSUME NEW max \in Nat \ {0}
      PROVE  AfterDump(q, max) \in QueueType /\ Dumped(q, max) \in Seq(Message)
  <2>1. DumpCount(q, max) \in 0..Len(q.msgs)
    BY DEF DumpCount, QueueType
  <2>2. Dumped(q, max) \in Seq(Message)
    BY <2>1 DEF Dumped, QueueType
  <2>3. CASE q.msgs = <<>>
    BY <2>2, <2>3 DEF AfterDump
  <2>4. CASE q.msgs # <<>>
    <3>1. DumpCount(q, max) \in 1..Len(q.msgs)
      BY <2>4 DEF DumpCount, QueueType
    <3>2. q.msgs[DumpCount(q, max)].ts \in Int
      BY <3>1, MessageTs DEF QueueType
    <3>3. SubSeq(q.msgs, DumpCount(q, max) + 1, Len(q.msgs)) \in Seq(Message)
      BY <3>1 DEF QueueType
    <3> QED BY <2>2, <2>4, <3>2, <3>3 DEF AfterDump, QueueType
  <2> QED BY <2>3, <2>4
<1> QED BY <1>1, <1>2

\* The caches whose flag is in B: with B a bound name the provers need not
\* treat the flag as a formula.
GopOver(B) == [enabled : B, msgs : Seq(Message),
               cached_video_count : Nat, audio_after_last_video_count : Nat]

LEMMA GopOps ==
    ASSUME NEW B, NEW g \in GopOver(B), NEW m \in Message
    PROVE  /\ GopClear(g) \in GopOver(B)
           /\ [g EXCEPT !.cached_video_count = 1] \in GopOver(B)
           /\ GopCount(g, m) \in GopOver(B)
           /\ GopPush(g, m) \in GopOver(B)
<1>1. ASSUME NEW s \in Seq(Message), NEW v \in Nat, NEW a \in Nat
      PROVE  /\ [g EXCEPT !.msgs = s, !.cached_video_count = v,
                          !.audio_after_last_video_count = a] \in GopOver(B)
             /\ [g EXCEPT !.cached_video_count = v,
                          !.audio_after_last_video_count = a] \in GopOver(B)
             /\ [g EXCEPT !.msgs = s] \in GopOver(B)
             /\ [g EXCEPT !.cached_video_count = v] \in GopOver(B)
             /\ [g EXCEPT !.audio_after_last_video_count = a] \in GopOver(B)
  BY DEF GopOver
<1>2. /\ <<>> \in Seq(Message) /\ 0 \in Nat /\ 1 \in Nat
      /\ Append(g.msgs, m) \in Seq(Message)
      /\ g.cached_video_count + 1 \in Nat
      /\ g.audio_after_last_video_count + 1 \in Nat
  BY DEF GopOver
<1>3. GopClear(g) \in GopOver(B)
  BY <1>1, <1>2, Zenon DEF GopClear
<1>4. [g EXCEPT !.cached_video_count = 1] \in GopOver(B)
  BY <1>1, <1>2, Zenon
<1>5. GopCount(g, m) \in GopOver(B)
  BY <1>1, <1>2, Zenon DEF GopCount
<1>6. GopPush(g, m) \in GopOver(B)
  BY <1>1, <1>2, Zenon DEF GopPush
<1> QED BY <1>3, <1>4, <1>5, <1>6

LEMMA GopTypes ==
    ASSUME NEW g \in GopType, NEW m \in Message
    PROVE  /\ GopClear(g) \in GopType
           /\ [g EXCEPT !.cached_video_count = 1] \in GopType
           /\ GopCount(g, m) \in GopType
           /\ GopPush(g, m) \in GopType
<1>1. GopType = GopOver(BOOLEAN)
  BY DEF GopType, GopOver
<1> QED BY <1>1, GopOps, Zenon

\* Clearing needs no message.
LEMMA GopClearType == \A g \in GopType : GopClear(g) \in GopType
<1>1. [type |-> "audio", kind |-> "raw", id |-> 0, ts |-> 0] \in Message
  BY DEF Message, AudioKinds
<1> QED BY <1>1, GopTypes, Zenon

LEMMA GopSetType ==
    ASSUME NEW g \in GopType, NEW v \in BOOLEAN
    PROVE  GopSet(g, v) \in GopType
<1>1. [g EXCEPT !.enabled = TRUE] \in GopType
  BY DEF GopType
<1>2. [g EXCEPT !.enabled = FALSE] \in GopType
  BY DEF GopType
<1>3. GopClear([g EXCEPT !.enabled = FALSE]) \in GopType
  BY <1>2, GopClearType, Zenon
<1> QED BY <1>1, <1>3, Zenon DEF GopSet

LEMMA GopStartTimeType ==
    ASSUME NEW g \in GopType
    PROVE  GopStartTime(g) \in Int
  BY MessageTs DEF GopStartTime, GopType

LEMMA GopCacheType ==
    ASSUME NEW g \in GopType, NEW m \in Message
    PROVE  GopCacheMsg(g, m) \in GopType
<1> DEFINE c == GopCount(g, m)
           k == [GopClear(c) EXCEPT !.cached_video_count = 1]
<1>1. c \in GopType
  BY GopTypes, Zenon
<1>2. GopClear(c) \in GopType
  BY <1>1, GopTypes, Zenon
<1>3. k \in GopType
  BY <1>2, GopTypes, Zenon
<1>4. GopPush(k, m) \in GopType /\ GopPush(c, m) \in GopType
  BY <1>1, <1>3, GopTypes, Zenon
<1>5. GopCacheMsg(g, m) \in {g, c, GopClear(c), GopPush(k, m), GopPush(c, m)}
  <2> HIDE DEF c
  <2> QED BY Zenon DEF GopCacheMsg, c
<1> QED BY <1>1, <1>2, <1>4, <1>5, Zenon

\* What the mix queue is made of.
AvMessage == {m \in Message : is_av(m)}

LEMMA MixTypes ==
    ASSUME NEW q \in Seq(AvMessage), NEW m \in AvMessage
    PROVE  /\ MixPush(q, m) \in Seq(AvMessage)
           /\ Len(MixPush(q, m)) = Len(q) + 1
           /\ MixPopped(MixPush(q, m)) \in AvMessage \cup {NoMessage}
           /\ MixAfterPop(MixPush(q, m)) \in Seq(AvMessage)
<1> DEFINE I == {i \in DOMAIN q : q[i].ts <= m.ts}
<1>1. Cardinality(I) \in 0..Len(q)
  <2>1. I \subseteq 1..Len(q) /\ Len(q) \in Nat
    OBVIOUS
  <2>2. IsFiniteSet(1..Len(q)) /\ Cardinality(1..Len(q)) = Len(q)
    BY <2>1, FS_Interval
  <2> HIDE DEF I
  <2>3. IsFiniteSet(I) /\ Cardinality(I) <= Len(q)
    BY <2>1, <2>2, FS_Subset
  <2> QED BY <2>1, <2>3, FS_CardinalityType
<1>2. 1 + Cardinality(I) \in 1..Len(q) + 1
  BY <1>1
<1>3. /\ MixPush(q, m) \in Seq(AvMessage)
      /\ Len(MixPush(q, m)) = Len(q) + 1
  BY <1>2, InsertAtType DEF MixPush
<1> QED BY <1>3 DEF MixPopped, MixAfterPop

ConsumerOver(B) == [jitter : JitterType, queue : QueueType,
                    paused : B, should_update_source_id : B]

LEMMA ConsumerOps ==
    ASSUME NEW B, NEW k \in ConsumerOver(B), NEW j \in JitterType,
           NEW q \in QueueType, NEW b \in B
    PROVE  /\ [k EXCEPT !.jitter = j, !.queue = q] \in ConsumerOver(B)
           /\ [k EXCEPT !.should_update_source_id = b] \in ConsumerOver(B)
           /\ [k EXCEPT !.should_update_source_id = b, !.queue = q]
                 \in ConsumerOver(B)
           /\ [k EXCEPT !.paused = b] \in ConsumerOver(B)
  BY DEF ConsumerOver

LEMMA ConsumerTypes ==
    ASSUME NEW k \in ConsumerType, NEW j \in JitterType,
           NEW q \in QueueType, NEW b \in BOOLEAN
    PROVE  /\ [k EXCEPT !.jitter = j, !.queue = q] \in ConsumerType
           /\ [k EXCEPT !.should_update_source_id = b] \in ConsumerType
           /\ [k EXCEPT !.should_update_source_id = b, !.queue = q]
                 \in ConsumerType
           /\ [k EXCEPT !.paused = b] \in ConsumerType
<1>1. ConsumerType = ConsumerOver(BOOLEAN)
  BY DEF ConsumerType, ConsumerOver
<1> QED BY <1>1, ConsumerOps, Zenon

LEMMA NewConsumerType == NewConsumer \in ConsumerType
<1>1. NewJitter \in JitterType
  BY DEF NewJitter, JitterType
<1>2. NewQueue \in QueueType
  BY DEF NewQueue, QueueType
<1> QED BY <1>1, <1>2 DEF NewConsumer, ConsumerType

LEMMA EnqueuedType ==
    ASSUME NEW k \in ConsumerType, NEW m \in Message
    PROVE  Enqueued(k, m) \in ConsumerType
<1> DEFINE j == IF atc THEN k.jitter ELSE JitterAfter(k.jitter, m, Jitter)
           n == IF atc THEN m ELSE Corrected(k.jitter, m, Jitter)
<1>1. k.jitter \in JitterType /\ k.queue \in QueueType
  BY DEF ConsumerType
<1>2. j \in JitterType /\ n \in Message
  BY <1>1, JitterTypes, SourceAssumption
<1>3. enqueue(k.queue, n) \in QueueType
  BY <1>1, <1>2, QueueTypes
<1>4. Enqueued(k, m) = [k EXCEPT !.jitter = j, !.queue = enqueue(k.queue, n)]
  BY DEF Enqueued
<1>5. \A q \in QueueType : [k EXCEPT !.jitter = j, !.queue = q] \in ConsumerType
  <2> HIDE DEF j
  <2> QED BY <1>2, ConsumerTypes, Zenon
<1> QED BY <1>3, <1>4, <1>5, Zenon

\* The message a publisher sends is a message.
LEMMA InputType ==
    ASSUME NEW x \in Inputs, NEW t \in Stamps, NEW n \in Nat,
           NEW frame \in BOOLEAN
    PROVE  [type |-> x[1], kind |-> x[2], ts |-> t,
            id |-> IF frame THEN n ELSE x[3]] \in Message
<1>1. [type |-> x[1], kind |-> x[2], id |-> x[3], ts |-> 0] \in Message
  BY SourceAssumption
<1>2. t \in Int
  BY SourceAssumption
<1>3. x[3] \in Nat
  BY <1>1 DEF Message
<1>4. (IF frame THEN n ELSE x[3]) \in Nat
  BY <1>3
<1> QED BY <1>1, <1>2, <1>4 DEF Message

LEMMA MetaTypes ==
    ASSUME NEW h \in MetaType, NEW m \in Message, NEW t \in Int
    PROVE  /\ [h EXCEPT !.data = m] \in MetaType
           /\ [h EXCEPT !.video = m] \in MetaType
           /\ Retimed(h.data, t) \in Message \cup {NoMessage}
           /\ Retimed(h.video, t) \in Message \cup {NoMessage}
           /\ Retimed(h.audio, t) \in Message \cup {NoMessage}
  BY RetimedType DEF MetaType, Retimed

-----------------------------------------------------------------------------
(* The type invariant. *)

\* What the type invariant needs to be inductive: a handler under way has a
\* message, a dispatch of metadata finds it in the cache, the mix queue holds
\* audio and video, and the loops count from one.
HandlersSound ==
    /\ publisher.pc \in {"dispatch", "tail"} =>
          publisher.msg \in Message /\ publisher.next >= 1
    /\ publisher.pc = "dispatch" /\ ~is_av(publisher.msg) =>
          meta.data \in Message
    /\ mix_queue \in Seq(AvMessage)
    /\ \A c \in Consumer : player[c].pc = "gop" => player[c].next >= 1

IInv == TypeOK /\ HandlersSound

LEMMA InitIInv == Init => IInv
<1> SUFFICES ASSUME Init PROVE IInv
  OBVIOUS
<1> USE DEF Init
<1>1. gop_cache \in GopType
  BY DEF NewGop, GopType
<1>2. meta \in MetaType
  BY DEF MetaType
<1>3. consumer \in [Consumer -> ConsumerType]
  BY NewConsumerType
<1>4. player \in [Consumer -> [pc : PlayerStep, next : Nat]]
  BY DEF PlayerStep
<1>5. publisher \in [pc : PublisherStep, msg : Message \cup {NoMessage},
                     next : Nat]
  BY DEF PublisherStep
<1>6. received \in [Consumer -> Seq(Message)]
  OBVIOUS
<1>7. atc \in BOOLEAN
  BY SourceAssumption
<1>8. /\ source_id \in Publisher \cup {-1} /\ pre_source_id \in Publisher \cup {-1}
      /\ mix_queue \in Seq(Message) /\ last_packet_time \in Int
      /\ consumers \in Seq(Consumer)
      /\ sessions \in Nat /\ sent \in Nat /\ nframes \in Nat
  OBVIOUS
<1>9. can_publish \in BOOLEAN /\ is_monotonically_increase \in BOOLEAN
  OBVIOUS
<1>10. TypeOK
  <2> USE DEF TypeOK
  <2> HIDE DEF Init
  <2> QED BY <1>1, <1>2, <1>3, <1>4, <1>5, <1>6, <1>7, <1>8, <1>9, Zenon
<1>11. HandlersSound
  BY DEF HandlersSound
<1> QED BY <1>10, <1>11 DEF IInv

\* The publisher's program counter and message.
PubType == [pc : PublisherStep, msg : Message \cup {NoMessage}, next : Nat]

LEMMA PubTypes ==
    /\ Ready \in PubType /\ Failed \in PubType
    /\ \A m \in Message : Dispatch(m) \in PubType /\ SkipDispatch(m) \in PubType
  BY DEF Ready, Failed, Dispatch, SkipDispatch, PubType, PublisherStep

\* The entry of a handler: the header is cached, the message is held.
LEMMA BeginImpTypes ==
    ASSUME IInv, NEW m \in Message, BeginImp(m)
    PROVE  /\ meta' \in MetaType
           /\ publisher' \in PubType
           /\ publisher'.pc \in {"dispatch", "tail"} =>
                 publisher'.msg = m /\ publisher'.next = 1
<1>1. meta' \in MetaType
  <2>1. meta \in MetaType
    BY DEF IInv, TypeOK
  <2>2. [meta EXCEPT !.video = m] \in MetaType
    BY <2>1 DEF MetaType
  <2> QED BY <2>1, <2>2 DEF BeginImp
<1>2. publisher' \in {Failed, SkipDispatch(m), Dispatch(m)}
  BY DEF BeginImp
<1>3. publisher' \in PubType
  BY <1>2, PubTypes
<1> QED BY <1>1, <1>2, <1>3 DEF Failed, Dispatch, SkipDispatch

LEMMA AvStepIInv ==
    ASSUME IInv, NEW m \in Message, on_av(m),
           sent' \in Nat, nframes' \in Nat, sessions' \in Nat
    PROVE  IInv'
<1> DEFINE q == MixPush(mix_queue, m)
<1>1. m \in AvMessage /\ mix_queue \in Seq(AvMessage)
  BY DEF on_av, IInv, HandlersSound, AvMessage
<1>2. /\ mix_queue' \in Seq(AvMessage) /\ meta' \in MetaType
      /\ publisher' \in PubType
      /\ publisher'.pc \in {"dispatch", "tail"} =>
            publisher'.msg \in AvMessage /\ publisher'.next >= 1
  <2>1. CASE UNCHANGED <<mix_queue, meta, publisher>>
    BY <1>1, <2>1 DEF on_av, IInv, TypeOK, PubType
  <2>2. CASE BeginImp(m) /\ UNCHANGED mix_queue
    BY <1>1, <2>2, BeginImpTypes
  <2>3. CASE /\ mix_queue' = MixAfterPop(q)
             /\ MixPopped(q) = NoMessage /\ UNCHANGED <<meta, publisher>>
    <3>1. MixAfterPop(q) \in Seq(AvMessage)
      BY <1>1, MixTypes
    <3> QED BY <2>3, <3>1 DEF on_av, IInv, TypeOK, PubType
  <2>4. CASE /\ mix_queue' = MixAfterPop(q)
             /\ MixPopped(q) # NoMessage /\ BeginImp(MixPopped(q))
    <3>1. MixAfterPop(q) \in Seq(AvMessage) /\ MixPopped(q) \in AvMessage
      BY <1>1, <2>4, MixTypes
    <3>2. MixPopped(q) \in Message
      BY <3>1 DEF AvMessage
    <3> HIDE DEF q
    <3> QED BY <2>4, <3>1, <3>2, BeginImpTypes
  <2> QED BY <2>1, <2>2, <2>3, <2>4 DEF on_av
<1>3. mix_queue' \in Seq(Message)
  <2>1. AvMessage \subseteq Message
    BY DEF AvMessage
  <2> QED BY <1>2, <2>1, SeqMonotonic
<1>4. last_packet_time' \in Int
  BY MessageTs DEF on_av
<1>5. is_monotonically_increase' \in BOOLEAN
  BY DEF on_av
<1>6. TypeOK'
  BY <1>2, <1>3, <1>4, <1>5 DEF on_av, IInv, TypeOK, PubType, idVars
<1>7. HandlersSound'
  BY <1>2 DEF on_av, IInv, HandlersSound, AvMessage
<1> QED BY <1>6, <1>7 DEF IInv

LEMMA MetaStepIInv ==
    ASSUME IInv, NEW m \in Message, on_meta_data(m),
           sent' \in Nat, nframes' \in Nat, sessions' \in Nat
    PROVE  IInv'
<1> USE DEF on_meta_data, IInv
<1>1. meta' \in MetaType /\ meta'.data = m
  BY DEF TypeOK, MetaType
<1>2. atc' \in BOOLEAN
  OBVIOUS
<1>3. publisher' \in PubType
  BY PubTypes
<1>4. TypeOK'
  BY <1>1, <1>2, <1>3 DEF TypeOK, PubType, idVars, monoVars
<1>5. HandlersSound'
  BY <1>1 DEF HandlersSound, Ready, Dispatch
<1> QED BY <1>4, <1>5

LEMMA DispatchOneIInv ==
    ASSUME IInv, DispatchOne
    PROVE  IInv'
<1> USE DEF DispatchOne, IInv
<1> DEFINE m == IF is_av(publisher.msg) THEN publisher.msg ELSE meta.data
           c == consumers[publisher.next]
<1>1. m \in Message
  BY DEF HandlersSound
<1>2. c \in Consumer
  BY DEF HandlersSound, TypeOK
<1>3. Enqueued(consumer[c], m) \in ConsumerType
  BY <1>1, <1>2, EnqueuedType DEF TypeOK
<1>4. consumer' \in [Consumer -> ConsumerType]
  BY <1>2, <1>3 DEF TypeOK
<1>5. publisher' \in PubType
  <2>1. publisher \in PubType
    BY DEF TypeOK, PubType
  <2>2. \A p \in PubType : [p EXCEPT !.next = p.next + 1] \in PubType
    BY DEF PubType
  <2> QED BY <2>1, <2>2
<1>6. TypeOK'
  BY <1>4, <1>5 DEF TypeOK, PubType, sourceVars, idVars, monoVars, historyVars
<1>7. HandlersSound'
  BY DEF HandlersSound, TypeOK, sourceVars
<1> QED BY <1>6, <1>7

LEMMA DispatchEndIInv ==
    ASSUME IInv, DispatchEnd
    PROVE  IInv'
<1> USE DEF DispatchEnd, IInv
<1> DEFINE m == publisher.msg
<1>1. m \in Message
  BY DEF HandlersSound
<1>2. MetaAfterDispatch(m) \in MetaType
  <2> DEFINE ash == IF is_audio(m) /\ (sh(m) \/ meta.audio = NoMessage)
                    THEN m ELSE meta.audio
  <2>1. m.ts \in Int
    BY <1>1, MessageTs
  <2>2. /\ meta.data \in Message \cup {NoMessage}
        /\ meta.video \in Message \cup {NoMessage}
        /\ ash \in Message \cup {NoMessage}
    BY <1>1 DEF TypeOK, MetaType
  <2>3. \A n \in Message \cup {NoMessage} :
           Retimed(n, m.ts) \in Message \cup {NoMessage}
    BY <2>1, RetimedType DEF Retimed
  <2> HIDE DEF m
  <2> QED BY <2>2, <2>3 DEF MetaAfterDispatch, MetaType
<1>3. meta' \in MetaType
  BY <1>2 DEF TypeOK
<1>4. gop_cache' \in GopType
  BY <1>1, GopCacheType, Zenon DEF TypeOK
<1>5. publisher' \in PubType
  BY PubTypes
<1>6. TypeOK'
  BY <1>3, <1>4, <1>5 DEF TypeOK, PubType, idVars, monoVars, historyVars
<1>7. HandlersSound'
  BY DEF HandlersSound, Ready, Failed
<1> QED BY <1>6, <1>7

\* The steps of the publisher's thread.
LEMMA PublisherStepIInv ==
    ASSUME IInv, PublisherNext
    PROVE  IInv'
<1> USE DEF IInv
<1>1. ASSUME NEW p \in Publisher, on_publish(p) PROVE IInv'
  <2> USE <1>1 DEF on_publish
  <2>1. consumer' \in [Consumer -> ConsumerType]
    <3>1. \A c \in Consumer :
             [consumer[c] EXCEPT !.should_update_source_id = TRUE] \in ConsumerType
      <4>1. NewJitter \in JitterType /\ NewQueue \in QueueType
        BY DEF NewJitter, JitterType, NewQueue, QueueType
      <4>2. \A c \in Consumer : consumer[c] \in ConsumerType
        BY DEF TypeOK
      <4> QED BY <4>1, <4>2, ConsumerTypes, Zenon
    <3> QED BY <3>1 DEF TypeOK
  <2>2. can_publish' \in BOOLEAN /\ is_monotonically_increase' \in BOOLEAN
    OBVIOUS
  <2>3. /\ source_id' \in Publisher \cup {-1}
        /\ pre_source_id' \in Publisher \cup {-1}
        /\ mix_queue' \in Seq(Message)
        /\ last_packet_time' \in Int
        /\ sessions' \in Nat
    BY DEF TypeOK
  <2>4. publisher' \in PubType
    BY PubTypes
  <2>5. TypeOK'
    BY <2>1, <2>2, <2>3, <2>4 DEF TypeOK, PubType
  <2>6. HandlersSound'
    BY DEF HandlersSound, Ready, TypeOK
  <2> QED BY <2>5, <2>6
<1>2. ASSUME Receive PROVE IInv'
  <2>1. PICK x \in Inputs, t \in Stamps :
           LET frame == x[1] = "video" /\ x[2] \in {"key", "inter"}
               m == [type |-> x[1], kind |-> x[2], ts |-> t,
                     id |-> IF frame THEN nframes + 1 ELSE x[3]]
           IN  /\ nframes' = IF frame THEN nframes + 1 ELSE nframes
               /\ on_av(m) \/ on_meta_data(m)
    BY <1>2 DEF Receive
  <2> DEFINE frame == x[1] = "video" /\ x[2] \in {"key", "inter"}
             m == [type |-> x[1], kind |-> x[2], ts |-> t,
                   id |-> IF frame THEN nframes + 1 ELSE x[3]]
  <2>2. m \in Message
    <3>1. nframes + 1 \in Nat /\ frame \in BOOLEAN
      BY DEF TypeOK
    <3> HIDE DEF frame
    <3> QED BY <3>1, InputType
  <2>3. sent' \in Nat /\ nframes' \in Nat /\ sessions' \in Nat
    <3>1. sent' = sent + 1 /\ sessions' = sessions
      BY <1>2 DEF Receive
    <3>2. nframes' = nframes + 1 \/ nframes' = nframes
      BY <2>1
    <3> QED BY <3>1, <3>2 DEF TypeOK
  <2>4. on_av(m) \/ on_meta_data(m)
    BY <2>1
  <2> HIDE DEF m
  <2>5. CASE on_av(m)
    BY <2>2, <2>3, <2>5, AvStepIInv
  <2>6. CASE on_meta_data(m)
    BY <2>2, <2>3, <2>6, MetaStepIInv
  <2> QED BY <2>4, <2>5, <2>6
<1>3. ASSUME DispatchOne PROVE IInv'
  BY <1>3, DispatchOneIInv
<1>4. ASSUME DispatchEnd PROVE IInv'
  BY <1>4, DispatchEndIInv
<1>5. ASSUME on_unpublish PROVE IInv'
  <2> USE <1>5 DEF on_unpublish, idVars, monoVars, historyVars
  <2>1. gop_cache' \in GopType
    BY GopClearType DEF TypeOK
  <2>2. can_publish' \in BOOLEAN
    OBVIOUS
  <2>3. source_id' \in Publisher \cup {-1}
    OBVIOUS
  <2>4. publisher' \in PubType
    BY DEF TypeOK, PubType, PublisherStep
  <2>5. TypeOK'
    BY <2>1, <2>2, <2>3, <2>4 DEF TypeOK, PubType
  <2>6. HandlersSound'
    BY DEF HandlersSound, TypeOK
  <2> QED BY <2>5, <2>6
<1> QED BY <1>1, <1>2, <1>3, <1>4, <1>5 DEF PublisherNext

\* The steps of a player's thread.
LEMMA PlayerStepIInv ==
    ASSUME IInv, NEW c \in Consumer, PlayerNext(c)
    PROVE  IInv'
<1> USE DEF IInv, sourceVars, idVars, monoVars, historyVars
<1> DEFINE ThreadType == [Consumer -> [pc : PlayerStep, next : Nat]]
<1>0. ASSUME NEW pc \in PlayerStep, Goto(c, pc)
      PROVE  /\ player' \in ThreadType
             /\ \A d \in Consumer : player'[d].pc = "gop" => player'[d].next >= 1
  BY <1>0 DEF Goto, TypeOK, HandlersSound
<1>1. CASE create_consumer(c)
  <2> USE <1>1 DEF create_consumer
  <2>1. consumer' \in [Consumer -> ConsumerType]
    BY NewConsumerType DEF TypeOK
  <2>2. consumers' \in Seq(Consumer)
    BY DEF TypeOK
  <2>3. /\ player' \in ThreadType
        /\ \A d \in Consumer : player'[d].pc = "gop" => player'[d].next >= 1
    BY <1>0 DEF PlayerStep
  <2>4. TypeOK'
    BY <2>1, <2>2, <2>3 DEF TypeOK
  <2>5. HandlersSound'
    BY <2>3 DEF HandlersSound
  <2> QED BY <2>4, <2>5
<1>9. CASE set_queue_size(c)
  <2> USE <1>9 DEF set_queue_size
  <2>1. consumer' = [consumer EXCEPT ![c] =
            [consumer[c] EXCEPT !.queue = [consumer[c].queue EXCEPT !.queue_size_ms = QueueMs]]]
    BY DEF TypeOK
  <2>2. [consumer[c].queue EXCEPT !.queue_size_ms = QueueMs] \in QueueType
    BY QueueAssumption DEF TypeOK, ConsumerType, QueueType
  <2>3. consumer[c] \in ConsumerType /\ FALSE \in BOOLEAN
    BY DEF TypeOK
  <2>4. \A q \in QueueType : [consumer[c] EXCEPT !.queue = q] \in ConsumerType
    BY <2>3 DEF ConsumerType
  <2>5. consumer' \in [Consumer -> ConsumerType]
    BY <2>1, <2>2, <2>4 DEF TypeOK
  <2>6. /\ player' \in ThreadType
        /\ \A d \in Consumer : player'[d].pc = "gop" => player'[d].next >= 1
    BY <1>0 DEF PlayerStep
  <2>7. TypeOK'
    BY <2>5, <2>6 DEF TypeOK
  <2>8. HandlersSound'
    BY <2>6 DEF HandlersSound
  <2> QED BY <2>7, <2>8
<1>2. CASE DumpMeta(c)
  <2> USE <1>2 DEF DumpMeta
  <2>1. meta' \in MetaType /\ (meta.data \in Message => meta'.data \in Message)
    <3>1. GopStartTime(gop_cache) \in Int
      BY GopStartTimeType DEF TypeOK
    <3>2. \A n \in Message \cup {NoMessage} :
             /\ Retimed(n, GopStartTime(gop_cache)) \in Message \cup {NoMessage}
             /\ n \in Message => Retimed(n, GopStartTime(gop_cache)) \in Message
      BY <3>1, RetimedType, NoMessageIsNone DEF Retimed
    <3> QED BY <3>2 DEF TypeOK, MetaType
  <2>2. consumer' \in [Consumer -> ConsumerType]
    <3>1. CASE meta.data = NoMessage
      BY <3>1 DEF TypeOK
    <3>2. CASE meta.data # NoMessage
      <4>1. meta.data \in Message
        BY <3>2 DEF TypeOK, MetaType
      <4>2. Enqueued(consumer[c], meta'.data) \in ConsumerType
        BY <4>1, <2>1, EnqueuedType DEF TypeOK
      <4> QED BY <3>2, <4>2 DEF TypeOK
    <3> QED BY <3>1, <3>2
  <2>3. /\ player' \in ThreadType
        /\ \A d \in Consumer : player'[d].pc = "gop" => player'[d].next >= 1
    BY <1>0 DEF PlayerStep
  <2>4. TypeOK'
    BY <2>1, <2>2, <2>3 DEF TypeOK
  <2>5. HandlersSound'
    BY <2>1, <2>3 DEF HandlersSound
  <2> QED BY <2>4, <2>5
<1>3. ASSUME NEW from, NEW to \in PlayerStep, NEW m \in Message \cup {NoMessage},
             DumpHeader(c, from, to, m)
      PROVE  IInv'
  <2> USE <1>3 DEF DumpHeader
  <2>1. consumer' \in [Consumer -> ConsumerType]
    <3>1. CASE m = NoMessage
      BY <3>1 DEF TypeOK
    <3>2. CASE m # NoMessage
      <4>1. Enqueued(consumer[c], m) \in ConsumerType
        BY <3>2, EnqueuedType DEF TypeOK
      <4> QED BY <3>2, <4>1 DEF TypeOK
    <3> QED BY <3>1, <3>2
  <2>2. /\ player' \in ThreadType
        /\ \A d \in Consumer : player'[d].pc = "gop" => player'[d].next >= 1
    BY <1>0
  <2>3. TypeOK'
    BY <2>1, <2>2 DEF TypeOK
  <2>4. HandlersSound'
    BY <2>2 DEF HandlersSound
  <2> QED BY <2>3, <2>4
<1>4. CASE DumpAsh(c) \/ DumpVsh(c)
  <2>1. /\ meta.audio \in Message \cup {NoMessage}
        /\ meta.video \in Message \cup {NoMessage}
    BY DEF TypeOK, MetaType
  <2>2. "video" \in PlayerStep /\ "gop" \in PlayerStep
    BY DEF PlayerStep
  <2> QED BY <1>3, <1>4, <2>1, <2>2 DEF DumpAsh, DumpVsh
<1>5. CASE DumpGop(c)
  <2> USE <1>5 DEF DumpGop
  <2>1. CASE player[c].next <= Len(gop_cache.msgs)
    <3>1. gop_cache.msgs[player[c].next] \in Message
      BY <2>1 DEF TypeOK, HandlersSound, GopType, At
    <3>2. Enqueued(consumer[c], gop_cache.msgs[player[c].next]) \in ConsumerType
      BY <3>1, EnqueuedType DEF TypeOK
    <3>3. consumer' \in [Consumer -> ConsumerType]
      BY <2>1, <3>2 DEF TypeOK
    <3>4. /\ player' \in ThreadType
          /\ \A d \in Consumer : player'[d].pc = "gop" => player'[d].next >= 1
      <4>1. \A r \in [pc : PlayerStep, next : Nat] :
               /\ [r EXCEPT !.next = r.next + 1] \in [pc : PlayerStep, next : Nat]
               /\ [r EXCEPT !.next = r.next + 1].next = r.next + 1
        OBVIOUS
      <4>2. player' = [player EXCEPT
                          ![c] = [player[c] EXCEPT !.next = player[c].next + 1]]
        BY <2>1
      <4>3. player \in ThreadType
        BY DEF TypeOK
      <4>4. player' \in ThreadType
        BY <4>1, <4>2, <4>3
      <4>5. \A d \in Consumer : player'[d] = player[d] \/ player'[d].next >= 1
        BY <4>1, <4>2, <4>3
      <4> QED BY <4>4, <4>5 DEF HandlersSound
    <3>5. TypeOK'
      BY <3>3, <3>4 DEF TypeOK
    <3>6. HandlersSound'
      BY <3>4 DEF HandlersSound
    <3> QED BY <3>5, <3>6
  <2>2. CASE ~(player[c].next <= Len(gop_cache.msgs))
    <3>1. /\ player' \in ThreadType
          /\ \A d \in Consumer : player'[d].pc = "gop" => player'[d].next >= 1
      BY <2>2, <1>0 DEF PlayerStep
    <3>2. TypeOK'
      BY <2>2, <3>1 DEF TypeOK
    <3>3. HandlersSound'
      BY <3>1 DEF HandlersSound
    <3> QED BY <3>2, <3>3
  <2> QED BY <2>1, <2>2
<1>6. ASSUME NEW max \in 1..MwMsgs, dump_packets(c, max) PROVE IInv'
  <2> USE <1>6 DEF dump_packets
  <2>1. consumer[c] \in ConsumerType /\ consumer[c].queue \in QueueType
    BY DEF TypeOK, ConsumerType
  <2>2. /\ AfterDump(consumer[c].queue, max) \in QueueType
        /\ Dumped(consumer[c].queue, max) \in Seq(Message)
    <3>1. max \in Nat \ {0}
      BY SourceAssumption
    <3> QED BY <2>1, <3>1, QueueTypes
  <2> DEFINE q == IF consumer[c].paused THEN consumer[c].queue
                  ELSE AfterDump(consumer[c].queue, max)
             k == [consumer[c] EXCEPT !.should_update_source_id = FALSE,
                                      !.queue = q]
  <2>3. q \in QueueType
    BY <2>1, <2>2
  <2>4. k \in ConsumerType
    <3>1. NewJitter \in JitterType
      BY DEF NewJitter, JitterType
    <3>2. \A r \in QueueType : [consumer[c] EXCEPT
             !.should_update_source_id = FALSE, !.queue = r] \in ConsumerType
      BY <2>1, <3>1, ConsumerTypes, Zenon
    <3> QED BY <2>3, <3>2, Zenon
  <2>5. consumer' = [consumer EXCEPT ![c] = k]
    BY DEF TypeOK
  <2>6. consumer' \in [Consumer -> ConsumerType]
    <3> HIDE DEF k
    <3> QED BY <2>4, <2>5 DEF TypeOK
  <2>7. received' \in [Consumer -> Seq(Message)]
    BY <2>2 DEF TypeOK
  <2>8. TypeOK'
    BY <2>6, <2>7 DEF TypeOK
  <2>9. HandlersSound'
    BY DEF HandlersSound
  <2> QED BY <2>8, <2>9
<1>7. ASSUME NEW b \in BOOLEAN, on_play_client_pause(c, b) PROVE IInv'
  <2> USE <1>7 DEF on_play_client_pause
  <2>1. [consumer[c] EXCEPT !.paused = b] \in ConsumerType
    <3>1. consumer[c] \in ConsumerType
      BY DEF TypeOK
    <3>2. NewJitter \in JitterType /\ NewQueue \in QueueType
      BY DEF NewJitter, JitterType, NewQueue, QueueType
    <3> QED BY <3>1, <3>2, ConsumerTypes, Zenon
  <2>2. consumer' = [consumer EXCEPT ![c] = [consumer[c] EXCEPT !.paused = b]]
    BY DEF TypeOK
  <2>3. consumer' \in [Consumer -> ConsumerType]
    BY <2>1, <2>2 DEF TypeOK
  <2>4. TypeOK'
    BY <2>3 DEF TypeOK
  <2>5. HandlersSound'
    BY DEF HandlersSound
  <2> QED BY <2>4, <2>5
<1>8. CASE on_consumer_destroy(c)
  <2> USE <1>8 DEF on_consumer_destroy
  <2>1. consumer' \in [Consumer -> ConsumerType]
    BY NewConsumerType DEF TypeOK
  <2>2. consumers' \in Seq(Consumer)
    BY RemoveFirstType DEF TypeOK
  <2>3. /\ player' \in ThreadType
        /\ \A d \in Consumer : player'[d].pc = "gop" => player'[d].next >= 1
    BY <1>0 DEF PlayerStep
  <2>4. received' \in [Consumer -> Seq(Message)]
    BY DEF TypeOK
  <2>5. TypeOK'
    BY <2>1, <2>2, <2>3, <2>4 DEF TypeOK
  <2>6. HandlersSound'
    BY <2>3 DEF HandlersSound
  <2> QED BY <2>5, <2>6
<1> QED
  BY <1>1, <1>2, <1>4, <1>5, <1>6, <1>7, <1>8, <1>9 DEF PlayerNext

LEMMA StutterIInv ==
    ASSUME IInv, UNCHANGED vars
    PROVE  IInv'
  BY DEF IInv, TypeOK, HandlersSound, vars, sourceVars, idVars, monoVars,
         historyVars

LEMMA NextIInv == IInv /\ [Next]_vars => IInv'
<1> SUFFICES ASSUME IInv, [Next]_vars PROVE IInv'
  OBVIOUS
<1>1. CASE PublisherNext
  BY <1>1, PublisherStepIInv
<1>2. ASSUME NEW c \in Consumer, PlayerNext(c) PROVE IInv'
  BY <1>2, PlayerStepIInv
<1>3. ASSUME NEW v \in GopCacheConf, set_cache(v) PROVE IInv'
  <2> USE <1>3 DEF set_cache, IInv
  <2>1. gop_cache' \in GopType
    <3>1. v \in BOOLEAN
      BY SourceAssumption
    <3> QED BY <3>1, GopSetType, Zenon DEF TypeOK
  <2>2. TypeOK'
    BY <2>1 DEF TypeOK, idVars, monoVars, historyVars
  <2>3. HandlersSound'
    BY DEF HandlersSound
  <2> QED BY <2>2, <2>3
<1>4. CASE UNCHANGED vars
  BY <1>4, StutterIInv
<1> QED BY <1>1, <1>2, <1>3, <1>4 DEF Next

\* The type invariant of the live source: whatever the threads interleave,
\* every message handed to a queue, cached or dumped is a message (no NULL
\* pointer is ever enqueued), and the vectors and counters stay well formed.
THEOREM TypeCorrect == Spec => []TypeOK
<1>1. Init => IInv
  BY InitIInv
<1>2. IInv /\ [Next]_vars => IInv'
  BY NextIInv
<1>3. IInv => TypeOK
  BY DEF IInv
<1> QED BY <1>1, <1>2, <1>3, PTL DEF Spec

-----------------------------------------------------------------------------
(* The shape of the gop cache. *)

\* GopOk but for its last conjunct, in terms of the three fields it is about.
FieldsOk(msgs, v, a) ==
    /\ msgs = <<>> <=> v = 0
    /\ \A i \in 1..Len(msgs) : /\ ~sh(msgs[i])
                               /\ is_video(msgs[i]) => h264(msgs[i])
                               /\ keyframe(msgs[i]) => i = 1
    /\ a <= PureAudioGuess
    /\ IF msgs = <<>> THEN a = 0
       ELSE /\ a < Len(msgs)
            /\ is_video(msgs[1]) /\ is_video(msgs[Len(msgs) - a])
            /\ \A i \in Len(msgs) - a + 1 .. Len(msgs) : is_audio(msgs[i])

\* The three ways in which a message changes a cache that is switched on.
LEMMA FieldsPreserved ==
    ASSUME NEW msgs \in Seq(Message), NEW v \in Nat, NEW a \in Nat,
           FieldsOk(msgs, v, a),
           NEW m \in Message, is_av(m), ~sh(m), is_video(m) => h264(m)
    PROVE  /\ FieldsOk(<<>>, 0, 0)
           /\ is_video(m) => FieldsOk(<<m>>, 1, 0)
           /\ is_video(m) /\ ~keyframe(m) => FieldsOk(Append(msgs, m), v + 1, 0)
           /\ is_audio(m) /\ v > 0 /\ a + 1 <= PureAudioGuess =>
                 FieldsOk(Append(msgs, m), v, a + 1)
<1> DEFINE n == Append(msgs, m)
<1>1. /\ n \in Seq(Message) /\ n # <<>> /\ Len(n) = Len(msgs) + 1
      /\ \A i \in 1..Len(msgs) : n[i] = msgs[i]
      /\ n[Len(msgs) + 1] = m
  OBVIOUS
<1>2. FieldsOk(<<>>, 0, 0)
  BY GopAssumption DEF FieldsOk
<1>3. ASSUME is_video(m) PROVE FieldsOk(<<m>>, 1, 0)
  BY <1>3, GopAssumption DEF FieldsOk
<1> HIDE DEF n
<1>4. ASSUME is_video(m), ~keyframe(m) PROVE FieldsOk(n, v + 1, 0)
  <2>1. \A i \in 1..Len(n) : /\ ~sh(n[i])
                             /\ is_video(n[i]) => h264(n[i])
                             /\ keyframe(n[i]) => i = 1
    BY <1>1, <1>4 DEF FieldsOk
  <2>2. is_video(n[1])
    BY <1>1, <1>4 DEF FieldsOk
  <2> QED BY <1>1, <1>4, <2>1, <2>2, GopAssumption DEF FieldsOk
<1>5. ASSUME is_audio(m), v > 0, a + 1 <= PureAudioGuess
      PROVE  FieldsOk(n, v, a + 1)
  <2>1. msgs # <<>> /\ a < Len(msgs)
    BY <1>5 DEF FieldsOk
  <2>2. ~keyframe(m) /\ ~is_video(m)
    BY <1>5 DEF keyframe, is_audio, is_video
  <2>3. \A i \in 1..Len(n) : /\ ~sh(n[i])
                             /\ is_video(n[i]) => h264(n[i])
                             /\ keyframe(n[i]) => i = 1
    BY <1>1, <2>2 DEF FieldsOk
  <2>4. is_video(n[1])
    BY <1>1, <2>1 DEF FieldsOk
  <2>5. is_video(n[Len(n) - (a + 1)])
    <3>1. Len(n) - (a + 1) = Len(msgs) - a /\ Len(msgs) - a \in 1..Len(msgs)
      BY <1>1, <2>1
    <3> QED BY <1>1, <2>1, <3>1 DEF FieldsOk
  <2>6. \A i \in Len(n) - (a + 1) + 1 .. Len(n) : is_audio(n[i])
    <3>1. ASSUME NEW i \in Len(n) - (a + 1) + 1 .. Len(n) PROVE is_audio(n[i])
      <4>1. CASE i = Len(msgs) + 1
        BY <4>1, <1>1, <1>5
      <4>2. CASE i # Len(msgs) + 1
        <5>1. i \in Len(msgs) - a + 1 .. Len(msgs) /\ i \in 1..Len(msgs)
          BY <4>2, <1>1, <2>1
        <5> QED BY <5>1, <1>1, <2>1 DEF FieldsOk
      <4> QED BY <4>1, <4>2
    <3> QED BY <3>1
  <2> QED BY <1>1, <1>5, <2>1, <2>3, <2>4, <2>5, <2>6 DEF FieldsOk
<1> QED BY <1>2, <1>3, <1>4, <1>5 DEF n

LEMMA GopOkFields ==
    ASSUME NEW g
    PROVE  GopOk(g) <=>
             /\ FieldsOk(g.msgs, g.cached_video_count,
                         g.audio_after_last_video_count)
             /\ g.enabled \/ g.msgs = <<>>
  BY DEF GopOk, FieldsOk

\* The fields of a cache that is changed.
LEMMA GopFields ==
    ASSUME NEW B, NEW g \in GopOver(B), NEW m \in Message
    PROVE  /\ GopClear(g).msgs = <<>>
           /\ GopClear(g).cached_video_count = 0
           /\ GopClear(g).audio_after_last_video_count = 0
           /\ GopClear(g).enabled = g.enabled
           /\ GopPush(g, m).msgs = Append(g.msgs, m)
           /\ GopPush(g, m).cached_video_count = g.cached_video_count
           /\ GopPush(g, m).audio_after_last_video_count
                 = g.audio_after_last_video_count
           /\ GopPush(g, m).enabled = g.enabled
           /\ GopCount(g, m).msgs = g.msgs
           /\ GopCount(g, m).enabled = g.enabled
           /\ is_video(m) =>
                 /\ GopCount(g, m).cached_video_count = g.cached_video_count + 1
                 /\ GopCount(g, m).audio_after_last_video_count = 0
           /\ ~is_video(m) =>
                 GopCount(g, m).cached_video_count = g.cached_video_count
           /\ is_audio(m) /\ ~is_video(m) /\ g.cached_video_count > 0 =>
                 GopCount(g, m).audio_after_last_video_count
                     = g.audio_after_last_video_count + 1
           /\ is_audio(m) /\ ~is_video(m) /\ ~(g.cached_video_count > 0) =>
                 GopCount(g, m) = g
  BY DEF GopOver, GopClear, GopPush, GopCount

LEMMA GopCacheOk ==
    ASSUME NEW g \in GopType, GopOk(g),
           NEW m \in Message, is_av(m), ~sh(m)
    PROVE  GopOk(GopCacheMsg(g, m))
<1>1. GopType = GopOver(BOOLEAN)
  BY DEF GopType, GopOver
<1> DEFINE c == GopCount(g, m)
           k == [GopClear(c) EXCEPT !.cached_video_count = 1]
           M == g.msgs
           v == g.cached_video_count
           a == g.audio_after_last_video_count
<1>2. M \in Seq(Message) /\ v \in Nat /\ a \in Nat
  BY DEF GopType
<1>3. FieldsOk(M, v, a)
  BY GopOkFields, Zenon
<1>4. c \in GopType /\ GopClear(c) \in GopType
  BY GopTypes, Zenon
<1>5. /\ GopClear(c).msgs = <<>> /\ GopClear(c).cached_video_count = 0
      /\ GopClear(c).audio_after_last_video_count = 0
      /\ GopClear(c).enabled = c.enabled
      /\ GopPush(c, m).msgs = Append(c.msgs, m)
      /\ GopPush(c, m).cached_video_count = c.cached_video_count
      /\ GopPush(c, m).audio_after_last_video_count
            = c.audio_after_last_video_count
      /\ GopPush(c, m).enabled = c.enabled
  BY <1>1, <1>4, GopFields, Zenon
<1>6. /\ c.msgs = M /\ c.enabled = g.enabled
      /\ is_video(m) => /\ c.cached_video_count = v + 1
                        /\ c.audio_after_last_video_count = 0
      /\ ~is_video(m) => c.cached_video_count = v
      /\ is_audio(m) /\ ~is_video(m) /\ v > 0 =>
            c.audio_after_last_video_count = a + 1
      /\ is_audio(m) /\ ~is_video(m) /\ ~(v > 0) => c = g
  BY <1>1, GopFields, Zenon
<1>7. is_video(m) \/ (is_audio(m) /\ ~is_video(m))
  BY DEF is_av, is_audio, is_video
<1>8. FieldsOk(<<>>, 0, 0)
  BY GopAssumption DEF FieldsOk
<1>9. keyframe(m) => is_video(m)
  BY DEF keyframe
<1>10. /\ k.msgs = <<>> /\ k.cached_video_count = 1
       /\ k.audio_after_last_video_count = 0 /\ k.enabled = c.enabled
       /\ k \in GopOver(BOOLEAN)
  <2>1. \A C : \A x \in GopOver(C) :
           LET y == [x EXCEPT !.cached_video_count = 1]
           IN  /\ y.msgs = x.msgs /\ y.cached_video_count = 1
               /\ y.audio_after_last_video_count = x.audio_after_last_video_count
               /\ y.enabled = x.enabled
               /\ y \in GopOver(C)
    BY DEF GopOver
  <2> QED BY <1>1, <1>4, <1>5, <2>1, Zenon
<1>11. /\ GopPush(k, m).msgs = Append(<<>>, m)
       /\ GopPush(k, m).cached_video_count = 1
       /\ GopPush(k, m).audio_after_last_video_count = 0
       /\ GopPush(k, m).enabled = c.enabled
  <2>1. /\ GopPush(k, m).msgs = Append(k.msgs, m)
        /\ GopPush(k, m).cached_video_count = k.cached_video_count
        /\ GopPush(k, m).audio_after_last_video_count
              = k.audio_after_last_video_count
        /\ GopPush(k, m).enabled = k.enabled
    BY <1>10, GopFields, Zenon
  <2> QED BY <1>10, <2>1, Zenon
<1>12. Append(<<>>, m) = <<m>>
  OBVIOUS
<1>13. CASE ~g.enabled \/ (is_video(m) /\ ~h264(m))
  BY <1>13, Zenon DEF GopCacheMsg
<1>14. CASE g.enabled /\ (is_video(m) => h264(m))
  <2>1. CASE c.cached_video_count = 0
    <3>1. GopCacheMsg(g, m) = c
      BY <1>14, <2>1, Zenon DEF GopCacheMsg
    <3>2. ~is_video(m) /\ ~(v > 0)
      <4> HIDE DEF c, v
      <4> QED BY <1>2, <1>6, <2>1
    <3> QED BY <1>6, <1>7, <3>1, <3>2, Zenon
  <2>2. CASE /\ c.cached_video_count # 0
             /\ c.audio_after_last_video_count > PureAudioGuess
    <3>1. GopCacheMsg(g, m) = GopClear(c)
      BY <1>14, <2>2, Zenon DEF GopCacheMsg
    <3> QED BY <1>5, <1>8, <3>1, GopOkFields, Zenon
  <2>3. CASE /\ c.cached_video_count # 0
             /\ ~(c.audio_after_last_video_count > PureAudioGuess)
             /\ keyframe(m)
    <3>1. GopCacheMsg(g, m) = GopPush(k, m)
      BY <1>14, <2>3, Zenon DEF GopCacheMsg
    <3>2. FieldsOk(<<m>>, 1, 0)
      BY <1>2, <1>3, <1>9, <1>14, <2>3, FieldsPreserved, Zenon
    <3>3. GopPush(k, m).enabled
      BY <1>6, <1>11, <1>14, Zenon
    <3> QED BY <1>11, <1>12, <3>1, <3>2, <3>3, GopOkFields, Zenon
  <2>4. CASE /\ c.cached_video_count # 0
             /\ ~(c.audio_after_last_video_count > PureAudioGuess)
             /\ ~keyframe(m)
    <3>1. GopCacheMsg(g, m) = GopPush(c, m)
      BY <1>14, <2>4, Zenon DEF GopCacheMsg
    <3>2. GopPush(c, m).enabled
      BY <1>5, <1>6, <1>14, Zenon
    <3>3. CASE is_video(m)
      <4>1. FieldsOk(Append(M, m), v + 1, 0)
        BY <1>2, <1>3, <1>14, <2>4, <3>3, FieldsPreserved, Zenon
      <4> QED BY <1>5, <1>6, <3>1, <3>2, <3>3, <4>1, GopOkFields, Zenon
    <3>4. CASE is_audio(m) /\ ~is_video(m)
      <4>1. v > 0 /\ c.audio_after_last_video_count = a + 1
            /\ a + 1 <= PureAudioGuess
        <5> HIDE DEF c, v, a
        <5> QED BY <1>2, <1>6, <2>4, <3>4, GopAssumption
      <4>2. FieldsOk(Append(M, m), v, a + 1)
        BY <1>2, <1>3, <1>14, <3>4, <4>1, FieldsPreserved, Zenon
      <4> QED BY <1>5, <1>6, <3>1, <3>2, <3>4, <4>1, <4>2, GopOkFields, Zenon
    <3> QED BY <1>7, <3>3, <3>4
  <2> QED BY <2>1, <2>2, <2>3, <2>4, Zenon
<1> QED BY <1>13, <1>14, Zenon

LEMMA NewGopOk == GopOk(NewGop)
<1>1. FieldsOk(<<>>, 0, 0)
  BY GopAssumption DEF FieldsOk
<1>2. /\ NewGop.msgs = <<>> /\ NewGop.cached_video_count = 0
      /\ NewGop.audio_after_last_video_count = 0
  BY DEF NewGop
<1> QED BY <1>1, <1>2, GopOkFields, Zenon

\* An emptied cache has the shape, switched on or off.
LEMMA GopClearOk == \A g \in GopType : GopOk(GopClear(g))
<1> SUFFICES ASSUME NEW g \in GopType PROVE GopOk(GopClear(g))
  OBVIOUS
<1>1. FieldsOk(<<>>, 0, 0)
  BY GopAssumption DEF FieldsOk
<1>2. /\ GopClear(g).msgs = <<>> /\ GopClear(g).cached_video_count = 0
      /\ GopClear(g).audio_after_last_video_count = 0
  BY DEF GopClear, GopType
<1> QED BY <1>1, <1>2, GopOkFields, Zenon

LEMMA GopSetOk ==
    ASSUME NEW g \in GopType, GopOk(g), NEW v \in BOOLEAN
    PROVE  GopOk(GopSet(g, v))
<1> DEFINE Alike(x, y) ==
             /\ y.msgs = x.msgs
             /\ y.cached_video_count = x.cached_video_count
             /\ y.audio_after_last_video_count = x.audio_after_last_video_count
<1>0. \A B : \A x \in GopOver(B), b \in B :
        /\ [x EXCEPT !.enabled = b] \in GopOver(B)
        /\ [x EXCEPT !.enabled = b].enabled = b
        /\ Alike(x, [x EXCEPT !.enabled = b])
  BY DEF GopOver
<1>1. GopType = GopOver(BOOLEAN)
  BY DEF GopType, GopOver
<1>2. TRUE \in BOOLEAN /\ FALSE \in BOOLEAN
  OBVIOUS
<1>3. CASE v
  <2> DEFINE y == [g EXCEPT !.enabled = TRUE]
  <2>1. GopSet(g, v) = y
    BY <1>3, Zenon DEF GopSet
  <2>2. /\ y.enabled = TRUE /\ y.msgs = g.msgs
        /\ y.cached_video_count = g.cached_video_count
        /\ y.audio_after_last_video_count = g.audio_after_last_video_count
    <3>1. g \in GopOver(BOOLEAN)
      BY <1>1, Zenon
    <3>2. y.enabled = TRUE /\ Alike(g, y)
      <4> HIDE DEF Alike
      <4> QED BY <1>0, <1>2, <3>1, Zenon
    <3> QED BY <3>2, Zenon
  <2>3. FieldsOk(g.msgs, g.cached_video_count, g.audio_after_last_video_count)
    BY GopOkFields, Zenon
  <2> QED BY <2>1, <2>2, <2>3, GopOkFields, Zenon
<1>4. CASE ~v
  <2>1. [g EXCEPT !.enabled = FALSE] \in GopType
    BY <1>0, <1>1, <1>2, Zenon
  <2> QED BY <1>4, <2>1, GopClearOk, Zenon DEF GopSet
<1> QED BY <1>3, <1>4

\* Only the tail of a handler, on_unpublish and set_cache touch the cache.
LEMMA NextGopShape == IInv /\ GopShape /\ [Next]_vars => GopShape'
<1> SUFFICES ASSUME IInv, GopShape, [Next]_vars PROVE GopShape'
  OBVIOUS
<1>0. gop_cache \in GopType /\ GopOk(gop_cache)
  BY DEF IInv, TypeOK, GopShape
<1>1. ASSUME gop_cache' = gop_cache PROVE GopShape'
  BY <1>0, <1>1, Zenon DEF GopShape
<1>2. CASE PublisherNext
  <2>1. ASSUME NEW p \in Publisher, on_publish(p) PROVE GopShape'
    BY <1>1, <2>1, Zenon DEF on_publish
  <2>2. CASE Receive
    BY <1>1, <2>2 DEF Receive, on_av, on_meta_data
  <2>3. CASE DispatchOne
    BY <1>1, <2>3 DEF DispatchOne, sourceVars
  <2>4. CASE DispatchEnd
    <3> DEFINE m == publisher.msg
    <3>1. m \in Message
      BY <2>4 DEF DispatchEnd, IInv, HandlersSound
    <3>2. CASE is_av(m) /\ ~sh(m)
      <4>1. gop_cache' = GopCacheMsg(gop_cache, m)
        BY <2>4, <3>2, Zenon DEF DispatchEnd
      <4>2. GopOk(GopCacheMsg(gop_cache, m))
        BY <1>0, <3>1, <3>2, GopCacheOk, Zenon
      <4> QED BY <4>1, <4>2, Zenon DEF GopShape
    <3>3. CASE ~(is_av(m) /\ ~sh(m))
      <4>1. gop_cache' = gop_cache
        BY <2>4, <3>3, Zenon DEF DispatchEnd
      <4> QED BY <1>1, <4>1
    <3> QED BY <3>2, <3>3
  <2>5. CASE on_unpublish
    <3>1. gop_cache' = GopClear(gop_cache)
      BY <2>5 DEF on_unpublish
    <3> QED BY <1>0, <3>1, GopClearOk, Zenon DEF GopShape
  <2> QED BY <1>2, <2>1, <2>2, <2>3, <2>4, <2>5 DEF PublisherNext
<1>3. ASSUME NEW c \in Consumer, PlayerNext(c) PROVE GopShape'
  <2>1. gop_cache' = gop_cache
    BY <1>3 DEF PlayerNext, create_consumer, set_queue_size, DumpMeta, DumpAsh, DumpVsh,
                DumpHeader, DumpGop, dump_packets, on_play_client_pause,
                on_consumer_destroy, sourceVars
  <2> QED BY <1>1, <2>1
<1>4. ASSUME NEW v \in GopCacheConf, set_cache(v) PROVE GopShape'
  <2>1. gop_cache' = GopSet(gop_cache, v) /\ v \in BOOLEAN
    BY <1>4, SourceAssumption DEF set_cache
  <2> QED BY <1>0, <2>1, GopSetOk, Zenon DEF GopShape
<1>5. CASE UNCHANGED vars
  BY <1>1, <1>5 DEF vars, sourceVars
<1> QED BY <1>2, <1>3, <1>4, <1>5 DEF Next

\* Under every interleaving of the threads, every configuration change and
\* every number of publications, the cached gop is one a decoder can start
\* from: it begins with a video frame, a keyframe is only ever its first
\* message, it holds no sequence header, and its two counters describe its contents (SrsGopCache::cache, clear, set).
THEOREM GopShapeCorrect == Spec => []GopShape
<1>1. Init => IInv /\ GopShape
  <2>1. Init => GopShape
    BY NewGopOk DEF Init, GopShape
  <2> QED BY <2>1, InitIInv
<1>2. IInv /\ GopShape /\ [Next]_vars => IInv' /\ GopShape'
  BY NextIInv, NextGopShape
<1> QED BY <1>1, <1>2, PTL DEF Spec

-----------------------------------------------------------------------------
\* What arrives is handled by on_av or by on_meta_data.
LEMMA ReceivedMessage ==
    ASSUME IInv, Receive
    PROVE  \E m \in Message : on_av(m) \/ on_meta_data(m)
<1>1. PICK x \in Inputs, t \in Stamps :
        LET frame == x[1] = "video" /\ x[2] \in {"key", "inter"}
            m == [type |-> x[1], kind |-> x[2], ts |-> t,
                  id |-> IF frame THEN nframes + 1 ELSE x[3]]
        IN  on_av(m) \/ on_meta_data(m)
  BY DEF Receive
<1> DEFINE frame == x[1] = "video" /\ x[2] \in {"key", "inter"}
           m == [type |-> x[1], kind |-> x[2], ts |-> t,
                 id |-> IF frame THEN nframes + 1 ELSE x[3]]
<1>2. m \in Message
  <2>1. nframes + 1 \in Nat /\ frame \in BOOLEAN
    BY DEF IInv, TypeOK
  <2> HIDE DEF frame
  <2> QED BY <2>1, InputType
<1> QED BY <1>1, <1>2

-----------------------------------------------------------------------------
(* The mix queue. *)

Sorted(q) == \A i, j \in 1..Len(q) : i < j => q[i].ts <= q[j].ts

\* In a sorted queue the messages that are not later than a time are a prefix.
LEMMA EarlierIsPrefix ==
    ASSUME NEW q \in Seq(AvMessage), Sorted(q), NEW t \in Int
    PROVE  \E k \in 0..Len(q) :
              /\ Cardinality({i \in DOMAIN q : q[i].ts <= t}) = k
              /\ \A i \in 1..Len(q) : q[i].ts <= t <=> i <= k
<1> DEFINE E == {i \in DOMAIN q : q[i].ts <= t}
<1>1. /\ Len(q) \in Nat /\ DOMAIN q = 1..Len(q) /\ E \in SUBSET (1..Len(q))
      /\ \A i \in 1..Len(q) : q[i].ts \in Int
  BY MessageTs DEF AvMessage
<1>2. CASE E = {}
  <2>1. Cardinality(E) = 0
    BY <1>2, FS_EmptySet
  <2>2. 0 \in 0..Len(q) /\ \A i \in 1..Len(q) : q[i].ts <= t <=> i <= 0
    BY <1>1, <1>2
  <2> QED BY <2>1, <2>2, Zenon
<1>3. CASE E # {}
  <2> DEFINE k == Max(E)
  <2>1. k \in E /\ \A i \in E : i <= k
    <3> HIDE DEF E
    <3> QED BY <1>1, <1>3, IndexBounds
  <2> HIDE DEF k
  <2>2. k \in 1..Len(q) /\ q[k].ts <= t
    BY <1>1, <2>1
  <2>3. ASSUME NEW i \in 1..Len(q) PROVE q[i].ts <= t <=> i <= k
    <3>1. CASE i < k
      BY <1>1, <2>2, <3>1 DEF Sorted
    <3>2. CASE i = k
      BY <2>2, <3>2
    <3>3. CASE i > k
      BY <1>1, <2>1, <2>2, <3>3
    <3> QED BY <2>2, <3>1, <3>2, <3>3
  <2>4. E = 1..k
    BY <1>1, <2>2, <2>3
  <2>5. Cardinality(E) = k
    <3> HIDE DEF E
    <3> QED BY <2>2, <2>4, FS_Interval
  <2>6. k \in 0..Len(q)
    BY <2>2
  <2> QED BY <2>3, <2>5, <2>6, Zenon
<1> QED BY <1>2, <1>3

\* The multimap stays sorted: a message goes behind all that are not later.
LEMMA MixPushSorted ==
    ASSUME NEW q \in Seq(AvMessage), Sorted(q), NEW m \in AvMessage
    PROVE  Sorted(MixPush(q, m))
<1>1. /\ m.ts \in Int /\ Len(q) \in Nat
      /\ \A i \in 1..Len(q) : q[i].ts \in Int
  BY MessageTs DEF AvMessage
<1>2. PICK k \in 0..Len(q) :
         /\ Cardinality({i \in DOMAIN q : q[i].ts <= m.ts}) = k
         /\ \A i \in 1..Len(q) : q[i].ts <= m.ts <=> i <= k
  BY <1>1, EarlierIsPrefix
<1> DEFINE p == MixPush(q, m)
<1>3. p = InsertAt(q, 1 + k, m)
  BY <1>2 DEF MixPush
<1>4. 1 + k \in 1..Len(q) + 1
  BY <1>1, <1>2
<1>5. /\ Len(p) = Len(q) + 1
      /\ \A i \in 1..Len(q) + 1 :
            p[i] = IF i < 1 + k THEN q[i] ELSE IF i = 1 + k THEN m ELSE q[i - 1]
  BY <1>3, <1>4, InsertAtType
<1> HIDE DEF p
<1>6. ASSUME NEW i \in 1..Len(p), NEW j \in 1..Len(p), i < j
      PROVE  p[i].ts <= p[j].ts
  <2>1. i \in 1..Len(q) + 1 /\ j \in 1..Len(q) + 1
    BY <1>5
  <2>2. CASE j < 1 + k
    <3>1. i \in 1..Len(q) /\ j \in 1..Len(q)
      BY <1>1, <1>4, <1>6, <2>1, <2>2
    <3>2. p[i] = q[i] /\ p[j] = q[j]
      BY <1>4, <1>5, <1>6, <2>1, <2>2
    <3> QED BY <1>6, <3>1, <3>2 DEF Sorted
  <2>3. CASE j = 1 + k
    <3>1. i \in 1..Len(q) /\ i <= k
      BY <1>1, <1>4, <1>6, <2>1, <2>3
    <3> QED BY <1>2, <1>5, <2>1, <2>3, <3>1
  <2>4. CASE j > 1 + k /\ i < 1 + k
    <3>1. i \in 1..Len(q) /\ j - 1 \in 1..Len(q) /\ i < j - 1
      BY <1>1, <1>4, <2>1, <2>4
    <3>2. p[i] = q[i] /\ p[j] = q[j - 1]
      BY <1>4, <1>5, <2>1, <2>4
    <3> QED BY <3>1, <3>2 DEF Sorted
  <2>5. CASE j > 1 + k /\ i = 1 + k
    <3>1. j - 1 \in 1..Len(q) /\ ~(j - 1 <= k)
      BY <1>1, <1>4, <2>1, <2>5
    <3>2. p[i] = m /\ p[j] = q[j - 1]
      BY <1>4, <1>5, <2>1, <2>5
    <3> QED BY <1>1, <1>2, <3>1, <3>2
  <2>6. CASE j > 1 + k /\ i > 1 + k
    <3>1. i - 1 \in 1..Len(q) /\ j - 1 \in 1..Len(q) /\ i - 1 < j - 1
      BY <1>1, <1>4, <1>6, <2>1, <2>6
    <3>2. p[i] = q[i - 1] /\ p[j] = q[j - 1]
      BY <1>4, <1>5, <2>1, <2>6
    <3> QED BY <3>1, <3>2 DEF Sorted
  <2> QED BY <1>4, <2>1, <2>2, <2>3, <2>4, <2>5, <2>6
<1> QED BY <1>6 DEF Sorted, p

\* A message is a video or it is counted with the audio.
LEMMA MixCount ==
    ASSUME NEW q \in Seq(AvMessage)
    PROVE  /\ nb_videos(q) \in Nat /\ nb_audios(q) \in Nat
           /\ nb_videos(q) + nb_audios(q) = Len(q)
<1> DEFINE V == {i \in DOMAIN q : is_video(q[i])}
           A == {i \in DOMAIN q : ~is_video(q[i])}
<1>1. Len(q) \in Nat /\ DOMAIN q = 1..Len(q)
  OBVIOUS
<1>2. V \cup A = 1..Len(q) /\ V \cap A = {} /\ V \in SUBSET (1..Len(q)) /\ A \in SUBSET (1..Len(q))
  BY <1>1
<1>3. IsFiniteSet(1..Len(q)) /\ Cardinality(1..Len(q)) = Len(q)
  BY <1>1, FS_Interval
<1> HIDE DEF V, A
<1>4. IsFiniteSet(V) /\ IsFiniteSet(A)
  BY <1>2, <1>3, FS_Subset
<1>5. Cardinality(V \cup A) = Cardinality(V) + Cardinality(A) - Cardinality(V \cap A)
  BY <1>4, FS_Union
<1>6. Cardinality(V \cap A) = 0
  BY <1>2, FS_EmptySet
<1>7. Cardinality(V) \in Nat /\ Cardinality(A) \in Nat
  BY <1>4, FS_CardinalityType
<1>8. nb_videos(q) = Cardinality(V) /\ nb_audios(q) = Cardinality(A)
  BY Zenon DEF nb_videos, nb_audios, V, A
<1>9. Cardinality(V \cup A) = Len(q)
  BY <1>2, <1>3
<1>10. Cardinality(V) + Cardinality(A) = Len(q)
  BY <1>5, <1>6, <1>7, <1>9
<1> QED BY <1>7, <1>8, <1>10

\* What a push followed by a pop leaves, and what it fetches.
LEMMA MixStep ==
    ASSUME NEW q \in Seq(AvMessage), Sorted(q), Len(q) < MixPureAv,
           NEW m \in AvMessage
    PROVE  LET p == MixPush(q, m)
           IN  /\ Sorted(MixAfterPop(p)) /\ Len(MixAfterPop(p)) < MixPureAv
               /\ MixPopped(p) # NoMessage =>
                     \A i \in 1..Len(MixAfterPop(p)) :
                        MixPopped(p).ts <= MixAfterPop(p)[i].ts
<1> DEFINE p == MixPush(q, m)
<1>1. p \in Seq(AvMessage) /\ Len(p) = Len(q) + 1 /\ Sorted(p)
  BY MixTypes, MixPushSorted
<1>2. Len(q) \in Nat /\ MixPureAv \in Nat
  BY MixAssumption
<1> HIDE DEF p
<1>3. CASE mix_ok(p)
  <2>1. MixAfterPop(p) = Tail(p) /\ MixPopped(p) = p[1]
    BY <1>3 DEF MixAfterPop, MixPopped
  <2>2. /\ Len(Tail(p)) = Len(q)
        /\ \A i \in 1..Len(q) : Tail(p)[i] = p[i + 1]
    BY <1>1, <1>2
  <2>3. Sorted(Tail(p))
    BY <1>1, <1>2, <2>2 DEF Sorted
  <2>4. \A i \in 1..Len(q) : p[1].ts <= Tail(p)[i].ts
    BY <1>1, <1>2, <2>2 DEF Sorted
  <2> QED BY <2>1, <2>2, <2>3, <2>4 DEF p
<1>4. CASE ~mix_ok(p)
  <2>1. MixAfterPop(p) = p /\ MixPopped(p) = NoMessage
    BY <1>4 DEF MixAfterPop, MixPopped
  <2>2. /\ nb_videos(p) \in Nat /\ nb_audios(p) \in Nat
        /\ nb_videos(p) + nb_audios(p) = Len(p)
    BY <1>1, MixCount
  <2>3. Len(p) < MixPureAv
    BY <1>2, <1>4, <2>2 DEF mix_ok
  <2> QED BY <1>1, <2>1, <2>3 DEF p
<1> QED BY <1>3, <1>4

MixInv == Sorted(mix_queue) /\ MixOrderly

\* Only on_publish and the arrival of a message touch the mix queue, both
\* between handlers.
LEMMA NextMixInv == IInv /\ MixInv /\ [Next]_vars => MixInv'
<1> SUFFICES ASSUME IInv, MixInv, [Next]_vars PROVE MixInv'
  OBVIOUS
<1>0. /\ mix_queue \in Seq(AvMessage) /\ Sorted(mix_queue)
      /\ Len(mix_queue) < MixPureAv
  BY DEF IInv, HandlersSound, MixInv, MixOrderly, MixQueueBounded
<1>1. ASSUME mix_queue' = mix_queue, publisher'.msg = publisher.msg,
             Publishing' => Publishing
      PROVE  MixInv'
  BY <1>1 DEF MixInv, MixOrderly, MixedInOrder, MixQueueBounded, Sorted
<1>2. ASSUME mix_queue' = mix_queue, ~Publishing' \/ ~is_av(publisher'.msg)
      PROVE  MixInv'
  BY <1>2 DEF MixInv, MixOrderly, MixedInOrder, MixQueueBounded, Sorted
<1>3. publisher \in PubType
  BY DEF IInv, TypeOK, PubType
<1>4. CASE PublisherNext
  <2>1. ASSUME NEW p \in Publisher, on_publish(p) PROVE MixInv'
    <3>1. mix_queue' = <<>> /\ publisher'.pc = "ready"
      BY <2>1 DEF on_publish, Ready
    <3> QED BY <3>1, MixAssumption DEF MixInv, MixOrderly, MixedInOrder,
               MixQueueBounded, Sorted, Publishing
  <2>2. ASSUME NEW m \in Message, on_av(m) PROVE MixInv'
    <3>1. m \in AvMessage
      BY <2>2 DEF on_av, AvMessage
    <3>2. publisher.pc = "ready"
      BY <2>2 DEF on_av
    <3>3. CASE is_video(m) /\ ~acceptable(m)
      BY <1>1, <2>2, <3>3 DEF on_av, Publishing
    <3>4. CASE ~(is_video(m) /\ ~acceptable(m)) /\ ~MixCorrect
      <4>1. mix_queue' = mix_queue
        BY <2>2, <3>4 DEF on_av
      <4> QED BY <3>4, <4>1 DEF MixInv, MixOrderly, MixedInOrder, MixQueueBounded, Sorted
    <3>5. CASE ~(is_video(m) /\ ~acceptable(m)) /\ MixCorrect
      <4> DEFINE q == MixPush(mix_queue, m)
      <4>1. /\ mix_queue' = MixAfterPop(q)
            /\ IF MixPopped(q) = NoMessage THEN UNCHANGED <<meta, publisher>>
               ELSE BeginImp(MixPopped(q))
        BY <2>2, <3>5 DEF on_av
      <4>2. /\ Sorted(MixAfterPop(q)) /\ Len(MixAfterPop(q)) < MixPureAv
            /\ MixPopped(q) # NoMessage =>
                  \A i \in 1..Len(MixAfterPop(q)) :
                      MixPopped(q).ts <= MixAfterPop(q)[i].ts
            /\ MixAfterPop(q) \in Seq(AvMessage)
        BY <1>0, <3>1, MixStep, MixTypes
      <4> HIDE DEF q
      <4>3. DOMAIN mix_queue' = 1..Len(mix_queue')
        BY <4>1, <4>2
      <4>4. CASE MixPopped(q) = NoMessage
        <5>1. ~Publishing'
          BY <3>2, <4>1, <4>4 DEF Publishing
        <5> QED BY <4>1, <4>2, <5>1 DEF MixInv, MixOrderly, MixedInOrder,
                   MixQueueBounded, Sorted
      <4>5. CASE MixPopped(q) # NoMessage
        <5>1. Publishing' => publisher'.msg = MixPopped(q)
          BY <4>1, <4>5 DEF BeginImp, Dispatch, SkipDispatch, Failed, Publishing
        <5>2. MixedInOrder'
          BY <4>1, <4>2, <4>3, <4>5, <5>1 DEF MixedInOrder
        <5> QED BY <4>1, <4>2, <5>2 DEF MixInv, MixOrderly, MixQueueBounded, Sorted
      <4> QED BY <4>4, <4>5
    <3> QED BY <3>3, <3>4, <3>5
  <2>3. ASSUME NEW m \in Message, on_meta_data(m) PROVE MixInv'
    <3>1. ~is_av(m)
      BY <2>3 DEF on_meta_data, is_av
    <3> QED BY <1>2, <2>3, <3>1 DEF on_meta_data, Ready, Dispatch, Publishing
  <2>4. CASE Receive
    BY <2>2, <2>3, <2>4, ReceivedMessage
  <2>5. CASE DispatchOne
    BY <1>1, <1>3, <2>5 DEF DispatchOne, sourceVars, Publishing, PubType
  <2>6. CASE DispatchEnd
    BY <1>2, <2>6 DEF DispatchEnd, Ready, Failed, Publishing
  <2>7. CASE on_unpublish
    BY <1>2, <1>3, <2>7 DEF on_unpublish, Publishing, PubType
  <2> QED BY <1>4, <2>1, <2>4, <2>5, <2>6, <2>7 DEF PublisherNext
<1>5. ASSUME NEW c \in Consumer, PlayerNext(c) PROVE MixInv'
  <2>1. mix_queue' = mix_queue /\ publisher' = publisher
    BY <1>5 DEF PlayerNext, create_consumer, set_queue_size, DumpMeta, DumpAsh, DumpVsh,
                DumpHeader, DumpGop, dump_packets, on_play_client_pause,
                on_consumer_destroy, sourceVars
  <2> QED BY <1>1, <2>1 DEF Publishing
<1>6. ASSUME NEW v \in GopCacheConf, set_cache(v) PROVE MixInv'
  BY <1>1, <1>6 DEF set_cache, Publishing
<1>7. CASE UNCHANGED vars
  BY <1>1, <1>7 DEF vars, sourceVars, Publishing
<1> QED BY <1>4, <1>5, <1>6, <1>7 DEF Next

\* With mix_correct, whatever the threads interleave and for every threshold
\* SRS_MIX_CORRECT_PURE_AV, no message is dispatched before an earlier one
\* that waits, and the queue never holds as many messages as the threshold
\* (SrsMixQueue::push and pop in on_audio and on_video).
THEOREM MixOrderlyProved == Spec => []MixOrderly
<1>1. Init => MixInv
  BY MixAssumption DEF Init, MixInv, Sorted, MixOrderly, MixedInOrder,
                       MixQueueBounded, Publishing
<1>2. IInv /\ MixInv /\ [Next]_vars => IInv' /\ MixInv'
  BY NextIInv, NextMixInv
<1>3. MixInv => MixOrderly
  BY DEF MixInv
<1> QED BY <1>1, <1>2, <1>3, InitIInv, PTL DEF Spec

-----------------------------------------------------------------------------
(* What is cached is what it is taken for. *)

\* The cached headers are of their medium, the cached metadata is neither audio
\* nor video, and the gop is audio and video.
MediaInv ==
    /\ ~is_av(meta.data)
    /\ meta.video # NoMessage => is_video(meta.video)
    /\ meta.audio # NoMessage => is_audio(meta.audio)
    /\ gop_cache.msgs \in Seq(AvMessage)

\* A message of the gop cache is one it held or the one it was given.
LEMMA GopMsgs ==
    ASSUME NEW g \in GopType, NEW m \in Message
    PROVE  GopCacheMsg(g, m).msgs \in {g.msgs, <<>>, <<m>>, Append(g.msgs, m)}
<1> DEFINE c == GopCount(g, m)
           k == [GopClear(c) EXCEPT !.cached_video_count = 1]
<1>1. GopType = GopOver(BOOLEAN)
  BY DEF GopType, GopOver
<1>2. c \in GopOver(BOOLEAN) /\ GopClear(c) \in GopOver(BOOLEAN) /\ k \in GopOver(BOOLEAN)
  BY <1>1, GopTypes, Zenon
<1>3. c.msgs = g.msgs /\ GopClear(c).msgs = <<>> /\ GopPush(c, m).msgs = Append(c.msgs, m)
  BY <1>1, <1>2, GopFields, Zenon
<1>4. GopPush(k, m).msgs = <<m>>
  <2>1. \A C : \A x \in GopOver(C) : [x EXCEPT !.cached_video_count = 1].msgs = x.msgs
    BY DEF GopOver
  <2>2. k.msgs = <<>>
    BY <1>2, <1>3, <2>1, Zenon
  <2>3. GopPush(k, m).msgs = Append(k.msgs, m)
    BY <1>2, GopFields, Zenon
  <2>4. Append(<<>>, m) = <<m>>
    OBVIOUS
  <2> QED BY <2>2, <2>3, <2>4, Zenon
<1>5. GopCacheMsg(g, m) \in {g, c, GopClear(c), GopPush(k, m), GopPush(c, m)}
  BY Zenon DEF GopCacheMsg
<1> HIDE DEF c, k
<1> QED BY <1>3, <1>4, <1>5, Zenon

LEMMA RetimedKeeps ==
    ASSUME NEW m \in Message \cup {NoMessage}, NEW t \in Int
    PROVE  /\ Retimed(m, t) = NoMessage <=> m = NoMessage
           /\ Retimed(m, t).type = m.type /\ Retimed(m, t).kind = m.kind
           /\ Retimed(m, t).id = m.id
           /\ m # NoMessage => Retimed(m, t).ts = t
           /\ SamePayload(Retimed(m, t), m)
<1>1. CASE m = NoMessage
  BY <1>1 DEF Retimed, SamePayload
<1>2. CASE m # NoMessage
  <2>1. m \in Message /\ Retimed(m, t) = [m EXCEPT !.ts = t]
    BY <1>2 DEF Retimed
  <2>2. Retimed(m, t) \in Message
    BY <2>1, RetimedType
  <2>3. /\ [m EXCEPT !.ts = t].type = m.type /\ [m EXCEPT !.ts = t].kind = m.kind
        /\ [m EXCEPT !.ts = t].id = m.id /\ [m EXCEPT !.ts = t].ts = t
    BY <2>1 DEF Message
  <2> QED BY <1>2, <2>1, <2>2, <2>3, NoMessageIsNone DEF SamePayload
<1> QED BY <1>1, <1>2

LEMMA InitMediaInv == Init => MediaInv
  BY DEF Init, MediaInv, NewGop, NoMessage, is_av

LEMMA NextMediaInv == IInv /\ MediaInv /\ [Next]_vars => MediaInv'
<1> SUFFICES ASSUME IInv, MediaInv, [Next]_vars PROVE MediaInv'
  OBVIOUS
<1>0. /\ gop_cache \in GopType /\ meta \in MetaType /\ mix_queue \in Seq(AvMessage)
      /\ meta.data \in Message \cup {NoMessage} /\ meta.video \in Message \cup {NoMessage}
      /\ meta.audio \in Message \cup {NoMessage}
  BY DEF IInv, TypeOK, MetaType, HandlersSound
<1>1. ASSUME UNCHANGED <<meta, gop_cache>> PROVE MediaInv'
  BY <1>1 DEF MediaInv
<1>2. ASSUME NEW m \in Message, on_av(m) PROVE MediaInv'
  <2>1. ASSUME NEW n \in Message, BeginImp(n)
        PROVE  /\ meta'.data = meta.data /\ meta'.audio = meta.audio
               /\ meta'.video = meta.video \/ (is_video(n) /\ meta'.video = n)
    BY <1>0, <2>1 DEF BeginImp, MetaType
  <2>2. gop_cache' = gop_cache
    BY <1>2 DEF on_av
  <2>3. meta' = meta \/ \E n \in Message : BeginImp(n)
    <3>1. CASE is_video(m) /\ ~acceptable(m)
      BY <1>2, <3>1 DEF on_av
    <3>2. CASE ~(is_video(m) /\ ~acceptable(m)) /\ ~MixCorrect
      BY <1>2, <3>2 DEF on_av
    <3>3. CASE ~(is_video(m) /\ ~acceptable(m)) /\ MixCorrect
      <4> DEFINE q == MixPush(mix_queue, m)
      <4>1. IF MixPopped(q) = NoMessage THEN UNCHANGED <<meta, publisher>> ELSE BeginImp(MixPopped(q))
        BY <1>2, <3>3 DEF on_av
      <4>2. m \in AvMessage
        BY <1>2 DEF on_av, AvMessage
      <4>3. MixPopped(q) \in AvMessage \cup {NoMessage}
        BY <1>0, <4>2, MixTypes
      <4> HIDE DEF q
      <4> QED BY <4>1, <4>3 DEF AvMessage
    <3> QED BY <3>1, <3>2, <3>3
  <2>4. /\ meta'.data = meta.data /\ meta'.audio = meta.audio
        /\ meta'.video = meta.video \/ is_video(meta'.video)
    BY <2>1, <2>3
  <2> QED BY <2>2, <2>4 DEF MediaInv
<1>3. ASSUME NEW m \in Message, on_meta_data(m) PROVE MediaInv'
  <2>1. /\ meta'.data = m /\ meta'.video = meta.video /\ meta'.audio = meta.audio
        /\ gop_cache' = gop_cache
    BY <1>0, <1>3 DEF on_meta_data, MetaType
  <2>2. ~is_av(m)
    BY <1>3 DEF on_meta_data, is_av
  <2> QED BY <2>1, <2>2 DEF MediaInv
<1>4. CASE PublisherNext
  <2>1. ASSUME NEW p \in Publisher, on_publish(p) PROVE MediaInv'
    BY <1>1, <2>1 DEF on_publish
  <2>2. CASE Receive
    BY <1>2, <1>3, <2>2, ReceivedMessage
  <2>3. CASE DispatchOne
    BY <1>1, <2>3 DEF DispatchOne, sourceVars
  <2>4. CASE DispatchEnd
    <3> DEFINE m == publisher.msg
    <3>1. m \in Message /\ m.ts \in Int
      BY <2>4, MessageTs DEF DispatchEnd, IInv, HandlersSound
    <3>2. gop_cache'.msgs \in Seq(AvMessage)
      <4>1. CASE is_av(m) /\ ~sh(m)
        <5>1. gop_cache' = GopCacheMsg(gop_cache, m)
          BY <2>4, <4>1, Zenon DEF DispatchEnd
        <5>2. gop_cache'.msgs \in {gop_cache.msgs, <<>>, <<m>>, Append(gop_cache.msgs, m)}
          BY <1>0, <3>1, <5>1, GopMsgs, Zenon
        <5>3. m \in AvMessage
          BY <3>1, <4>1 DEF AvMessage
        <5>4. /\ gop_cache.msgs \in Seq(AvMessage) /\ <<>> \in Seq(AvMessage)
              /\ <<m>> \in Seq(AvMessage)
          BY <5>3 DEF MediaInv
        <5>5. Append(gop_cache.msgs, m) \in Seq(AvMessage)
          BY <5>3, <5>4
        <5> QED BY <5>2, <5>4, <5>5, Zenon
      <4>2. CASE ~(is_av(m) /\ ~sh(m))
        <5>1. gop_cache' = gop_cache
          BY <2>4, <4>2, Zenon DEF DispatchEnd
        <5> QED BY <5>1 DEF MediaInv
      <4> QED BY <4>1, <4>2
    <3>3. CASE ~is_av(m)
      <4>1. meta' = meta
        BY <2>4, <3>3 DEF DispatchEnd
      <4> QED BY <3>2, <4>1 DEF MediaInv
    <3>4. CASE is_av(m)
      <4>1. meta' = MetaAfterDispatch(m)
        BY <2>4, <3>4 DEF DispatchEnd
      <4> DEFINE ash == IF is_audio(m) /\ (sh(m) \/ meta.audio = NoMessage) THEN m ELSE meta.audio
      <4>2. ash \in Message \cup {NoMessage} /\ (ash # NoMessage => is_audio(ash))
        BY <1>0, <3>1 DEF MediaInv
      <4>3. meta'.video \in {meta.video, Retimed(meta.video, m.ts)} /\ meta'.audio \in {ash, Retimed(ash, m.ts)}
        BY <4>1 DEF MetaAfterDispatch
      <4> HIDE DEF ash
      <4>4. meta'.video # NoMessage => is_video(meta'.video)
        BY <1>0, <3>1, <4>3, RetimedKeeps DEF MediaInv, is_video
      <4>5. meta'.audio # NoMessage => is_audio(meta'.audio)
        BY <3>1, <4>2, <4>3, RetimedKeeps DEF is_audio
      <4>6. meta'.data \in {meta.data, Retimed(meta.data, m.ts)}
        BY <4>1 DEF MetaAfterDispatch
      <4>7. ~is_av(meta'.data)
        BY <1>0, <3>1, <4>6, RetimedKeeps DEF MediaInv, is_av
      <4> QED BY <3>2, <4>4, <4>5, <4>7 DEF MediaInv
    <3> QED BY <3>3, <3>4
  <2>5. CASE on_unpublish
    <3>1. gop_cache'.msgs = <<>> /\ meta' = meta
      BY <1>0, <2>5 DEF on_unpublish, GopClear, GopType
    <3> QED BY <3>1 DEF MediaInv
  <2> QED BY <1>4, <2>1, <2>2, <2>3, <2>4, <2>5 DEF PublisherNext
<1>5. ASSUME NEW c \in Consumer, PlayerNext(c) PROVE MediaInv'
  <2>1. CASE DumpMeta(c)
    <3> DEFINE t == GopStartTime(gop_cache)
    <3>1. t \in Int
      BY <1>0, GopStartTimeType
    <3>2. /\ gop_cache' = gop_cache
          /\ meta'.data \in {meta.data, Retimed(meta.data, t)}
          /\ meta'.video \in {meta.video, Retimed(meta.video, t)}
          /\ meta'.audio \in {meta.audio, Retimed(meta.audio, t)}
      BY <2>1 DEF DumpMeta
    <3> HIDE DEF t
    <3>a. ASSUME NEW m \in Message \cup {NoMessage}, NEW n \in {m, Retimed(m, t)}
          PROVE  n.type = m.type /\ (n = NoMessage <=> m = NoMessage)
      BY <3>1, RetimedKeeps
    <3>b. {meta.data, meta.video, meta.audio} \subseteq Message \cup {NoMessage}
      BY <1>0 DEF MetaType
    <3>3. ~is_av(meta'.data)
      BY <3>a, <3>b, <3>2 DEF MediaInv, is_av
    <3>4. meta'.video # NoMessage => is_video(meta'.video)
      BY <3>a, <3>b, <3>2 DEF MediaInv, is_video
    <3>5. meta'.audio # NoMessage => is_audio(meta'.audio)
      BY <3>a, <3>b, <3>2 DEF MediaInv, is_audio
    <3> QED BY <3>2, <3>3, <3>4, <3>5 DEF MediaInv
  <2>2. CASE ~DumpMeta(c)
    <3>1. UNCHANGED <<meta, gop_cache>>
      BY <1>5, <2>2 DEF PlayerNext, create_consumer, set_queue_size, DumpAsh, DumpVsh,
                  DumpHeader, DumpGop, dump_packets, on_play_client_pause,
                  on_consumer_destroy, sourceVars
    <3> QED BY <1>1, <3>1
  <2> QED BY <2>1, <2>2
<1>6. ASSUME NEW v \in GopCacheConf, set_cache(v) PROVE MediaInv'
  <2>1. gop_cache' = GopSet(gop_cache, v) /\ meta' = meta
    BY <1>6 DEF set_cache
  <2>2. gop_cache'.msgs \in {gop_cache.msgs, <<>>}
    BY <1>0, <2>1 DEF GopSet, GopClear, GopType
  <2>3. gop_cache.msgs \in Seq(AvMessage) /\ <<>> \in Seq(AvMessage)
    BY DEF MediaInv
  <2>4. gop_cache'.msgs \in Seq(AvMessage)
    BY <2>2, <2>3, Zenon
  <2> QED BY <2>1, <2>4 DEF MediaInv
<1>7. CASE UNCHANGED vars
  BY <1>1, <1>7 DEF vars, sourceVars
<1> QED BY <1>4, <1>5, <1>6, <1>7 DEF Next
=============================================================================
