---------------------------- MODULE PreviewProofs ----------------------------
(***************************************************************************)
(* Theorems about the preview, for all files, positions, tolerances and    *)
(* limits: the choice of a frame, the two services that read one file, and *)
(* the page that asks for frames.                                          *)
(***************************************************************************)
EXTENDS Preview, FrameLoader, FiniteSetTheorems, SequenceTheorems, WellFoundedInduction, TLAPS

-----------------------------------------------------------------------------
(* Numbers and finite sets                                                 *)

\* Sets of natural numbers have a least element.
LEMMA Smallest ==
  ASSUME NEW S, S \subseteq Nat, S # {}
  PROVE  \E x \in S : \A y \in S : x <= y
<1>1. PICK x \in S : \A y \in S : <<y, x>> \notin OpToRel(<, Nat)
  BY NatLessThanWellFounded, WFMin
<1>2. \A y \in S : y < x => <<y, x>> \in OpToRel(<, Nat)
  BY DEF OpToRel
<1>3. x \in Nat /\ \A y \in S : y \in Nat /\ ~(y < x)
  BY <1>1, <1>2
<1> QED
  BY <1>3

\* Bounded ones have a greatest.
LEMMA Greatest ==
  ASSUME NEW n \in Nat, NEW S, S \subseteq 1 .. n, S # {}
  PROVE  Max(S) \in S /\ \A y \in S : y <= Max(S)
<1>1. \A y \in S : y \in Int /\ n - y \in Nat
  OBVIOUS
<1>2. \E x \in S : \A y \in S : n - x <= n - y
  <2> DEFINE T == {n - x : x \in S}
  <2>1. T \subseteq Nat /\ T # {}
    BY <1>1
  <2>2. PICK d \in T : \A k \in T : d <= k
    BY <2>1, Smallest
  <2>3. PICK x \in S : d = n - x
    BY <2>2
  <2> QED
    BY <2>2, <2>3
<1>3. PICK x \in S : \A y \in S : n - x <= n - y
  BY <1>2
<1>4. \A y \in S : x >= y
  BY <1>1, <1>3
<1>5. Max(S) \in S /\ \A y \in S : Max(S) >= y
  BY <1>4 DEF Max
<1> QED
  BY <1>1, <1>5

\* What holds at 0 and is passed on holds of every natural number.
LEMMA SetInduction ==
  ASSUME NEW S, 0 \in S, \A n \in Nat : n \in S => n + 1 \in S
  PROVE  \A n \in Nat : n \in S
<1> SUFFICES ASSUME NEW n \in Nat, n \notin S PROVE FALSE
  OBVIOUS
<1> DEFINE T == {m \in Nat : m \notin S}
<1>1. T \subseteq Nat /\ T # {}
  OBVIOUS
<1>2. PICK m \in T : \A k \in T : m <= k
  BY <1>1, Smallest
<1>3. m # 0 /\ m - 1 \in Nat /\ m - 1 \notin T
  BY <1>2
<1> QED
  BY <1>2, <1>3

\* A function has at most as many values as arguments.
LEMMA Values ==
  ASSUME NEW S, IsFiniteSet(S), NEW f
  PROVE  /\ IsFiniteSet({f[x] : x \in S})
         /\ Cardinality({f[x] : x \in S}) <= Cardinality(S)
<1> DEFINE g == [x \in S |-> f[x]]
<1>1. g \in Surjection(S, {f[x] : x \in S})
  BY DEF Surjection
<1> QED
  BY <1>1, FS_Surjection

\* The members of M among the first n numbers.
UpTo(M, n) == {i \in 1 .. n : i \in M}

LEMMA UpToFinite ==
  ASSUME NEW M, NEW n \in Nat
  PROVE  IsFiniteSet(UpTo(M, n)) /\ Cardinality(UpTo(M, n)) \in Nat
<1>1. UpTo(M, n) \subseteq 1 .. n /\ IsFiniteSet(1 .. n)
  BY FS_Interval DEF UpTo
<1> QED
  BY <1>1, FS_Subset, FS_CardinalityType

\* Counted one by one they go up by at most one, so that a number not met on
\* the way is not passed either.
LEMMA CountFlags ==
  ASSUME NEW m \in Nat, NEW M, NEW free \in Nat, 0 < free,
         \A n \in 1 .. m : Cardinality(UpTo(M, n)) # free
  PROVE  \A n \in 0 .. m : IsFiniteSet(UpTo(M, n)) /\ Cardinality(UpTo(M, n)) < free
<1> DEFINE S == {n \in Nat : n <= m => Cardinality(UpTo(M, n)) < free}
<1>1. \A n \in Nat : IsFiniteSet(UpTo(M, n)) /\ Cardinality(UpTo(M, n)) \in Nat
  BY UpToFinite
<1>2. 0 \in S
  BY FS_EmptySet DEF UpTo
<1>3. ASSUME NEW n \in Nat, n \in S PROVE n + 1 \in S
  <2> SUFFICES ASSUME n + 1 <= m PROVE Cardinality(UpTo(M, n + 1)) < free
    OBVIOUS
  <2>1. Cardinality(UpTo(M, n)) < free
    BY <1>3
  <2>2. UpTo(M, n + 1) = UpTo(M, n) \/ UpTo(M, n + 1) = UpTo(M, n) \cup {n + 1}
    BY DEF UpTo
  <2>3. n + 1 \notin UpTo(M, n)
    BY DEF UpTo
  <2>4. Cardinality(UpTo(M, n + 1)) \in {Cardinality(UpTo(M, n)), Cardinality(UpTo(M, n)) + 1}
    BY <1>1, <2>2, <2>3, FS_AddElement
  <2>5. Cardinality(UpTo(M, n + 1)) # free
    BY <1>3
  <2> DEFINE k == Cardinality(UpTo(M, n))
             j == Cardinality(UpTo(M, n + 1))
  <2>6. k \in Nat /\ j \in {k, k + 1} /\ j # free /\ k < free
    BY <1>1, <2>1, <2>4, <2>5
  <2> HIDE DEF j, k
  <2>7. j < free
    BY <2>6
  <2> QED
    BY <2>7 DEF j
<1> HIDE DEF S
<1>4. \A n \in Nat : n \in S
  BY <1>2, <1>3, SetInduction
<1> QED
  BY <1>1, <1>4 DEF S

-----------------------------------------------------------------------------
(* The page: its loader                                                    *)

TopicSet == ToSet(TopicList)
Images == [topic : TopicSet, position : Nat]
Call == [position : Nat, queue : Seq(Items), flight : SUBSET Items,
         got : UNION {[D -> Images] : D \in SUBSET TopicSet}, failed : SUBSET Items]

\* An image is one of topic t near position p.
Shows(image, t, p) == image.topic = t /\ Bucket(image.position) = Bucket(p)

CacheOK(k) ==
    \A t \in TopicSet, p \in Nat :
        CacheKey(t, p) \in DOMAIN k => k[CacheKey(t, p)] \in Images
                                       /\ Shows(k[CacheKey(t, p)], t, p)

\* An item of a call is in one place at a time, and its requests are few.
CallOK(call) ==
    /\ call \in Call
    /\ IsInjective(call.queue)
    /\ ToSet(call.queue) \cap (call.flight \cup call.failed) = {}
    /\ call.flight \cap call.failed = {}
    /\ Cardinality(call.flight) <= MaxConcurrent
    /\ \A t \in DOMAIN call.got : Shows(call.got[t], t, call.position)

\* The topics of some items, and the items a call has an image of.
TopicsOf(S) == {TopicList[i] : i \in S}
Answered(call) == Items \ (ToSet(call.queue) \cup call.flight \cup call.failed)

\* A call has the images of what was answered.
Kept(call) == DOMAIN call.got = TopicsOf(Answered(call))

\* A call that nothing superseded has all the images it was answered, and
\* waits for some answer as long as it has any item to request.
LiveOK(call) ==
    /\ Kept(call)
    /\ call.flight = {} => call.queue = <<>>

LoaderInv ==
    /\ calls \in Seq(Call)
    /\ CacheOK(cache)
    /\ \A c \in Calls : CallOK(calls[c])
    /\ calls # <<>> => LiveOK(calls[Len(calls)])
    /\ isLoading \in BOOLEAN
    /\ LoadingIsTrue
    /\ frames.call \in {0} \cup Calls
    /\ frames.call # 0 => /\ calls[frames.call].flight = {}
                          /\ frames.images = calls[frames.call].got

\* There are finitely many items, and each has a topic.
LEMMA FewItems == /\ IsFiniteSet(Items)
                  /\ TopicList \in Seq(TopicSet) /\ Len(TopicList) \in Nat
                  /\ Items = 1 .. Len(TopicList)
                  /\ TopicSet = TopicsOf(Items)
                  /\ \A i \in Items : TopicList[i] \in TopicSet
<1>1. TopicList \in Seq(TopicSet) /\ Len(TopicList) \in Nat
  BY LoaderAssumption DEF LoaderAssumption, TopicSet
<1>2. Items = 1 .. Len(TopicList)
  BY <1>1 DEF Items
<1>3. IsFiniteSet(Items)
  BY <1>1, <1>2, FS_Interval
<1>4. TopicSet = TopicsOf(Items) /\ \A i \in Items : TopicList[i] \in TopicSet
  BY DEF TopicSet, ToSet, TopicsOf, Items
<1> QED
  BY <1>1, <1>2, <1>3, <1>4

\* The items that are started are within the queue and fit the free slots, and
\* without a request to wait for they are all that is queued.
LEMMA StartableFits ==
  ASSUME NEW call \in Call, NEW k, Cardinality(call.flight) < MaxConcurrent,
         NEW n, n = Startable(call, k)
  PROVE  /\ n \in 0 .. Len(call.queue)
         /\ IsFiniteSet(Missing(call, k, n))
         /\ Cardinality(call.flight) + Cardinality(Missing(call, k, n)) <= MaxConcurrent
         /\ call.flight = {} /\ Missing(call, k, n) = {} => n = Len(call.queue)
<1> DEFINE M == {j \in Nat : CacheKey(TopicList[call.queue[j]], call.position) \notin DOMAIN k}
           m == Len(call.queue)
           free == MaxConcurrent - Cardinality(call.flight)
           full == {j \in DOMAIN call.queue : Cardinality(Missing(call, k, j)) = free}
<1>1. \A j : Missing(call, k, j) = UpTo(M, j)
  BY DEF Missing, UpTo
<1>2. call.queue \in Seq(Items) /\ m \in Nat /\ DOMAIN call.queue = 1 .. m
  BY DEF Call
<1>3. IsFiniteSet(call.flight) /\ Cardinality(call.flight) \in Nat
  BY FewItems, FS_Subset, FS_CardinalityType DEF Call
<1>4. free \in Nat /\ free > 0 /\ free + Cardinality(call.flight) = MaxConcurrent
  BY <1>3, LoaderAssumption DEF LoaderAssumption
<1>5. n = IF full = {} THEN m ELSE Min(full)
  BY DEF Startable
<1>6. \A j \in Nat : IsFiniteSet(UpTo(M, j)) /\ Cardinality(UpTo(M, j)) \in Nat
  BY UpToFinite
<1> DEFINE a == Cardinality(call.flight)
           b == Cardinality(UpTo(M, n))
<1>7. \/ n = m /\ b < free
      \/ n \in 1 .. m /\ b = free
  <2>1. CASE full = {}
    <3>1. \A j \in 1 .. m : Cardinality(UpTo(M, j)) # free
      BY <1>1, <1>2, <2>1
    <3>2. m \in 0 .. m
      BY <1>2
    <3> HIDE DEF m, free, full, M
    <3>3. Cardinality(UpTo(M, m)) < free
      BY <1>2, <1>4, <3>1, <3>2, CountFlags
    <3> QED
      BY <1>5, <2>1, <3>3
  <2>2. CASE full # {}
    <3>1. full \subseteq Nat
      BY <1>2
    <3>2. Min(full) \in full
      BY <2>2, <3>1, Smallest DEF Min
    <3>3. n \in full
      BY <1>5, <2>2, <3>2
    <3> QED
      BY <1>1, <1>2, <3>3
  <2> QED
    BY <2>1, <2>2
<1>8. n \in Nat /\ n \in 0 .. m
  BY <1>2, <1>7
<1>9. IsFiniteSet(UpTo(M, n)) /\ b \in Nat
  BY <1>6, <1>8
<1>10. a \in Nat /\ free \in Nat /\ free + a = MaxConcurrent /\ free > 0
  BY <1>3, <1>4
<1>11. UpTo(M, n) = {} => b = 0
  BY FS_EmptySet
<1>12. UpTo(M, n) = {} => n = m
  <2> HIDE DEF b, free, m
  <2> QED
    BY <1>7, <1>10, <1>11
<1>13. a + b <= MaxConcurrent
  <2> HIDE DEF a, b, free
  <2> QED
    BY <1>7, <1>9, <1>10
<1> QED
  BY <1>1, <1>8, <1>9, <1>12, <1>13

\* A sequence q without repetition is cut after n elements; r is the rest.
CutAt(q, n, r) ==
    /\ IsInjective(r)
    /\ ToSet(q) = ToSet(r) \cup {q[i] : i \in 1 .. n}
    /\ ToSet(r) \cap {q[i] : i \in 1 .. n} = {}
    /\ n = Len(q) => r = <<>>

LEMMA TailOfQueue ==
  ASSUME NEW S, NEW q \in Seq(S), IsInjective(q), NEW n \in 0 .. Len(q),
         NEW r \in Seq(S), Len(r) = Len(q) - n, \A i \in 1 .. Len(r) : r[i] = q[n + i]
  PROVE  CutAt(q, n, r)
<1>1. /\ Len(q) \in Nat /\ n \in Nat /\ n <= Len(q)
      /\ DOMAIN q = 1 .. Len(q)
      /\ n + 1 \in 1 .. Len(q) + 1 /\ Len(q) \in n .. Len(q)
  OBVIOUS
<1>2. /\ Len(r) = Len(q) - n
      /\ \A i \in 1 .. Len(r) : r[i] = q[n + i]
  OBVIOUS
<1>3. DOMAIN r = 1 .. Len(r)
  BY <1>2
<1>4. IsInjective(r)
  <2>. SUFFICES ASSUME NEW i \in 1 .. Len(r), NEW j \in 1 .. Len(r), r[i] = r[j]
                PROVE  i = j
    BY <1>3 DEF IsInjective
  <2>1. n + i \in 1 .. Len(q) /\ n + j \in 1 .. Len(q)
    BY <1>1, <1>2
  <2>2. n + i = n + j
    BY <1>1, <1>2, <2>1 DEF IsInjective
  <2> QED
    BY <2>2
<1>5. ToSet(r) = {q[i] : i \in n + 1 .. Len(q)}
  <2>1. ASSUME NEW x \in ToSet(r) PROVE x \in {q[i] : i \in n + 1 .. Len(q)}
    <3>1. PICK i \in 1 .. Len(r) : x = r[i]
      BY <1>3 DEF ToSet
    <3>2. n + i \in n + 1 .. Len(q)
      BY <1>1, <1>2
    <3>3. x = q[n + i]
      BY <1>2, <3>1
    <3> QED
      BY <3>2, <3>3
  <2>2. ASSUME NEW i \in n + 1 .. Len(q) PROVE q[i] \in ToSet(r)
    <3>1. i - n \in 1 .. Len(r) /\ n + (i - n) = i
      BY <1>1, <1>2
    <3>2. r[i - n] = q[i]
      BY <1>2, <3>1
    <3> QED
      BY <1>3, <3>1, <3>2 DEF ToSet
  <2> QED
    BY <2>1, <2>2
<1>6. 1 .. Len(q) = (1 .. n) \cup (n + 1 .. Len(q)) /\ (1 .. n) \cap (n + 1 .. Len(q)) = {}
  BY <1>1
<1>7. n = Len(q) => r = <<>>
  BY <1>1, <1>2
<1>8. ToSet(q) = {q[i] : i \in 1 .. Len(q)}
  BY <1>1 DEF ToSet
<1>9. ToSet(q) = ToSet(r) \cup {q[i] : i \in 1 .. n}
  BY <1>5, <1>6, <1>8
<1>10. ToSet(r) \cap {q[i] : i \in 1 .. n} = {}
  <2> SUFFICES ASSUME NEW i \in n + 1 .. Len(q), NEW j \in 1 .. n, q[i] = q[j] PROVE FALSE
    BY <1>5
  <2>1. i \in DOMAIN q /\ j \in DOMAIN q /\ i # j
    BY <1>1
  <2> QED
    BY <2>1 DEF IsInjective
<1> QED
  BY <1>4, <1>7, <1>9, <1>10 DEF CutAt

LEMMA CutQueue ==
  ASSUME NEW S, NEW q \in Seq(S), IsInjective(q), NEW n \in 0 .. Len(q)
  PROVE  CutAt(q, n, SubSeq(q, n + 1, Len(q))) /\ SubSeq(q, n + 1, Len(q)) \in Seq(S)
<1>1. /\ Len(q) \in Nat /\ n \in Nat /\ n <= Len(q)
      /\ n + 1 \in Int /\ Len(q) \in Int /\ \A i \in n + 1 .. Len(q) : q[i] \in S
  OBVIOUS
<1>2. PICK r : r = SubSeq(q, n + 1, Len(q))
  OBVIOUS
<1>3. /\ r \in Seq(S)
      /\ Len(r) = IF n + 1 <= Len(q) THEN Len(q) - (n + 1) + 1 ELSE 0
      /\ \A i \in 1 .. Len(q) - (n + 1) + 1 : r[i] = q[(n + 1) + i - 1]
  BY <1>1, <1>2, SubSeqProperties
<1>4. Len(r) = Len(q) - n
  BY <1>1, <1>3
<1>5. ASSUME NEW i \in 1 .. Len(r) PROVE r[i] = q[n + i]
  <2>1. (n + 1) + i - 1 = n + i /\ Len(q) - (n + 1) + 1 = Len(r)
    BY <1>1, <1>4
  <2> QED
    BY <1>3, <2>1
<1>6. CutAt(q, n, r)
  BY <1>3, <1>4, <1>5, TailOfQueue
<1> QED
  BY <1>2, <1>3, <1>6

\* What Advance keeps of a call that is not aborted.
LEMMA Advanced ==
  ASSUME NEW c, NEW last, ~Aborted(c, last), NEW k, CacheOK(k),
         NEW call, CallOK(call), Cardinality(call.flight) < MaxConcurrent,
         NEW r, r = Advance(c, last, call, k)
  PROVE  /\ CallOK(r)
         /\ r.position = call.position /\ r.failed = call.failed
         /\ Kept(call) => Kept(r)
         /\ r.flight = {} => r.queue = <<>>
<1> DEFINE n == Startable(call, k)
           q == call.queue
           rest == SubSeq(q, n + 1, Len(q))
           missing == Missing(call, k, n)
           asked == {q[j] : j \in missing}
           found == {q[j] : j \in (1 .. n) \ missing}
           hits == {TopicList[q[j]] : j \in (1 .. n) \ missing}
           got == [t \in hits \cup DOMAIN call.got |->
                     IF t \in hits THEN k[CacheKey(t, call.position)] ELSE call.got[t]]
<1>1. /\ call \in Call /\ q \in Seq(Items) /\ IsInjective(q)
      /\ DOMAIN q = 1 .. Len(q) /\ Len(q) \in Nat
      /\ call.position \in Nat /\ call.flight \subseteq Items /\ call.failed \subseteq Items
      /\ DOMAIN call.got \subseteq TopicSet /\ \A t \in DOMAIN call.got : call.got[t] \in Images
  BY DEF CallOK, Call
<1>2. /\ n \in 0 .. Len(q) /\ IsFiniteSet(missing)
      /\ Cardinality(call.flight) + Cardinality(missing) <= MaxConcurrent
      /\ call.flight = {} /\ missing = {} => n = Len(q)
  BY <1>1, StartableFits
<1>3. CutAt(q, n, rest) /\ rest \in Seq(Items)
  BY <1>1, <1>2, CutQueue
<1>4. missing \subseteq 1 .. n /\ 1 .. n \subseteq DOMAIN q
  BY <1>1, <1>2 DEF Missing
<1>5. {q[i] : i \in 1 .. n} = asked \cup found
  BY <1>4
<1>6. asked \cap found = {}
  BY <1>1, <1>4 DEF IsInjective
<1>7. asked \subseteq Items /\ found \subseteq Items /\ hits = TopicsOf(found)
      /\ hits \subseteq TopicSet
  <2>1. asked \subseteq Items /\ found \subseteq Items
    BY <1>1, <1>4
  <2>2. hits = TopicsOf(found)
    BY DEF TopicsOf
  <2>3. TopicsOf(found) \subseteq TopicSet
    BY <2>1, FewItems DEF TopicsOf
  <2> QED
    BY <2>1, <2>2, <2>3
<1>8. /\ r.queue = rest /\ r.flight = call.flight \cup asked /\ r.got = got
      /\ r.position = call.position /\ r.failed = call.failed
  BY <1>1 DEF Advance, Call
<1>9. ASSUME NEW t \in hits
      PROVE  k[CacheKey(t, call.position)] \in Images
             /\ Shows(k[CacheKey(t, call.position)], t, call.position)
  <2>1. CacheKey(t, call.position) \in DOMAIN k
    BY DEF Missing
  <2> QED
    BY <1>1, <1>7, <1>9, <2>1 DEF CacheOK
<1> HIDE DEF hits, found, asked, rest, missing, n
<1>10. got \in [hits \cup DOMAIN call.got -> Images]
  BY <1>1, <1>9
<1>11. DOMAIN r.got = hits \cup DOMAIN call.got
  BY <1>8
<1>12. r \in Call
  <2>1. r.got \in UNION {[D -> Images] : D \in SUBSET TopicSet}
    <3>1. hits \cup DOMAIN call.got \in SUBSET TopicSet
      BY <1>1, <1>7
    <3> QED
      BY <1>8, <1>10, <3>1
  <2>2. r = [call EXCEPT !.queue = rest, !.flight = call.flight \cup asked, !.got = got]
    BY DEF Advance, hits, asked, rest, missing, n
  <2> HIDE DEF got
  <2>3. r = [position |-> r.position, queue |-> r.queue, flight |-> r.flight,
             got |-> r.got, failed |-> r.failed]
    BY <1>1, <2>2 DEF Call
  <2>4. /\ r.position \in Nat /\ r.queue \in Seq(Items) /\ r.flight \in SUBSET Items
        /\ r.failed \in SUBSET Items
    BY <1>1, <1>3, <1>7, <1>8
  <2> QED
    BY <2>1, <2>3, <2>4 DEF Call
<1>13. Cardinality(r.flight) <= MaxConcurrent
  <2>1. IsFiniteSet(call.flight) /\ Cardinality(call.flight) \in Nat
    BY <1>1, FewItems, FS_Subset, FS_CardinalityType
  <2>2. /\ IsFiniteSet(asked) /\ Cardinality(asked) \in Nat
        /\ Cardinality(asked) <= Cardinality(missing) /\ Cardinality(missing) \in Nat
    BY <1>2, Values, FS_CardinalityType DEF asked
  <2>3. /\ Cardinality(call.flight \cup asked)
             = Cardinality(call.flight) + Cardinality(asked) - Cardinality(call.flight \cap asked)
        /\ Cardinality(call.flight \cap asked) \in Nat
    BY <2>1, <2>2, FS_Union, FS_Subset, FS_CardinalityType
  <2> QED
    BY <1>2, <1>8, <2>1, <2>2, <2>3, LoaderAssumption DEF LoaderAssumption
<1>14. ToSet(q) = ToSet(rest) \cup asked \cup found /\ ToSet(rest) \cap (asked \cup found) = {}
  BY <1>3, <1>5 DEF CutAt
<1>15. /\ ToSet(q) \cap (call.flight \cup call.failed) = {}
       /\ call.flight \cap call.failed = {}
  BY DEF CallOK
<1>16. ASSUME NEW t \in DOMAIN r.got PROVE Shows(r.got[t], t, r.position)
  BY <1>8, <1>9, <1>11 DEF CallOK
<1>17. CallOK(r)
  BY <1>3, <1>6, <1>8, <1>11, <1>12, <1>13, <1>14, <1>15, <1>16 DEF CallOK, CutAt
<1>18. Kept(call) => Kept(r)
  <2>1. Answered(r) = Answered(call) \cup found
    BY <1>6, <1>7, <1>8, <1>14, <1>15 DEF Answered
  <2>2. TopicsOf(Answered(r)) = TopicsOf(Answered(call)) \cup TopicsOf(found)
    BY <2>1 DEF TopicsOf
  <2> QED
    BY <1>7, <1>11, <2>2 DEF Kept
<1>19. r.flight = {} => r.queue = <<>>
  <2> SUFFICES ASSUME r.flight = {} PROVE rest = <<>>
    BY <1>8
  <2>1. call.flight = {} /\ missing = {}
    BY <1>8 DEF asked
  <2> QED
    BY <1>2, <1>3, <2>1 DEF CutAt
<1> QED
  BY <1>8, <1>17, <1>18, <1>19

\* Call becomes r: aborted it keeps its requests, otherwise its topics.
GoesOn(c, last, call, r) ==
    /\ CallOK(r)
    /\ ~Aborted(c, last) => /\ Kept(call) => Kept(r)
                            /\ r.flight = {} => r.queue = <<>>
    /\ Aborted(c, last) => r.flight = call.flight

LEMMA AdvancedOrDropped ==
  ASSUME NEW c, NEW last, NEW k, CacheOK(k),
         NEW call, CallOK(call), Cardinality(call.flight) < MaxConcurrent,
         NEW r, r = Advance(c, last, call, k)
  PROVE  GoesOn(c, last, call, r)
<1> USE DEF GoesOn
<1>1. CASE ~Aborted(c, last)
  BY <1>1, Advanced
<1>2. CASE Aborted(c, last)
  <2>1. r = [call EXCEPT !.queue = <<>>]
    BY <1>2 DEF Advance
  <2>2. call \in Call
    BY DEF CallOK
  <2>3. /\ r.position = call.position /\ r.flight = call.flight
        /\ r.got = call.got /\ r.failed = call.failed
    BY <2>1
  <2>4. r.queue = <<>> /\ r \in Call
    <3>1. PICK empty \in Seq(Items) : empty = <<>>
      BY EmptySeq
    <3>2. r = [call EXCEPT !.queue = empty]
      BY <2>1, <3>1
    <3>3. r.queue = empty /\ r \in Call
      BY <2>2, <3>2 DEF Call
    <3> QED
      BY <3>1, <3>3
  <2>5. IsInjective(r.queue) /\ ToSet(r.queue) = {}
    BY <2>4 DEF IsInjective, ToSet
  <2>6. CallOK(r)
    BY <2>3, <2>4, <2>5 DEF CallOK
  <2> QED
    BY <1>2, <2>3, <2>6
<1> QED
  BY <1>1, <1>2

\* What StaleCallsStartNothing says of a step.
StaleStep ==
    \A c \in Calls : /\ Cardinality(calls'[c].flight) <= MaxConcurrent
                     /\ c < Len(calls) => calls'[c].flight \subseteq calls[c].flight

\* A request of call c for item i ends, and the call goes on from "before".
LEMMA RequestEnds ==
  ASSUME LoaderInv, NEW c \in Calls, NEW i \in calls[c].flight,
         NEW before, CallOK(before), before.flight = calls[c].flight \ {i},
         Kept(calls[c]) => Kept(before), CacheOK(cache'),
         NEW call, call = Advance(c, Len(calls), before, cache'),
         calls' = [calls EXCEPT ![c] = call], Settle(c, Len(calls), call)
  PROVE  LoaderInv' /\ StaleStep
<1> USE DEF LoaderInv
<1>1. Len(calls) \in Nat /\ Calls = 1 .. Len(calls) /\ calls # <<>>
  BY DEF Calls
<1>2. Cardinality(before.flight) < MaxConcurrent
  <2>1. calls[c].flight \subseteq Items /\ Cardinality(calls[c].flight) <= MaxConcurrent
    BY DEF CallOK, Call
  <2>2. IsFiniteSet(calls[c].flight)
    BY <2>1, FewItems, FS_Subset
  <2>5. PICK F : F = calls[c].flight
    OBVIOUS
  <2>6. IsFiniteSet(F) /\ i \in F
    BY <2>2, <2>5
  <2>7. IsFiniteSet(F \ {i}) /\ Cardinality(F \ {i}) = Cardinality(F) - 1
    <3> HIDE DEF LoaderInv
    <3> QED
      BY <2>6, FS_RemoveElement
  <2>3. Cardinality(calls[c].flight \ {i}) = Cardinality(calls[c].flight) - 1
    BY <2>5, <2>7
  <2>4. Cardinality(calls[c].flight) \in Nat
    BY <2>2, FS_CardinalityType
  <2> QED
    BY <2>1, <2>3, <2>4, LoaderAssumption DEF LoaderAssumption
<1>3. /\ CallOK(call)
      /\ ~Aborted(c, Len(calls)) => /\ Kept(before) => Kept(call)
                                    /\ call.flight = {} => call.queue = <<>>
      /\ Aborted(c, Len(calls)) => call.flight = before.flight
  <2>1. PICK k, last : k = cache' /\ last = Len(calls)
    OBVIOUS
  <2>2. CacheOK(k) /\ call = Advance(c, last, before, k)
    BY <2>1
  <2>3. GoesOn(c, last, before, call)
    <3> HIDE DEF LoaderInv
    <3> QED
      BY <1>2, <2>2, AdvancedOrDropped
  <2> QED
    BY <2>1, <2>3 DEF GoesOn
<1>4. Aborted(c, Len(calls)) <=> c # Len(calls)
  BY <1>1 DEF Aborted
<1>5. /\ calls' \in Seq(Call) /\ Len(calls') = Len(calls) /\ Calls' = Calls /\ calls' # <<>>
      /\ calls'[c] = call /\ \A d \in Calls : d # c => calls'[d] = calls[d]
  <2>1. call \in Call
    BY <1>3 DEF CallOK
  <2> QED
    BY <1>1, <2>1 DEF Calls
<1>6. \A d \in Calls' : CallOK(calls'[d])
  BY <1>3, <1>5
<1>7. LiveOK(calls'[Len(calls')])
  <2>1. CASE c = Len(calls)
    BY <1>1, <1>3, <1>4, <1>5, <2>1 DEF LiveOK
  <2>2. CASE c # Len(calls)
    BY <1>1, <1>5, <2>2
  <2> QED
    BY <2>1, <2>2
<1>8. isLoading' \in BOOLEAN /\ LoadingIsTrue'
  <2>1. CASE c = Len(calls)
    BY <1>4, <1>5, <2>1 DEF Settle, LoadingIsTrue, Last
  <2>2. CASE c # Len(calls)
    BY <1>1, <1>4, <1>5, <2>2 DEF Settle, LoadingIsTrue, Last
  <2> QED
    BY <2>1, <2>2
<1>9. /\ frames'.call \in {0} \cup Calls'
      /\ frames'.call # 0 => /\ calls'[frames'.call].flight = {}
                             /\ frames'.images = calls'[frames'.call].got
  <2>1. CASE frames' = [call |-> c, images |-> call.got] /\ call.flight = {}
    BY <1>5, <2>1
  <2>2. CASE UNCHANGED frames
    <3>1. frames.call # c
      BY <1>1
    <3> QED
      BY <1>5, <2>2, <3>1
  <2> QED
    BY <2>1, <2>2 DEF Settle
<1>10. StaleStep
  BY <1>3, <1>4, <1>5, <1>6 DEF StaleStep, CallOK
<1> QED
  BY <1>5, <1>6, <1>7, <1>8, <1>9, <1>10

\* The cache remains true when an image is added.
LEMMA CacheGrows ==
  ASSUME CacheOK(cache), NEW t \in TopicSet, NEW p \in Nat
  PROVE  CacheOK(Put(cache, CacheKey(t, p), Image(t, p)))
<1> SUFFICES ASSUME NEW u \in TopicSet, NEW q \in Nat,
                    CacheKey(u, q) \in DOMAIN Put(cache, CacheKey(t, p), Image(t, p))
             PROVE  /\ Put(cache, CacheKey(t, p), Image(t, p))[CacheKey(u, q)] \in Images
                    /\ Shows(Put(cache, CacheKey(t, p), Image(t, p))[CacheKey(u, q)], u, q)
  BY DEF CacheOK
<1>1. CASE CacheKey(u, q) = CacheKey(t, p)
  <2>1. u = t /\ Bucket(q) = Bucket(p)
    BY <1>1 DEF CacheKey
  <2>2. Put(cache, CacheKey(t, p), Image(t, p))[CacheKey(u, q)] = Image(t, p)
    BY <1>1 DEF Put
  <2> QED
    BY <2>1, <2>2 DEF Image, Images, Shows
<1>2. CASE CacheKey(u, q) # CacheKey(t, p)
  <2>1. /\ CacheKey(u, q) \in DOMAIN cache
        /\ Put(cache, CacheKey(t, p), Image(t, p))[CacheKey(u, q)] = cache[CacheKey(u, q)]
    BY <1>2 DEF Put
  <2> QED
    BY <2>1 DEF CacheOK
<1> QED
  BY <1>1, <1>2

\* Fewer requests are not more.
LEMMA FewerRequests ==
  ASSUME NEW old \in Call, Cardinality(old.flight) <= MaxConcurrent, NEW i
  PROVE  Cardinality(old.flight \ {i}) <= MaxConcurrent
<1>1. IsFiniteSet(old.flight)
  BY FewItems, FS_Subset DEF Call
<1>2. /\ Cardinality(old.flight \ {i}) <= Cardinality(old.flight)
      /\ Cardinality(old.flight) \in Nat
      /\ Cardinality(old.flight \ {i}) \in Nat
  BY <1>1, FS_Subset, FS_CardinalityType
<1> QED
  BY <1>2, LoaderAssumption DEF LoaderAssumption

LEMMA AnswerSafe ==
  ASSUME LoaderInv, NEW c \in Calls, NEW i, Answer(c, i)
  PROVE  LoaderInv' /\ StaleStep
<1> USE DEF LoaderInv
<1>1. PICK old : old = calls[c]
  OBVIOUS
<1>2. CallOK(old) /\ old \in Call /\ i \in old.flight /\ i \in Items /\ old.position \in Nat
  BY <1>1 DEF CallOK, Call, Answer
<1>15. PICK t \in TopicSet : t = TopicList[i]
  BY <1>2, FewItems
<1>3. PICK before : before = [old EXCEPT !.flight = @ \ {i}, !.got = Put(@, t, Image(t, old.position))]
  OBVIOUS
<1>4. /\ before.flight = old.flight \ {i} /\ before.got = Put(old.got, t, Image(t, old.position))
      /\ before.position = old.position /\ before.queue = old.queue /\ before.failed = old.failed
  BY <1>2, <1>3 DEF Call
<1>5. DOMAIN before.got = DOMAIN old.got \cup {t}
  BY <1>4 DEF Put
<1>6. before \in Call
  <2>1. PICK D \in SUBSET TopicSet : old.got \in [D -> Images]
    BY <1>2 DEF Call
  <2>2. Image(t, old.position) \in Images
    BY <1>2 DEF Image, Images
  <2>3. Put(old.got, t, Image(t, old.position)) \in [D \cup {t} -> Images]
    BY <2>1, <2>2 DEF Put
  <2>4. Put(old.got, t, Image(t, old.position)) \in UNION {[E -> Images] : E \in SUBSET TopicSet}
    BY <1>2, <2>3
  <2> QED
    BY <1>2, <1>3, <2>4 DEF Call
<1>7. Cardinality(before.flight) <= MaxConcurrent
  BY <1>2, <1>4, FewerRequests DEF CallOK
<1>8. ASSUME NEW u \in DOMAIN before.got PROVE Shows(before.got[u], u, before.position)
  BY <1>2, <1>4, <1>5 DEF CallOK, Put, Shows, Image
<1>9. CallOK(before)
  BY <1>2, <1>4, <1>5, <1>6, <1>7, <1>8 DEF CallOK
<1>10. Kept(old) => Kept(before)
  <2>1. Answered(before) = Answered(old) \cup {i}
    BY <1>2, <1>4 DEF Answered, CallOK
  <2>2. TopicsOf(Answered(before)) = TopicsOf(Answered(old)) \cup {t}
    BY <1>15, <2>1 DEF TopicsOf
  <2> QED
    BY <1>5, <2>2 DEF Kept
<1>11. cache' = Put(cache, CacheKey(t, old.position), Image(t, old.position))
  BY <1>1, <1>15 DEF Answer
<1>12. CacheOK(cache')
  BY <1>2, <1>11, CacheGrows
<1>13. PICK call : call = Advance(c, Len(calls), before, cache')
  OBVIOUS
<1>14. calls' = [calls EXCEPT ![c] = call] /\ Settle(c, Len(calls), call)
  BY <1>1, <1>3, <1>11, <1>13, <1>15 DEF Answer
<1> QED
  BY <1>1, <1>2, <1>4, <1>9, <1>10, <1>12, <1>13, <1>14, RequestEnds

LEMMA FailSafe ==
  ASSUME LoaderInv, NEW c \in Calls, NEW i, Fail(c, i)
  PROVE  LoaderInv' /\ StaleStep
<1> USE DEF LoaderInv
<1>1. PICK old : old = calls[c]
  OBVIOUS
<1>2. CallOK(old) /\ old \in Call /\ i \in old.flight /\ i \in Items
  BY <1>1 DEF CallOK, Call, Fail
<1>3. PICK before : before = [old EXCEPT !.flight = @ \ {i}, !.failed = @ \cup {i}]
  OBVIOUS
<1>4. /\ before.flight = old.flight \ {i} /\ before.failed = old.failed \cup {i}
      /\ before.position = old.position /\ before.queue = old.queue /\ before.got = old.got
  BY <1>2, <1>3 DEF Call
<1>5. before \in Call
  BY <1>2, <1>3 DEF Call
<1>6. Cardinality(before.flight) <= MaxConcurrent
  BY <1>2, <1>4, FewerRequests DEF CallOK
<1>7. CallOK(before)
  BY <1>2, <1>4, <1>5, <1>6 DEF CallOK
<1>8. Kept(old) => Kept(before)
  <2>1. Answered(before) = Answered(old)
    BY <1>2, <1>4 DEF Answered
  <2> QED
    BY <1>4, <2>1 DEF Kept
<1>9. cache' = cache
  BY DEF Fail
<1>10. PICK call : call = Advance(c, Len(calls), before, cache')
  OBVIOUS
<1>11. calls' = [calls EXCEPT ![c] = call] /\ Settle(c, Len(calls), call)
  BY <1>1, <1>3, <1>9, <1>10 DEF Fail
<1> QED
  BY <1>1, <1>2, <1>4, <1>7, <1>8, <1>9, <1>10, <1>11, RequestEnds

\* A new call has all items before it; it supersedes the others.
LEMMA LoadFramesSafe ==
  ASSUME LoaderInv, NEW p \in Positions, LoadFrames(p)
  PROVE  LoaderInv' /\ StaleStep
<1> USE DEF LoaderInv
<1>1. Len(calls) \in Nat /\ Calls = 1 .. Len(calls)
  BY DEF Calls
<1>2. PICK c, none, all : c = Len(calls) + 1 /\ none = <<>> /\ all = [i \in Items |-> i]
  OBVIOUS
<1>3. PICK first : first = [position |-> p, queue |-> all, flight |-> {},
                            got |-> none, failed |-> {}]
  OBVIOUS
<1>19. all \in Seq(Items) /\ IsInjective(all) /\ ToSet(all) = Items
  <2>1. all \in Seq(Items)
    BY <1>2, FewItems, IsASeq
  <2> QED
    BY <1>2, <2>1 DEF IsInjective, ToSet
<1>4. DOMAIN none = {} /\ none \in UNION {[D -> Images] : D \in SUBSET TopicSet}
  <2>1. DOMAIN none = {} /\ none \in [{} -> Images]
    BY <1>2
  <2> QED
    BY <2>1
<1>5. first \in Call
  BY <1>3, <1>4, <1>19, LoaderAssumption DEF Call, LoaderAssumption
<1>6. Cardinality(first.flight) < MaxConcurrent /\ Cardinality(first.flight) <= MaxConcurrent
  BY <1>3, FS_EmptySet, LoaderAssumption DEF LoaderAssumption
<1>7. CallOK(first)
  BY <1>3, <1>4, <1>5, <1>6, <1>19 DEF CallOK
<1>8. Kept(first)
  BY <1>3, <1>4, <1>19 DEF Kept, Answered, TopicsOf
<1>9. PICK call : call = Advance(c, c, first, cache)
  OBVIOUS
<1>10. calls' = Append(calls, call) /\ Settle(c, c, call) /\ UNCHANGED cache
  BY <1>2, <1>3, <1>9 DEF LoadFrames
<1>11. ~Aborted(c, c)
  BY <1>1, <1>2 DEF Aborted
<1>12. GoesOn(c, c, first, call)
  <2>1. PICK k : k = cache
    OBVIOUS
  <2>2. CacheOK(k) /\ call = Advance(c, c, first, k)
    BY <1>9, <2>1
  <2> HIDE DEF LoaderInv
  <2> QED
    BY <1>6, <1>7, <2>2, AdvancedOrDropped
<1>13. CallOK(call) /\ LiveOK(call) /\ call \in Call
  BY <1>8, <1>11, <1>12 DEF GoesOn, LiveOK, CallOK
<1>14. /\ calls' \in Seq(Call) /\ Len(calls') = c /\ Calls' = Calls \cup {c} /\ calls' # <<>>
       /\ calls'[c] = call /\ \A d \in Calls : d # c /\ calls'[d] = calls[d]
  <2>1. calls \in Seq(Call) /\ call \in Call
    BY <1>13
  <2> HIDE DEF LoaderInv
  <2>2. /\ calls' \in Seq(Call) /\ Len(calls') = Len(calls) + 1
        /\ calls'[Len(calls) + 1] = call /\ \A d \in 1 .. Len(calls) : calls'[d] = calls[d]
    BY <1>10, <2>1, AppendProperties
  <2>3. Calls' = 1 .. Len(calls) + 1
    BY <2>2 DEF Calls
  <2>4. 1 .. Len(calls) + 1 = (1 .. Len(calls)) \cup {c} /\ c \notin 1 .. Len(calls) /\ c # 0
    BY <1>1, <1>2
  <2>5. calls' # <<>>
    BY <1>2, <2>2, <2>4
  <2> QED
    BY <1>1, <1>2, <2>2, <2>3, <2>4, <2>5
<1>15. \A d \in Calls' : CallOK(calls'[d])
  BY <1>13, <1>14
<1>16. isLoading' \in BOOLEAN /\ LoadingIsTrue'
  BY <1>10, <1>11, <1>14 DEF Settle, LoadingIsTrue, Last
<1>17. /\ frames'.call \in {0} \cup Calls'
       /\ frames'.call # 0 => /\ calls'[frames'.call].flight = {}
                              /\ frames'.images = calls'[frames'.call].got
  <2>1. CASE frames' = [call |-> c, images |-> call.got] /\ call.flight = {}
    BY <1>14, <2>1
  <2>2. CASE UNCHANGED frames
    BY <1>14, <2>2
  <2> QED
    BY <1>10, <2>1, <2>2 DEF Settle
<1>18. StaleStep
  BY <1>14 DEF StaleStep, CallOK
<1> QED
  BY <1>10, <1>13, <1>14, <1>15, <1>16, <1>17, <1>18

LEMMA LoaderStep ==
  ASSUME LoaderInv, [LoaderNext]_loaderVars
  PROVE  LoaderInv' /\ [StaleStep]_loaderVars
<1>1. CASE UNCHANGED loaderVars
  BY <1>1 DEF loaderVars, LoaderInv, LoadingIsTrue, Calls
<1>2. CASE LoaderNext
  BY <1>2, LoadFramesSafe, AnswerSafe, FailSafe DEF LoaderNext
<1> QED
  BY <1>1, <1>2

\* What each call, the cache, the spinner and the page know of one another.
THEOREM FrameLoaderSafe == LoaderSpec => []LoaderInv
<1>1. LoaderInit => LoaderInv
  <2> SUFFICES ASSUME LoaderInit PROVE LoaderInv
    OBVIOUS
  <2>1. calls = <<>> /\ cache = <<>> /\ calls \in Seq(Call) /\ Calls = {} /\ DOMAIN cache = {}
    BY EmptySeq DEF LoaderInit, Calls
  <2>2. CacheOK(cache)
    BY <2>1 DEF CacheOK
  <2> QED
    BY <2>1, <2>2 DEF LoaderInit, LoaderInv, LoadingIsTrue
<1> QED
  BY <1>1, LoaderStep, PTL DEF LoaderSpec

\* The spinner turns exactly while the latest call waits (useMcapFrames.ts,
\* setIsLoading in loadFrames).
THEOREM FrameLoaderLoadingIsTrue == LoaderSpec => []LoadingIsTrue
<1>1. LoaderInv => LoadingIsTrue
  BY DEF LoaderInv
<1> QED
  BY <1>1, FrameLoaderSafe, PTL

\* Frames of two moments are never side by side, and a blank one has failed
\* (useMcapFrames.ts, setFrames in loadFrames).
THEOREM FrameLoaderShownIsOneMoment == LoaderSpec => []ShownIsOneMoment
<1>1. LoaderInv => ShownIsOneMoment
  <2> SUFFICES ASSUME LoaderInv, frames.call # 0, NEW call, call = calls[frames.call]
               PROVE  /\ \A t \in DOMAIN frames.images :
                           /\ frames.images[t].topic = t
                           /\ Bucket(frames.images[t].position) = Bucket(call.position)
                      /\ frames.call = Len(calls) =>
                           \A t \in ToSet(TopicList) :
                               t \notin DOMAIN frames.images
                                   <=> \A i \in Items : TopicList[i] = t => i \in call.failed
    BY DEF ShownIsOneMoment
  <2>1. CallOK(call) /\ call.flight = {} /\ frames.images = call.got /\ calls # <<>>
    BY DEF LoaderInv, Calls
  <2>2. ASSUME frames.call = Len(calls), NEW t \in ToSet(TopicList)
        PROVE  t \notin DOMAIN frames.images
                   <=> \A i \in Items : TopicList[i] = t => i \in call.failed
    <3>1. LiveOK(call)
      BY <2>1, <2>2 DEF LoaderInv
    <3>2. ToSet(call.queue) = {}
      BY <2>1, <3>1 DEF LiveOK, ToSet
    <3>3. DOMAIN frames.images = {TopicList[i] : i \in Items \ call.failed}
      BY <2>1, <3>1, <3>2 DEF LiveOK, Kept, Answered, TopicsOf
    <3> QED
      BY <3>3
  <2> QED
    BY <2>1, <2>2 DEF CallOK, Shows
<1> QED
  BY <1>1, FrameLoaderSafe, PTL

\* A superseded call asks for nothing more, and no call has more requests under
\* way than MAX_CONCURRENT (useMcapFrames.ts, runWithConcurrency).
THEOREM FrameLoaderStaleCalls == LoaderSpec => StaleCallsStartNothing
<1>1. LoaderInv /\ [LoaderNext]_loaderVars => [StaleStep]_loaderVars
  BY LoaderStep
<1>2. LoaderSpec => [][StaleStep]_loaderVars
  BY <1>1, FrameLoaderSafe, PTL DEF LoaderSpec
<1> QED
  BY <1>2 DEF StaleCallsStartNothing, StaleStep

-----------------------------------------------------------------------------
(* The choice of a frame                                                   *)

\* A file of Files has the shape of one.
LEMMA FileShape ==
    ASSUME file \in Files
    PROVE  /\ file.channels \in Seq([topic : Topics, schema : Schemas])
           /\ file.messages \in Seq([channel : Nat, time : Nat, body : Bodies])
           /\ Len(file.messages) \in Nat
           /\ Messages = 1 .. Len(file.messages)
<1>1. file \in FileType
  BY McapFileAssumption DEF McapFileAssumption
<1>2. file.messages \in Seq([channel : Nat, time : Nat, body : Bodies])
  BY <1>1 DEF FileType
<1>. QED  BY <1>1, <1>2 DEF FileType, Messages

\* What a sequence is a sequence of.
LEMMA Element ==
    ASSUME NEW S, NEW s \in Seq(S), NEW i \in 1 .. Len(s)
    PROVE  s[i] \in S
OBVIOUS

\* The messages of a file have times, so distances are natural numbers.
LEMMA DistanceType ==
    ASSUME TypeOK, NEW i \in 1 .. Len(file.messages)
    PROVE  Distance(i) \in Nat
<1>0. file.messages[i] \in [channel : Nat, time : Nat, body : Bodies]
  BY FileShape, Element DEF TypeOK
<1>1. file.messages[i].time \in Nat /\ target \in Int
  BY <1>0 DEF TypeOK
<1>. QED  BY <1>1 DEF Distance

\* While a file is scanned for one target, nothing said of a message changes.
LEMMA Unmoved ==
    ASSUME UNCHANGED <<file, topic, target>>
    PROVE  /\ \A i : Distance(i)' = Distance(i)
           /\ \A i : Candidate(i)' <=> Candidate(i)
           /\ \A i : Corrupt(i)' <=> Corrupt(i)
           /\ \A t : Found(t)' <=> Found(t)
BY DEF Distance, Candidate, Corrupt, Found, ChannelOf

\* The types are kept by every step.
LEMMA TypeStep ==
    ASSUME TypeOK, [Next]_vars
    PROVE  TypeOK'
<1>. USE FrameAssumption DEF TypeOK, FrameAssumption
<1>0. Len(file.messages) \in Nat
  BY FileShape
<1>1. ASSUME NEW t \in Topics, NEW ts \in Timestamps, GetFrame(t, ts) PROVE TypeOK'
  <2>0. \A i \in 1 .. Len(file.messages) : file.messages[i].time \in Nat
    <3>1. \A i \in 1 .. Len(file.messages) :
            file.messages[i] \in [channel : Nat, time : Nat, body : Bodies]
      BY FileShape, Element
    <3>. QED  BY <3>1
  <2>1. StartTime(file) \in Int /\ EndTime(file) \in Int
    <3>1. file.messages # <<>> => Len(file.messages) >= 1
      BY FileShape
    <3>2. file.messages # <<>> => /\ file.messages[1].time \in Nat
                                  /\ file.messages[Len(file.messages)].time \in Nat
      BY <1>0, <2>0, <3>1
    <3>. QED  BY <3>2 DEF StartTime, EndTime
  <2>2. TargetTime(ts) \in Int
    <3>1. ts \in Int /\ ts + StartTime(file) \in Int
      BY <2>1
    <3>. QED  BY <2>1, <3>1 DEF TargetTime, HasTimeRange
  <2>. QED  BY <1>0, <1>1, <2>2 DEF GetFrame
<1>2. CASE Skip  BY <1>0, <1>2 DEF Skip, HasNext
<1>3. CASE NotCloser  BY <1>0, <1>3 DEF NotCloser, HasNext, BreakIfNear
<1>4. CASE Decode  BY <1>0, <1>4 DEF Decode, HasNext, BreakIfNear, ImageOf
<1>5. CASE DecodeRaises  BY <1>0, <1>5 DEF DecodeRaises, HasNext
<1>6. CASE EndOfFile  BY <1>6 DEF EndOfFile
<1>7. CASE ReadFails  BY <1>7 DEF ReadFails
<1>8. CASE Respond  BY <1>8 DEF Respond
<1>9. CASE UNCHANGED vars  BY <1>9 DEF vars
<1>. QED  BY <1>1, <1>2, <1>3, <1>4, <1>5, <1>6, <1>7, <1>8, <1>9 DEF Next

\* Every step keeps the invariant.
LEMMA ScanStep ==
    ASSUME ScanInv, [Next]_vars
    PROVE  ScanInv'
<1>. USE FrameAssumption DEF FrameAssumption
<1>0. TypeOK /\ TypeOK'
  BY TypeStep DEF ScanInv
<1>1. \A i \in 1 .. Len(file.messages) : Distance(i) \in Nat
  BY <1>0, DistanceType
<1>2. 1 <= next /\ next \in Nat /\ best \in Nat /\ frame \in Nat /\ Len(file.messages) \in Nat
      /\ next <= Len(file.messages) + 1 /\ Messages = 1 .. Len(file.messages)
  BY <1>0, FileShape DEF TypeOK
<1>3. ASSUME NEW t \in Topics, NEW ts \in Timestamps, GetFrame(t, ts) PROVE ScanInv'
  <2>1. Found(t)' <=> Found(t)
    BY <1>3 DEF GetFrame, Found
  <2>. QED  BY <1>0, <1>3, <2>1 DEF GetFrame, ScanInv, Answering, NearestOrFirstNear
<1>4. CASE Skip
  BY <1>0, <1>2, <1>4, Unmoved DEF Skip, HasNext, ScanInv, Answering, NearestOrFirstNear
<1>5. CASE NotCloser
  <2>1. /\ UNCHANGED <<file, topic, target, best, frame>>
        /\ next' = next + 1
        /\ pc = "scan"
        /\ best # 0
        /\ Distance(best) <= Distance(next)
        /\ next \in Messages
        /\ Candidate(best)
        /\ pc' = IF Distance(best) < Tolerance THEN "done" ELSE "scan"
    BY <1>1, <1>2, <1>5 DEF NotCloser, HasNext, BreakIfNear, IsCloser, ScanInv, Answering
  <2>. QED  BY <1>0, <1>1, <1>2, <2>1, Unmoved
            DEF ScanInv, Answering, NearestOrFirstNear, Messages
<1>6. CASE Decode
  <2>1. /\ UNCHANGED <<file, topic, target>>
        /\ next' = next + 1
        /\ pc = "scan"
        /\ best' = next
        /\ next \in Messages
        /\ Candidate(next)
        /\ ~Corrupt(next)
        /\ frame' = IF file.messages[next].body = "image" THEN next ELSE 0
        /\ best # 0 => Distance(next) < Distance(best)
        /\ pc' = IF Distance(next) < Tolerance THEN "done" ELSE "scan"
    BY <1>2, <1>6 DEF Decode, HasNext, BreakIfNear, IsCloser, ImageOf
  <2>2. \A i \in 1 .. next : Candidate(i) => Distance(next) <= Distance(i)
    BY <1>1, <1>2, <2>1 DEF ScanInv, Answering
  <2>3. \A i \in 1 .. next - 1 : Candidate(i) /\ ~Corrupt(i) => Distance(i) >= Tolerance
    BY <2>1 DEF ScanInv
  <2>4. NearestOrFirstNear'
    BY <1>0, <1>1, <1>2, <2>1, <2>2, <2>3, Unmoved DEF NearestOrFirstNear
  <2>5. (Answering => /\ best < next
                      /\ best = 0 => frame = 0
                      /\ best # 0 => Candidate(best)
                      /\ frame # best =>
                           \/ frame = 0 /\ (Corrupt(best) \/ file.messages[best].body # "image")
                           \/ Corrupt(best) /\ frame < best /\ Distance(frame) > Distance(best))'
    BY <1>0, <1>1, <1>2, <2>1, Unmoved DEF ScanInv, Answering
  <2>6. (pc = "scan" => \A i \in 1 .. next - 1 : Candidate(i) =>
             /\ best # 0 /\ Distance(best) <= Distance(i)
             /\ ~Corrupt(i) => Distance(i) >= Tolerance)'
    BY <1>0, <1>1, <1>2, <2>1, <2>2, <2>3, Unmoved
  <2>. QED  BY <1>0, <2>4, <2>5, <2>6 DEF ScanInv
<1>7. CASE DecodeRaises
  <2>1. /\ UNCHANGED <<file, pc, topic, target, frame>>
        /\ next' = next + 1
        /\ pc = "scan"
        /\ best' = next
        /\ next \in Messages
        /\ Candidate(next)
        /\ Corrupt(next)
        /\ best # 0 => Distance(next) < Distance(best)
    BY <1>2, <1>7 DEF DecodeRaises, HasNext, IsCloser
  <2>2. \A i \in 1 .. next : Candidate(i) => Distance(next) <= Distance(i)
    BY <1>1, <1>2, <2>1 DEF ScanInv, Answering
  <2>3. \A i \in 1 .. next - 1 : Candidate(i) /\ ~Corrupt(i) => Distance(i) >= Tolerance
    BY <2>1 DEF ScanInv
  <2>4. NearestOrFirstNear'
    BY <1>0, <1>1, <1>2, <2>1, <2>2, <2>3, Unmoved DEF NearestOrFirstNear
  <2>5. (Answering => /\ best < next
                      /\ best = 0 => frame = 0
                      /\ best # 0 => Candidate(best)
                      /\ frame # best =>
                           \/ frame = 0 /\ (Corrupt(best) \/ file.messages[best].body # "image")
                           \/ Corrupt(best) /\ frame < best /\ Distance(frame) > Distance(best))'
    BY <1>0, <1>1, <1>2, <2>1, Unmoved DEF ScanInv, Answering
  <2>6. (pc = "scan" => \A i \in 1 .. next - 1 : Candidate(i) =>
             /\ best # 0 /\ Distance(best) <= Distance(i)
             /\ ~Corrupt(i) => Distance(i) >= Tolerance)'
    BY <1>0, <1>1, <1>2, <2>1, <2>2, <2>3, Unmoved
  <2>. QED  BY <1>0, <2>4, <2>5, <2>6 DEF ScanInv
<1>8. CASE EndOfFile
  <2>1. UNCHANGED <<file, topic, target, next, best, frame>> /\ pc = "scan"
        /\ pc' = "done" /\ next = Len(file.messages) + 1
    BY <1>2, <1>8 DEF EndOfFile
  <2>2. \A i \in Messages : Candidate(i) => best # 0 /\ Distance(best) <= Distance(i)
    BY <1>2, <2>1 DEF ScanInv
  <2>. QED  BY <1>0, <2>1, <2>2, Unmoved
            DEF ScanInv, Answering, NearestOrFirstNear, Messages
<1>9. CASE ReadFails \/ Respond
  <2>1. pc' \in {"failed", "idle"}
    BY <1>9 DEF ReadFails, Respond
  <2>. QED  BY <1>0, <2>1 DEF ScanInv, Answering, NearestOrFirstNear
<1>10. CASE UNCHANGED vars
  BY <1>0, <1>10, Unmoved DEF vars, ScanInv, Answering, NearestOrFirstNear, Messages
<1>. QED  BY <1>3, <1>4, <1>5, <1>6, <1>7, <1>8, <1>9, <1>10 DEF Next

\* Nothing has been scanned.
LEMMA ScanInit == Init => ScanInv
<1>1. ASSUME Init PROVE Len(file.messages) \in Nat
  BY FileShape DEF Init
<1>. QED  BY <1>1 DEF Init, ScanInv, TypeOK, Answering, NearestOrFirstNear

\* The scan, in full: where it stands, nothing before it was overlooked.
THEOREM FrameExtractorScan == Spec => []ScanInv
BY ScanInit, ScanStep, PTL DEF Spec

\* The scan stays within the file's messages.
THEOREM FrameExtractorTypeOK == Spec => []TypeOK
<1>1. ScanInv => TypeOK
  BY DEF ScanInv
<1>. QED  BY <1>1, FrameExtractorScan, PTL

\* extract_frame settles on the nearest message or the first near one.
THEOREM FrameExtractorNearest == Spec => []NearestOrFirstNear
<1>1. ScanInv => NearestOrFirstNear
  BY DEF ScanInv
<1>. QED  BY <1>1, FrameExtractorScan, PTL

\* Image and timestamp of an answer belong together, corrupt messages apart.
THEOREM FrameExtractorImage == Spec => []ImageMatchesTimestamp
<1>1. ScanInv => ImageMatchesTimestamp
  BY DEF ScanInv, Answering, ImageMatchesTimestamp
<1>. QED  BY <1>1, FrameExtractorScan, PTL

-----------------------------------------------------------------------------
(* Division and rounding                                                   *)

\* A greater factor makes at least one more summand.
LEMMA Times ==
  ASSUME NEW m \in Int, NEW n \in Int, m < n, NEW b \in Nat
  PROVE  b * m + b <= b * n
<1>1. PICK d \in Nat : n = m + 1 + d
  <2>1. n - m - 1 \in Nat /\ n = m + 1 + (n - m - 1)
    OBVIOUS
  <2> QED
    BY <2>1
<1>2. b * n = b * m + b + b * d
  BY <1>1, SMTT(30)
<1>3. b * d >= 0 /\ b * d \in Int /\ b * m \in Int
  BY <1>1, SMTT(30)
<1> QED
  BY <1>2, <1>3

\* The quotient, by what it is.
LEMMA Quotient ==
  ASSUME NEW a \in Nat, NEW b \in Nat \ {0}
  PROVE  /\ a \div b \in Nat
         /\ b * (a \div b) <= a
         /\ a < b * (a \div b) + b
<1>1. PICK q : q = a \div b
  OBVIOUS
<1>2. q \in Int /\ b * q <= a /\ a < b * q + b
  BY <1>1, SMTT(30)
<1>3. q >= 0
  <2> SUFFICES ASSUME q < 0 PROVE FALSE
    BY <1>2
  <2>1. b * q + b <= b * 0
    BY <1>2, Times
  <2> QED
    BY <1>2, <2>1
<1> QED
  BY <1>1, <1>2, <1>3

\* A quotient is below what its dividend is below.
LEMMA QuotientBelow ==
  ASSUME NEW a \in Nat, NEW b \in Nat \ {0}, NEW q \in Int, a < b * q
  PROVE  a \div b < q
<1>1. PICK d : d = a \div b
  OBVIOUS
<1>2. d \in Nat /\ b * d <= a
  BY <1>1, Quotient
<1>3. b * d \in Int /\ b * q \in Int
  BY <1>2
<1> SUFFICES ASSUME q <= d PROVE FALSE
  BY <1>1, <1>2
<1>4. b * q <= b * d
  <2>1. CASE q = d
    BY <2>1, <1>3
  <2>2. CASE q < d
    <3>1. b * q + b <= b * d
      BY <1>2, <2>2, Times
    <3> QED
      BY <1>3, <3>1
  <2> QED
    BY <1>2, <2>1, <2>2
<1> QED
  BY <1>2, <1>3, <1>4

\* It is no less than what its dividend is no less than.
LEMMA QuotientAtLeast ==
  ASSUME NEW a \in Nat, NEW b \in Nat \ {0}, NEW q \in Int, b * q <= a
  PROVE  q <= a \div b
<1>1. PICK d : d = a \div b
  OBVIOUS
<1>2. d \in Nat /\ a < b * d + b
  BY <1>1, Quotient
<1>3. b * d \in Int /\ b * q \in Int
  BY <1>2
<1> SUFFICES ASSUME d < q PROVE FALSE
  BY <1>1, <1>2
<1>4. b * d + b <= b * q
  BY <1>2, Times
<1> QED
  BY <1>2, <1>3, <1>4

\* RoundDiv, a quotient rounded to the nearest, likewise.
LEMMA Rounded ==
  ASSUME NEW a \in Nat, NEW b \in Nat \ {0}
  PROVE  /\ RoundDiv(a, b) \in Nat
         /\ \A q \in Int : 2 * a + b < 2 * (b * q) => RoundDiv(a, b) < q
         /\ \A q \in Int : 2 * (b * q) <= 2 * a + b => q <= RoundDiv(a, b)
<1>1. 2 * a + b \in Nat /\ 2 * b \in Nat \ {0}
  OBVIOUS
<1>2. RoundDiv(a, b) = (2 * a + b) \div (2 * b)
  BY DEF RoundDiv
<1>3. RoundDiv(a, b) \in Nat
  BY <1>1, <1>2, Quotient
<1>4. ASSUME NEW q \in Int PROVE (2 * b) * q = 2 * (b * q)
  BY SMTT(30)
<1>5. ASSUME NEW q \in Int, 2 * a + b < 2 * (b * q) PROVE RoundDiv(a, b) < q
  <2>1. 2 * a + b < (2 * b) * q
    BY <1>4, <1>5
  <2> QED
    BY <1>1, <1>2, <2>1, QuotientBelow
<1>6. ASSUME NEW q \in Int, 2 * (b * q) <= 2 * a + b PROVE q <= RoundDiv(a, b)
  <2>1. (2 * b) * q <= 2 * a + b
    BY <1>4, <1>6
  <2> QED
    BY <1>1, <1>2, <2>1, QuotientAtLeast
<1> QED
  BY <1>3, <1>5, <1>6

\* A mean of scores: at most full, full if all are, and if one point in ten is
\* lost in one of few, two ten-thousandths less.
LEMMA MeanScore ==
  ASSUME NEW n \in Nat \ {0}, NEW a \in Nat, a <= Unit * n
  PROVE  /\ RoundDiv(a, n) \in 0 .. Unit
         /\ a = Unit * n => RoundDiv(a, n) = Unit
         /\ 2 * a + 3 * n < 2 * Unit * n => RoundDiv(a, n) <= Unit - 2
<1> USE DEF Unit
<1>1. n * (Unit + 1) = Unit * n + n /\ n * Unit = Unit * n /\ n * (Unit - 1) = Unit * n - n
  BY SMTT(30)
<1>2. PICK r \in Nat : r = RoundDiv(a, n)
  BY Rounded
<1>3. r <= Unit
  <2>1. 2 * a + n < 2 * (n * (Unit + 1))
    BY <1>1
  <2>2. Unit + 1 \in Int
    OBVIOUS
  <2>3. r < Unit + 1
    BY <1>2, <2>1, <2>2, Rounded
  <2> QED
    BY <2>3
<1>4. a = Unit * n => Unit <= r
  <2> SUFFICES ASSUME a = Unit * n PROVE Unit <= r
    OBVIOUS
  <2>1. 2 * (n * Unit) <= 2 * a + n
    BY <1>1
  <2>2. Unit \in Int
    OBVIOUS
  <2> QED
    BY <1>2, <2>1, <2>2, Rounded
<1>5. 2 * a + 3 * n < 2 * Unit * n => r <= Unit - 2
  <2> SUFFICES ASSUME 2 * a + 3 * n < 2 * Unit * n PROVE r <= Unit - 2
    OBVIOUS
  <2>1. 2 * a + n < 2 * (n * (Unit - 1))
    BY <1>1
  <2>2. Unit - 1 \in Int
    OBVIOUS
  <2>3. r < Unit - 1
    BY <1>2, <2>1, <2>2, Rounded
  <2> QED
    BY <2>3
<1>6. r \in 0 .. Unit /\ (a = Unit * n => r = Unit)
  BY <1>3, <1>4
<1> QED
  BY <1>2, <1>5, <1>6

-----------------------------------------------------------------------------
(* The score of the rates                                                  *)

\* What the scorer is given: a listing with rates, of a project's schema.
Rates ==
    /\ schema \in ProjectSchemas
    /\ IsFiniteSet(DOMAIN stats)
    /\ \A t \in DOMAIN stats : stats[t].rate \in Nat

LEMMA RatedTopics ==
  ASSUME Rates
  PROVE  /\ IsFiniteSet(Rated)
         /\ Cardinality(Rated) \in Nat
         /\ \A t \in Rated : stats[t].rate \in Nat /\ Expected[t] \in Nat \ {0}
<1>1. Rated \subseteq DOMAIN stats
  BY DEF Rated
<1>2. IsFiniteSet(Rated) /\ Cardinality(Rated) \in Nat
  BY <1>1, FS_Subset, FS_CardinalityType DEF Rates
<1>3. ASSUME NEW t \in Rated PROVE Expected[t] \in Nat \ {0}
  <2>1. t \in DOMAIN schema.expected /\ Expected[t] > 0
    BY DEF Rated, Expected
  <2>2. schema.expected[t] \in Int
    BY <2>1, QualityAssumption DEF Rates, QualityAssumption
  <2> QED
    BY <2>1, <2>2 DEF Expected
<1> QED
  BY <1>1, <1>2, <1>3 DEF Rates

\* A topic that does not pass loses at least a tenth, and no more than all.
LEMMA Penalty ==
  ASSUME NEW e \in Nat \ {0}, NEW off \in Nat, e <= 10 * off, off < e
  PROVE  RoundDiv(Unit * off, e) \in 1000 .. Unit
<1> USE DEF Unit
<1>1. Unit * off \in Nat
  OBVIOUS
<1>2. e * 1000 = 1000 * e /\ e * (Unit + 1) = Unit * e + e
  BY SMTT(30)
<1>3. PICK r \in Nat : r = RoundDiv(Unit * off, e)
  BY <1>1, Rounded
<1>4. 1000 <= r
  <2>1. 2 * (e * 1000) <= 2 * (Unit * off) + e
    BY <1>2
  <2>2. 1000 \in Int
    OBVIOUS
  <2> QED
    BY <1>1, <1>3, <2>1, <2>2, Rounded
<1>5. r <= Unit
  <2>1. 2 * (Unit * off) + e < 2 * (e * (Unit + 1))
    BY <1>2
  <2>2. Unit + 1 \in Int
    OBVIOUS
  <2>3. r < Unit + 1
    BY <1>1, <1>3, <2>1, <2>2, Rounded
  <2> QED
    BY <2>3
<1>6. r \in 1000 .. Unit
  BY <1>4, <1>5
<1> QED
  BY <1>3, <1>6

LEMMA AfterPenalty ==
  ASSUME NEW r \in 1000 .. Unit
  PROVE  Unit - r \in 0 .. Unit /\ Unit - r <= Unit - 1000
<1>1. Unit - r \in 0 .. Unit
  BY DEF Unit
<1>2. Unit - r <= Unit - 1000
  BY DEF Unit
<1> QED
  BY <1>1, <1>2

LEMMA FullOrNothing == Unit \in 0 .. Unit /\ 0 \in 0 .. Unit /\ 0 <= Unit - 1000
BY DEF Unit

\* What the scorer takes for the expected rate.
FullRate(t) == RateScore(t) = Unit

LEMMA ScoreOfRate ==
  ASSUME NEW t, stats[t].rate \in Nat, Expected[t] \in Nat \ {0}
  PROVE  /\ RateScore(t) \in 0 .. Unit
         /\ RateScore(t) # Unit => RateScore(t) <= Unit - 1000
<1>1. PICK e \in Nat \ {0} : e = Expected[t]
  OBVIOUS
<1>2. PICK off \in Nat : off = IF stats[t].rate > e THEN stats[t].rate - e ELSE e - stats[t].rate
  OBVIOUS
<1>7. PICK pass \in BOOLEAN : pass <=> 10 * off < e \/ (10 * off = e /\ <<stats[t].rate, e>> \in BorderPasses)
  OBVIOUS
<1>3. RateScore(t) = IF pass THEN Unit
                     ELSE IF off >= e THEN 0 ELSE Unit - RoundDiv(Unit * off, e)
  BY <1>1, <1>2, <1>7 DEF RateScore
<1>4. CASE pass
  <2>1. RateScore(t) = Unit
    BY <1>3, <1>4
  <2> QED
    BY <2>1, FullOrNothing
<1>5. CASE ~pass /\ off >= e
  <2>1. RateScore(t) = 0
    BY <1>3, <1>5
  <2> QED
    BY <2>1, FullOrNothing
<1>6. CASE ~pass /\ ~(off >= e)
  <2>1. RateScore(t) = Unit - RoundDiv(Unit * off, e)
    BY <1>3, <1>6
  <2>2. e <= 10 * off /\ off < e
    BY <1>6, <1>7
  <2>3. RoundDiv(Unit * off, e) \in 1000 .. Unit
    BY <2>2, Penalty
  <2>4. /\ Unit - RoundDiv(Unit * off, e) \in 0 .. Unit
        /\ Unit - RoundDiv(Unit * off, e) <= Unit - 1000
    BY <2>3, AfterPenalty
  <2> QED
    BY <2>1, <2>4
<1> QED
  BY <1>4, <1>5, <1>6

\* The tolerance: near the rate a topic passes, far from it it does not.
LEMMA RateIsTold ==
  ASSUME NEW t, stats[t].rate \in Nat, Expected[t] \in Nat \ {0}
  PROVE  (NearRate(t) => FullRate(t)) /\ (FullRate(t) => ~FarRate(t))
<1>1. PICK e \in Nat \ {0} : e = Expected[t]
  OBVIOUS
<1>2. PICK x \in Nat : x = stats[t].rate
  OBVIOUS
<1>3. PICK off \in Nat : off = IF x > e THEN x - e ELSE e - x
  <2>1. CASE x > e
    BY <2>1
  <2>2. CASE ~(x > e)
    BY <2>2
  <2> QED
    BY <2>1, <2>2
<1>4. RateScore(t) = IF 10 * off < e \/ (10 * off = e /\ <<x, e>> \in BorderPasses) THEN Unit
                     ELSE IF off >= e THEN 0 ELSE Unit - RoundDiv(Unit * off, e)
  BY <1>1, <1>2, <1>3 DEF RateScore
<1>5. ASSUME NearRate(t) PROVE FullRate(t)
  <2>1. 9 * e < 10 * x /\ 10 * x < 11 * e
    BY <1>1, <1>2, <1>5 DEF NearRate
  <2>2. 10 * off < e
    BY <1>3, <2>1
  <2> QED
    BY <1>4, <2>2 DEF FullRate
<1>6. ASSUME FarRate(t) PROVE ~FullRate(t)
  <2>1. 10 * x < 9 * e \/ 11 * e < 10 * x
    BY <1>1, <1>2, <1>6 DEF FarRate
  <2>2. e < 10 * off
    BY <1>3, <2>1
  <2>3. RateScore(t) = IF off >= e THEN 0 ELSE Unit - RoundDiv(Unit * off, e)
    BY <1>4, <2>2
  <2>4. CASE off >= e
    BY <2>3, <2>4 DEF FullRate, Unit
  <2>5. CASE ~(off >= e)
    <3>1. PICK loss \in 1000 .. Unit : loss = RoundDiv(Unit * off, e)
      BY <2>2, <2>5, Penalty
    <3>2. RateScore(t) = Unit - loss
      BY <2>3, <2>5, <3>1
    <3>3. Unit - loss # Unit
      <4>1. PICK rest \in 0 .. Unit : rest = Unit - loss
        BY AfterPenalty
      <4>2. rest <= Unit - 1000
        BY <4>1, AfterPenalty
      <4>3. rest # Unit
        BY <4>2 DEF Unit
      <4> QED
        BY <4>1, <4>3
    <3> QED
      BY <3>2, <3>3 DEF FullRate
  <2> QED
    BY <2>4, <2>5
<1> QED
  BY <1>5, <1>6

\* h is the fold of MapThenSumSet over the scores of the rated topics.
Chosen(s) == CHOOSE t \in s : TRUE
AddsUp(h) ==
    h = [s \in SUBSET Rated |-> IF s = {} THEN 0 ELSE RateScore(Chosen(s)) + h[s \ {Chosen(s)}]]

LEMMA SumIsFold ==
  MapThenSumSet(RateScore, Rated) = (CHOOSE h : AddsUp(h))[Rated]
BY DEF MapThenSumSet, MapThenFoldSet, AddsUp, Chosen


\* What is chosen of a set of rated topics, and what remains.
LEMMA ChosenOne ==
  ASSUME Rates, NEW s \in SUBSET Rated, s # {}
  PROVE  /\ Chosen(s) \in s
         /\ s \ {Chosen(s)} \in SUBSET Rated
         /\ IsFiniteSet(s)
         /\ Cardinality(s) \in Nat \ {0}
         /\ Cardinality(s \ {Chosen(s)}) = Cardinality(s) - 1
<1>1. Chosen(s) \in s
  BY DEF Chosen
<1>2. IsFiniteSet(s) /\ Cardinality(s) \in Nat
  BY RatedTopics, FS_Subset, FS_CardinalityType
<1>3. Cardinality(s) # 0
  BY <1>2, FS_EmptySet
<1>4. Cardinality(s \ {Chosen(s)}) = Cardinality(s) - 1
  BY <1>1, <1>2, FS_RemoveElement
<1> QED
  BY <1>1, <1>2, <1>3, <1>4

\* Each topic with the points it scores, one by one: their number is the sum,
\* so there is a function that adds up.
Points(s) == {p \in s \X (1 .. Unit) : p[2] <= RateScore(p[1])}

LEMMA OnePoint ==
  ASSUME NEW v \in 0 .. Unit, NEW k
  PROVE  k \in 1 .. v <=> k \in 1 .. Unit /\ k <= v
<1>1. v \in Nat /\ v <= Unit /\ Unit \in Nat
  BY DEF Unit
<1>2. ASSUME NEW j \in 1 .. v PROVE j \in 1 .. Unit /\ j <= v
  <2>1. j \in Int /\ 1 <= j /\ j <= v
    BY <1>1
  <2>2. j <= Unit
    BY <1>1, <2>1
  <2> QED
    BY <1>1, <2>1, <2>2
<1>3. ASSUME NEW j \in 1 .. Unit, j <= v PROVE j \in 1 .. v
  BY <1>1, <1>3
<1> QED
  BY <1>2, <1>3

LEMMA PointsOfTopic ==
  ASSUME NEW t, RateScore(t) \in 0 .. Unit
  PROVE  IsFiniteSet({t} \X (1 .. RateScore(t))) /\ Cardinality({t} \X (1 .. RateScore(t))) = RateScore(t)
<1>1. PICK n \in 0 .. Unit : n = RateScore(t)
  OBVIOUS
<1>2. n \in Nat /\ 1 \in Int
  BY DEF Unit
<1>3. IsFiniteSet(1 .. n) /\ Cardinality(1 .. n) = n
  BY <1>2, FS_Interval
<1>4. IsFiniteSet({t}) /\ Cardinality({t}) = 1
  BY FS_Singleton
<1>5. IsFiniteSet({t} \X (1 .. n)) /\ Cardinality({t} \X (1 .. n)) = 1 * n
  BY <1>3, <1>4, FS_Product
<1>6. 1 * n = n
  BY <1>2
<1> QED
  BY <1>1, <1>5, <1>6

LEMMA SumExists ==
  ASSUME Rates
  PROVE  \E h : AddsUp(h)
<1> DEFINE h == [s \in SUBSET Rated |-> Cardinality(Points(s))]
<1>1. IsFiniteSet(1 .. Unit)
  <2>1. 1 \in Int /\ Unit \in Int
    BY DEF Unit
  <2> QED
    BY <2>1, FS_Interval
<1>2. \A s \in SUBSET Rated : IsFiniteSet(Points(s)) /\ Cardinality(Points(s)) \in Nat
  <2> SUFFICES ASSUME NEW s \in SUBSET Rated
               PROVE  IsFiniteSet(Points(s)) /\ Cardinality(Points(s)) \in Nat
    OBVIOUS
  <2>1. IsFiniteSet(s)
    BY RatedTopics, FS_Subset
  <2>2. IsFiniteSet(s \X (1 .. Unit))
    BY <1>1, <2>1, FS_Product
  <2>3. Points(s) \subseteq s \X (1 .. Unit)
    BY DEF Points
  <2>4. IsFiniteSet(Points(s))
    BY <2>2, <2>3, FS_Subset
  <2> QED
    BY <2>4, FS_CardinalityType
<1>3. h[{}] = 0
  <2>1. Points({}) = {}
    BY DEF Points
  <2> QED
    BY <2>1, FS_EmptySet
<1>4. ASSUME NEW s \in SUBSET Rated, s # {}
      PROVE  h[s] = RateScore(Chosen(s)) + h[s \ {Chosen(s)}]
  <2>1. PICK t : t = Chosen(s)
    OBVIOUS
  <2>2. PICK r : r = s \ {t}
    OBVIOUS
  <2>3. t \in s /\ r \in SUBSET Rated /\ s = r \cup {t} /\ t \notin r
    BY <1>4, <2>1, <2>2, ChosenOne
  <2>4. PICK v \in 0 .. Unit : v = RateScore(t)
    BY <2>3, RatedTopics, ScoreOfRate
  <2>5. PICK P : P = {t} \X (1 .. RateScore(t))
    OBVIOUS
  <2>6. IsFiniteSet(P) /\ Cardinality(P) = RateScore(t)
    BY <2>4, <2>5, PointsOfTopic
  <2>7. Points(s) = Points(r) \cup P
    <3>1. ASSUME NEW p \in Points(s) PROVE p \in Points(r) \cup P
      <4>1. p \in s \X (1 .. Unit) /\ p[2] <= RateScore(p[1])
        BY DEF Points
      <4>2. CASE p[1] = t
        <5>1. p[2] \in 1 .. v
          <6>1. p[2] \in 1 .. Unit /\ p[2] <= v
            BY <2>4, <4>1, <4>2
          <6> QED
            BY <6>1, OnePoint
        <5>2. p = <<p[1], p[2]>>
          BY <4>1
        <5> QED
          BY <2>4, <2>5, <4>2, <5>1, <5>2
      <4>3. CASE p[1] # t
        <5>1. p \in r \X (1 .. Unit)
          BY <2>3, <4>1, <4>3
        <5> QED
          BY <4>1, <5>1 DEF Points
      <4> QED
        BY <4>2, <4>3
    <3>2. Points(r) \subseteq Points(s)
      BY <2>3 DEF Points
    <3>3. ASSUME NEW p \in P PROVE p \in Points(s)
      <4>1. PICK k \in 1 .. v : p = <<t, k>>
        BY <2>4, <2>5
      <4>2. k \in 1 .. Unit /\ k <= v
        BY OnePoint
      <4>3. p \in s \X (1 .. Unit)
        BY <2>3, <4>1, <4>2
      <4> QED
        BY <2>4, <4>1, <4>2, <4>3 DEF Points
    <3> QED
      BY <3>1, <3>2, <3>3
  <2>8. Points(r) \cap P = {}
    BY <2>3, <2>5 DEF Points
  <2>9. IsFiniteSet(Points(r)) /\ Cardinality(Points(r)) \in Nat
    BY <1>2, <2>3
  <2>10. Cardinality(Points(s)) = Cardinality(Points(r)) + Cardinality(P) - Cardinality(Points(r) \cap P)
    BY <2>6, <2>7, <2>9, FS_Union
  <2>11. Cardinality(Points(r) \cap P) = 0
    BY <2>8, FS_EmptySet
  <2>12. v \in Int
    BY DEF Unit
  <2>13. Cardinality(Points(s)) = RateScore(t) + Cardinality(Points(r))
    BY <2>4, <2>6, <2>9, <2>10, <2>11, <2>12
  <2>14. h[s] = Cardinality(Points(s)) /\ h[r] = Cardinality(Points(r))
    BY <1>4, <2>3
  <2> QED
    BY <2>1, <2>2, <2>13, <2>14
<1>5. h = [s \in SUBSET Rated |-> h[s]]
  OBVIOUS
<1> HIDE DEF h
<1>6. \A s \in SUBSET Rated :
        h[s] = IF s = {} THEN 0 ELSE RateScore(Chosen(s)) + h[s \ {Chosen(s)}]
  BY <1>3, <1>4
<1>7. AddsUp(h)
  BY <1>5, <1>6 DEF AddsUp
<1> QED
  BY <1>7

\* What the fold does, then, at each set of rated topics.
LEMMA SumAdds ==
  ASSUME Rates
  PROVE  \E h : /\ MapThenSumSet(RateScore, Rated) = h[Rated]
                /\ h[{}] = 0
                /\ \A s \in SUBSET Rated : s # {} =>
                      h[s] = RateScore(Chosen(s)) + h[s \ {Chosen(s)}]
<1>1. PICK h : h = CHOOSE g : AddsUp(g)
  OBVIOUS
<1>2. AddsUp(h)
  BY <1>1, SumExists
<1>3. \A s \in SUBSET Rated :
        h[s] = IF s = {} THEN 0 ELSE RateScore(Chosen(s)) + h[s \ {Chosen(s)}]
  BY <1>2 DEF AddsUp
<1>4. MapThenSumSet(RateScore, Rated) = h[Rated]
  BY <1>1, SumIsFold
<1> QED
  BY <1>3, <1>4

\* So the sum lies between nothing and full marks for all, is full if all are,
\* and lacks a tenth of a topic's marks if one is not.
Fair(x, s) ==
    /\ x \in Nat
    /\ x <= Unit * Cardinality(s)
    /\ (\A t \in s : FullRate(t)) => x = Unit * Cardinality(s)
    /\ (\E t \in s : ~FullRate(t)) => x <= Unit * Cardinality(s) - 1000

LEMMA FairStep ==
  ASSUME NEW n \in Nat, NEW v \in 0 .. Unit, v # Unit => v <= Unit - 1000, NEW x \in Nat,
         x <= Unit * n
  PROVE  /\ v + x \in Nat
         /\ v + x <= Unit * (n + 1)
         /\ v = Unit /\ x = Unit * n => v + x = Unit * (n + 1)
         /\ v # Unit \/ x <= Unit * n - 1000 => v + x <= Unit * (n + 1) - 1000
<1>1. v + x \in Nat
  BY DEF Unit
<1>2. v \in Nat /\ v <= Unit
  BY DEF Unit
<1>3. v + x <= Unit * (n + 1)
  BY <1>2 DEF Unit
<1>4. v = Unit /\ x = Unit * n => v + x = Unit * (n + 1)
  BY <1>2 DEF Unit
<1>5. v # Unit => v + x <= Unit * (n + 1) - 1000
  BY <1>2 DEF Unit
<1>6. x <= Unit * n - 1000 => v + x <= Unit * (n + 1) - 1000
  BY <1>2 DEF Unit
<1> QED
  BY <1>1, <1>3, <1>4, <1>5, <1>6

LEMMA SumIsFair ==
  ASSUME Rates
  PROVE  Fair(MapThenSumSet(RateScore, Rated), Rated)
<1>1. PICK h : /\ MapThenSumSet(RateScore, Rated) = h[Rated]
               /\ h[{}] = 0
               /\ \A s \in SUBSET Rated : s # {} =>
                     h[s] = RateScore(Chosen(s)) + h[s \ {Chosen(s)}]
  BY SumAdds
<1> DEFINE K == {n \in Nat : \A s \in SUBSET Rated : Cardinality(s) = n => Fair(h[s], s)}
<1>2. 0 \in K
  <2> SUFFICES ASSUME NEW s \in SUBSET Rated, Cardinality(s) = 0 PROVE Fair(h[s], s)
    OBVIOUS
  <2>1. s = {}
    BY RatedTopics, FS_Subset, FS_EmptySet
  <2>2. h[s] = 0 /\ Unit * Cardinality(s) = 0
    BY <1>1, <2>1 DEF Unit
  <2> QED
    BY <2>1, <2>2 DEF Fair
<1>3. ASSUME NEW n \in Nat, n \in K PROVE n + 1 \in K
  <2> SUFFICES ASSUME NEW s \in SUBSET Rated, Cardinality(s) = n + 1 PROVE Fair(h[s], s)
    OBVIOUS
  <2>1. s # {}
    BY FS_EmptySet
  <2>2. PICK t : t = Chosen(s)
    OBVIOUS
  <2>3. PICK r : r = s \ {t}
    OBVIOUS
  <2>4. t \in s /\ r \in SUBSET Rated /\ Cardinality(r) = n
    <3>1. Cardinality(r) = Cardinality(s) - 1
      BY <2>1, <2>2, <2>3, ChosenOne
    <3> QED
      BY <2>1, <2>2, <2>3, <3>1, ChosenOne
  <2>5. PICK v \in 0 .. Unit : v = RateScore(t) /\ (v # Unit => v <= Unit - 1000)
    BY <2>4, RatedTopics, ScoreOfRate
  <2>6. Fair(h[r], r)
    BY <1>3, <2>4
  <2>7. PICK x \in Nat : x = h[r]
    BY <2>6 DEF Fair
  <2>8. h[s] = v + x
    BY <1>1, <2>1, <2>2, <2>3, <2>5, <2>7
  <2>9. x <= Unit * n
    BY <2>4, <2>6, <2>7 DEF Fair
  <2>10. /\ v + x \in Nat
         /\ v + x <= Unit * (n + 1)
         /\ v = Unit /\ x = Unit * n => v + x = Unit * (n + 1)
         /\ v # Unit \/ x <= Unit * n - 1000 => v + x <= Unit * (n + 1) - 1000
    BY <2>5, <2>9, FairStep
  <2>11. (\A u \in s : FullRate(u)) => v = Unit /\ x = Unit * n
    BY <2>3, <2>4, <2>5, <2>6, <2>7 DEF Fair, FullRate
  <2>12. (\E u \in s : ~FullRate(u)) => v # Unit \/ x <= Unit * n - 1000
    BY <2>3, <2>4, <2>5, <2>6, <2>7 DEF Fair, FullRate
  <2> QED
    BY <2>8, <2>10, <2>11, <2>12 DEF Fair
<1>4. \A n \in Nat : n \in K
  <2> HIDE DEF K
  <2> QED
    BY <1>2, <1>3, SetInduction
<1>5. Cardinality(Rated) \in Nat
  BY RatedTopics
<1> QED
  BY <1>1, <1>4, <1>5

\* The mean of the rates' scores.
LEMMA FrameRateIsFair ==
  ASSUME Rates
  PROVE  /\ FrameRate \in 0 .. Unit
         /\ (\A t \in Rated : FullRate(t)) => FrameRate = Unit
         /\ Discerning /\ (\E t \in Rated : ~FullRate(t)) => FrameRate <= Unit - 2
<1>1. CASE Rated = {}
  <2>1. FrameRate = Unit
    BY <1>1 DEF FrameRate
  <2> QED
    BY <1>1, <2>1, FullOrNothing
<1>2. CASE Rated # {}
  <2>1. PICK n \in Nat \ {0} : n = Cardinality(Rated)
    BY <1>2, RatedTopics, FS_EmptySet
  <2>2. PICK a \in Nat : a = MapThenSumSet(RateScore, Rated)
    BY SumIsFair DEF Fair
  <2>3. Fair(a, Rated)
    BY <2>2, SumIsFair
  <2>4. FrameRate = RoundDiv(a, n)
    BY <1>2, <2>1, <2>2 DEF FrameRate
  <2>5. a <= Unit * n
    BY <2>1, <2>3 DEF Fair
  <2>6. /\ RoundDiv(a, n) \in 0 .. Unit
        /\ a = Unit * n => RoundDiv(a, n) = Unit
        /\ 2 * a + 3 * n < 2 * Unit * n => RoundDiv(a, n) <= Unit - 2
    BY <2>5, MeanScore
  <2>7. (\A t \in Rated : FullRate(t)) => a = Unit * n
    BY <2>1, <2>3 DEF Fair
  <2>8. ASSUME Discerning, \E t \in Rated : ~FullRate(t)
        PROVE  2 * a + 3 * n < 2 * Unit * n
    <3>1. a <= Unit * n - 1000
      BY <2>1, <2>3, <2>8 DEF Fair
    <3>2. 3 * n < 2000
      BY <2>1, <2>8 DEF Discerning
    <3> QED
      BY <3>1, <3>2 DEF Unit
  <2> QED
    BY <2>4, <2>6, <2>7, <2>8
<1> QED
  BY <1>1, <1>2

-----------------------------------------------------------------------------
(* The other scores, and the sample                                        *)

\* All that is required is listed, and required once.
AllPresent == ToSet(Required) \subseteq DOMAIN stats /\ IsInjective(Required)

LEMMA PresentTopics ==
  ASSUME Rates
  PROVE  \E k, n \in Nat :
           /\ k = Cardinality(ToSet(Required) \cap DOMAIN stats)
           /\ n = Len(Required)
           /\ k <= n
           /\ k = n <=> AllPresent
<1>1. PICK s : s = Required
  OBVIOUS
<1>2. s \in Seq(Topics)
  BY <1>1, QualityAssumption DEF Rates, QualityAssumption, Required
<1>3. PICK T : T = ToSet(s)
  OBVIOUS
<1>4. PICK P : P = T \cap DOMAIN stats
  OBVIOUS
<1>5. Len(s) \in Nat /\ DOMAIN s = 1 .. Len(s) /\ 1 \in Int /\ Len(s) \in Int
  BY <1>2, LenProperties
<1>6. IsFiniteSet(1 .. Len(s)) /\ Cardinality(1 .. Len(s)) = Len(s)
  <2>1. PICK n \in Nat : n = Len(s)
    BY <1>5
  <2>2. IsFiniteSet(1 .. n) /\ Cardinality(1 .. n) = IF 1 > n THEN 0 ELSE n - 1 + 1
    BY FS_Interval
  <2>3. Cardinality(1 .. n) = n
    BY <2>2
  <2> QED
    BY <2>1, <2>2, <2>3
<1>7. s \in Surjection(1 .. Len(s), T)
  BY <1>2, <1>3, <1>5 DEF Surjection, ToSet
<1>8. /\ IsFiniteSet(T)
      /\ Cardinality(T) <= Len(s)
      /\ Cardinality(T) = Len(s) <=> s \in Injection(1 .. Len(s), T)
  BY <1>6, <1>7, FS_Surjection
<1>9. s \in Injection(1 .. Len(s), T) <=> IsInjective(s)
  BY <1>7 DEF Surjection, Injection, IsInjective
<1>10. /\ IsFiniteSet(P)
       /\ Cardinality(P) <= Cardinality(T)
       /\ Cardinality(T) = Cardinality(P) => T = P
  BY <1>4, <1>8, FS_Subset
<1>11. Cardinality(P) \in Nat /\ Cardinality(T) \in Nat
  BY <1>8, <1>10, FS_CardinalityType
<1>12. Cardinality(P) <= Len(s)
  BY <1>5, <1>8, <1>10, <1>11
<1>13. ASSUME Cardinality(P) = Len(s) PROVE T \subseteq DOMAIN stats /\ IsInjective(s)
  <2>1. Cardinality(T) = Cardinality(P) /\ Cardinality(T) = Len(s)
    BY <1>5, <1>8, <1>10, <1>11, <1>13
  <2> QED
    BY <1>4, <1>8, <1>9, <1>10, <2>1
<1>14. ASSUME T \subseteq DOMAIN stats, IsInjective(s) PROVE Cardinality(P) = Len(s)
  <2>1. P = T
    BY <1>4, <1>14
  <2> QED
    BY <1>8, <1>9, <1>14, <2>1
<1>15. Cardinality(P) = Len(s) <=> AllPresent
  BY <1>1, <1>3, <1>13, <1>14 DEF AllPresent
<1> QED
  BY <1>1, <1>3, <1>4, <1>5, <1>11, <1>12, <1>15

LEMMA CompletenessIsFair ==
  ASSUME Rates
  PROVE  /\ Completeness \in 0 .. Unit
         /\ AllPresent => Completeness = Unit
         /\ Discerning /\ ~AllPresent => Completeness <= Unit - 2
<1>1. PICK k \in Nat, n \in Nat :
        /\ k = Cardinality(ToSet(Required) \cap DOMAIN stats)
        /\ n = Len(Required)
        /\ k <= n
        /\ k = n <=> AllPresent
  BY PresentTopics
<1>2. Required \in Seq(Topics)
  BY QualityAssumption DEF Rates, QualityAssumption, Required
<1>3. CASE Required = <<>>
  <2>1. n = 0
    BY <1>1, <1>3
  <2>2. AllPresent
    BY <1>1, <2>1
  <2>3. Completeness = Unit
    BY <1>3 DEF Completeness
  <2> QED
    BY <2>2, <2>3, FullOrNothing
<1>4. CASE Required # <<>>
  <2>1. n \in Nat \ {0}
    BY <1>1, <1>2, <1>4, EmptySeq
  <2>2. PICK a \in Nat : a = Unit * k
    BY DEF Unit
  <2>3. a <= Unit * n
    BY <1>1, <2>2 DEF Unit
  <2>4. Completeness = RoundDiv(a, n)
    BY <1>1, <1>4, <2>2 DEF Completeness
  <2>5. /\ RoundDiv(a, n) \in 0 .. Unit
        /\ a = Unit * n => RoundDiv(a, n) = Unit
        /\ 2 * a + 3 * n < 2 * Unit * n => RoundDiv(a, n) <= Unit - 2
    BY <2>1, <2>3, MeanScore
  <2>6. AllPresent => a = Unit * n
    BY <1>1, <2>2
  <2>7. ASSUME Discerning, ~AllPresent PROVE 2 * a + 3 * n < 2 * Unit * n
    <3>1. k <= n - 1
      BY <1>1, <2>7
    <3>2. 3 * n < 2 * Unit
      BY <1>1, <2>7 DEF Discerning
    <3> QED
      BY <2>2, <3>1, <3>2 DEF Unit
  <2> QED
    BY <2>4, <2>5, <2>6, <2>7
<1> QED
  BY <1>3, <1>4

\* The weighted sum is full exactly if no part lacks more than rounding lifts.
LEMMA TotalScore ==
  ASSUME NEW r \in 0 .. Unit, NEW c \in 0 .. Unit, NEW s \in 0 .. Unit
  PROVE  LET total == RoundDiv(4 * r + 4 * c + 2 * s, 10)
         IN  /\ total \in 0 .. Unit
             /\ r = Unit /\ c = Unit /\ s >= Unit - 2 => total = Unit
             /\ r <= Unit - 2 \/ c <= Unit - 2 \/ s < Unit - 2 => total # Unit
<1>1. /\ r \in Nat /\ c \in Nat /\ s \in Nat
      /\ r <= Unit /\ c <= Unit /\ s <= Unit
      /\ Unit \in Int /\ Unit + 1 \in Int
  BY DEF Unit
<1>2. PICK a \in Nat : a = 4 * r + 4 * c + 2 * s
  BY <1>1
<1>3. 10 \in Nat \ {0}
  OBVIOUS
<1>4. PICK t \in Nat : t = RoundDiv(a, 10)
  BY <1>3, Rounded
<1>5. t <= Unit
  <2>1. 2 * a + 10 < 2 * (10 * (Unit + 1))
    BY <1>1, <1>2 DEF Unit
  <2>2. t < Unit + 1
    BY <1>1, <1>3, <1>4, <2>1, Rounded
  <2> QED
    BY <1>1, <2>2
<1>6. r = Unit /\ c = Unit /\ s >= Unit - 2 => Unit <= t
  <2> SUFFICES ASSUME r = Unit, c = Unit, s >= Unit - 2 PROVE Unit <= t
    OBVIOUS
  <2>1. 2 * (10 * Unit) <= 2 * a + 10
    BY <1>1, <1>2 DEF Unit
  <2> QED
    BY <1>1, <1>3, <1>4, <2>1, Rounded
<1>7. r <= Unit - 2 \/ c <= Unit - 2 \/ s < Unit - 2 => t < Unit
  <2> SUFFICES ASSUME r <= Unit - 2 \/ c <= Unit - 2 \/ s < Unit - 2 PROVE t < Unit
    OBVIOUS
  <2>1. 2 * a + 10 < 2 * (10 * Unit)
    BY <1>1, <1>2 DEF Unit
  <2> QED
    BY <1>1, <1>3, <1>4, <2>1, Rounded
<1>8. t \in 0 .. Unit
  BY <1>1, <1>5
<1>9. r = Unit /\ c = Unit /\ s >= Unit - 2 => t = Unit
  BY <1>1, <1>5, <1>6
<1>10. r <= Unit - 2 \/ c <= Unit - 2 \/ s < Unit - 2 => t # Unit
  BY <1>1, <1>7
<1> QED
  BY <1>2, <1>4, <1>8, <1>9, <1>10

\* k + 1 places spread over the numbers from 0 to w.
LEMMA Spread ==
  ASSUME NEW k \in Nat \ {0}, NEW w \in Nat, NEW i \in 0 .. k
  PROVE  /\ (i * w) \div k \in 0 .. w
         /\ i = 0 => (i * w) \div k = 0
         /\ i = k => (i * w) \div k = w
         /\ \A j \in 0 .. k : i < j =>
              /\ (i * w) \div k <= (j * w) \div k
              /\ w >= k => (i * w) \div k < (j * w) \div k
<1>1. ASSUME NEW j \in 0 .. k
      PROVE  j * w \in Nat /\ j * w = w * j /\ j * w <= k * w
  <2>1. j \in Int /\ k \in Int /\ j * w = w * j /\ k * w = w * k /\ j * w \in Int
    BY SMTT(30)
  <2>2. w * 0 = 0
    OBVIOUS
  <2>3. 0 < j => w * 0 + w <= w * j
    BY <2>1, Times
  <2>4. j < k => w * j + w <= w * k
    BY <2>1, Times
  <2>5. j = 0 \/ 0 < j
    OBVIOUS
  <2>6. j = k \/ j < k
    OBVIOUS
  <2>7. 0 <= j * w
    BY <2>1, <2>2, <2>3, <2>5
  <2>8. w * k \in Int
    BY <2>1
  <2> QED
    BY <2>1, <2>4, <2>6, <2>7, <2>8
<1>2. PICK q \in Nat : q = (i * w) \div k
  BY <1>1, Quotient
<1>3. k * q <= i * w
  BY <1>1, <1>2, Quotient
<1>4. q <= w
  <2>1. k * (w + 1) = k * w + k /\ k * w \in Int
    BY SMTT(30)
  <2>2. i * w < k * (w + 1)
    BY <1>1, <2>1
  <2>3. w + 1 \in Int
    OBVIOUS
  <2>4. q < w + 1
    BY <1>1, <1>2, <2>2, <2>3, QuotientBelow
  <2> QED
    BY <2>4
<1>5. i = 0 => q = 0
  <2> SUFFICES ASSUME i = 0 PROVE q = 0
    OBVIOUS
  <2>1. i * w = 0 /\ k * 1 = k
    OBVIOUS
  <2>2. i * w < k * 1 /\ 1 \in Int
    BY <2>1
  <2>3. q < 1
    BY <1>1, <1>2, <2>2, QuotientBelow
  <2> QED
    BY <2>3
<1>6. i = k => q = w
  <2> SUFFICES ASSUME i = k PROVE q = w
    OBVIOUS
  <2>1. k * w <= i * w
    BY <1>1
  <2>2. w <= q
    BY <1>1, <1>2, <2>1, QuotientAtLeast
  <2> QED
    BY <1>4, <2>2
<1>7. ASSUME NEW j \in 0 .. k, i < j
      PROVE  /\ q <= (j * w) \div k
             /\ w >= k => q < (j * w) \div k
  <2>1. PICK p \in Nat : p = (j * w) \div k
    BY <1>1, Quotient
  <2>2. i * w + w <= j * w
    <3>1. i \in Int /\ j \in Int
      OBVIOUS
    <3>2. w * i + w <= w * j
      BY <1>7, <3>1, Times
    <3> QED
      BY <1>1, <3>2
  <2>3. i * w \in Nat /\ j * w \in Nat /\ k * q \in Int
    BY <1>1
  <2>4. k * q <= j * w
    BY <1>3, <2>2, <2>3
  <2>5. q <= p
    BY <2>1, <2>3, <2>4, QuotientAtLeast
  <2>6. w >= k => q < p
    <3> SUFFICES ASSUME w >= k PROVE q < p
      OBVIOUS
    <3>1. k * (q + 1) = k * q + k
      BY SMTT(30)
    <3>2. k * (q + 1) <= j * w /\ q + 1 \in Int
      BY <1>3, <2>2, <2>3, <3>1
    <3>3. q + 1 <= p
      BY <2>1, <2>3, <3>2, QuotientAtLeast
    <3> QED
      BY <3>3
  <2> QED
    BY <2>1, <2>5, <2>6
<1>8. q \in 0 .. w
  BY <1>4
<1> QED
  BY <1>2, <1>5, <1>6, <1>7, <1>8

\* The lesser of two numbers.
LEMMA Lesser ==
  ASSUME NEW a \in Nat, NEW b \in Nat
  PROVE  /\ Min({a, b}) \in Nat
         /\ Min({a, b}) <= a /\ Min({a, b}) <= b
         /\ Min({a, b}) = a \/ Min({a, b}) = b
<1>1. {a, b} \subseteq Nat /\ {a, b} # {}
  OBVIOUS
<1>2. \E x \in {a, b} : \A y \in {a, b} : x <= y
  BY <1>1, Smallest
<1>3. Min({a, b}) \in {a, b} /\ \A y \in {a, b} : Min({a, b}) <= y
  BY <1>2 DEF Min
<1> QED
  BY <1>3

\* What is sampled of n frames.
WellSampled(s, n) ==
    /\ \A i \in DOMAIN s : s[i] \in 1 .. n
    /\ \A i, j \in DOMAIN s : i < j => s[i] <= s[j]
    /\ n >= Samples => /\ IsInjective(s)
                       /\ s[1] = 1
                       /\ s[Samples] = n

LEMMA SampleIsSpread ==
  ASSUME NEW n \in Nat
  PROVE  WellSampled(SampleIndices(n), n)
<1>1. Samples \in Nat \ {0, 1}
  BY QualityAssumption DEF QualityAssumption
<1>2. PICK k \in Nat \ {0} : k = Samples - 1
  BY <1>1
<1>3. PICK m \in Nat : m = Min({Samples, n})
  BY <1>1, Lesser
<1>4. m <= Samples /\ m <= n /\ (n >= Samples => m = Samples)
  BY <1>1, <1>3, Lesser
<1>5. PICK s : s = SampleIndices(n)
  OBVIOUS
<1>6. s = [i \in 1 .. m |-> 1 + ((i - 1) * (n - 1)) \div k]
  BY <1>2, <1>3, <1>5 DEF SampleIndices
<1>7. CASE m = 0
  <2>1. DOMAIN s = {} /\ ~(n >= Samples)
    BY <1>1, <1>4, <1>6, <1>7
  <2> QED
    BY <1>5, <2>1 DEF WellSampled
<1>8. CASE m # 0
  <2>1. PICK w \in Nat : w = n - 1
    BY <1>4, <1>8
  <2>2. DOMAIN s = 1 .. m
    BY <1>6
  <2>3. ASSUME NEW i \in 1 .. m
        PROVE  i - 1 \in 0 .. k /\ s[i] = 1 + ((i - 1) * w) \div k
    <3>1. i - 1 \in 0 .. k
      BY <1>1, <1>2, <1>4
    <3> QED
      BY <1>6, <2>1, <3>1
  <2>4. ASSUME NEW i \in 1 .. m PROVE s[i] \in 1 .. n
    <3>1. PICK q \in 0 .. w : q = ((i - 1) * w) \div k
      BY <2>3, Spread
    <3>2. s[i] = 1 + q
      BY <2>3, <3>1
    <3> QED
      BY <2>1, <3>1, <3>2
  <2>5. ASSUME NEW i \in 1 .. m, NEW j \in 1 .. m, i < j
        PROVE  s[i] <= s[j] /\ (w >= k => s[i] < s[j])
    <3>1. i - 1 \in 0 .. k /\ j - 1 \in 0 .. k /\ i - 1 < j - 1
      BY <2>3, <2>5
    <3>2. PICK p \in 0 .. w : p = ((i - 1) * w) \div k
      BY <3>1, Spread
    <3>3. PICK q \in 0 .. w : q = ((j - 1) * w) \div k
      BY <3>1, Spread
    <3>4. p <= q /\ (w >= k => p < q)
      BY <3>1, <3>2, <3>3, Spread
    <3>5. s[i] = 1 + p /\ s[j] = 1 + q
      BY <2>3, <3>2, <3>3
    <3> QED
      BY <3>4, <3>5
  <2>6. ASSUME n >= Samples
        PROVE  IsInjective(s) /\ s[1] = 1 /\ s[Samples] = n
    <3>1. m = Samples /\ w >= k
      BY <1>1, <1>2, <1>4, <2>1, <2>6
    <3>2. ASSUME NEW i \in 1 .. m, NEW j \in 1 .. m, i # j PROVE s[i] # s[j]
      <4>1. s[i] \in Int /\ s[j] \in Int
        BY <2>4
      <4>2. i < j \/ j < i
        BY <3>2
      <4> QED
        BY <2>5, <3>1, <4>1, <4>2
    <3>3. IsInjective(s)
      BY <2>2, <3>2 DEF IsInjective
    <3>4. s[1] = 1
      <4>1. 1 \in 1 .. m /\ 1 - 1 = 0 /\ 0 \in 0 .. k
        BY <1>8
      <4>2. (0 * w) \div k = 0
        BY <4>1, Spread
      <4>3. s[1] = 1 + (0 * w) \div k
        BY <2>3, <4>1
      <4> QED
        BY <4>2, <4>3
    <3>5. s[Samples] = n
      <4>1. Samples \in 1 .. m /\ Samples - 1 = k /\ k \in 0 .. k
        BY <1>1, <1>2, <3>1
      <4>2. (k * w) \div k = w
        BY <4>1, Spread
      <4>3. s[Samples] = 1 + (k * w) \div k
        BY <2>3, <4>1
      <4> QED
        BY <2>1, <4>2, <4>3
    <3> QED
      BY <3>3, <3>4, <3>5
  <2> QED
    BY <1>5, <2>2, <2>4, <2>5, <2>6 DEF WellSampled
<1> QED
  BY <1>7, <1>8

-----------------------------------------------------------------------------
(* The step that scores                                                    *)

\* While a file and its listing stay, so does what the score is made from.
LEMMA SameScore ==
  ASSUME UNCHANGED <<file, schema, stats>>
  PROVE  /\ UNCHANGED <<Rated, Required, ImageTopics>>
         /\ \A t : (NearRate(t)' <=> NearRate(t)) /\ (FarRate(t)' <=> FarRate(t))
         /\ UNCHANGED Frames(FirstImage)
<1>1. UNCHANGED <<Rated, Required, ImageTopics>>
  BY DEF Rated, Required, ImageTopics, Expected
<1>2. ASSUME NEW t PROVE (NearRate(t)' <=> NearRate(t)) /\ (FarRate(t)' <=> FarRate(t))
  BY DEF NearRate, FarRate, Expected
<1>3. UNCHANGED FirstImage
  BY DEF FirstImage, ImageTopics, ChannelsOf
<1>4. UNCHANGED Frames(FirstImage)
  BY <1>3 DEF Frames, ChannelOf
<1> QED
  BY <1>1, <1>2, <1>4

\* ScoreIsEarned of the scores q, whose sample is one of n frames.
Earned(q) ==
    /\ q.rate \in 0 .. Unit /\ q.complete \in 0 .. Unit
    /\ q.signal \in 0 .. Unit /\ q.total \in 0 .. Unit
    /\ AllPresent /\ (\A t \in Rated : NearRate(t)) /\ q.signal >= Unit - 2 => q.total = Unit
    /\ Discerning /\ q.total = Unit =>
         AllPresent /\ (\A t \in Rated : ~FarRate(t)) /\ q.signal >= Unit - 2
    /\ ImageTopics # {} => WellSampled(q.sample, Frames(FirstImage))

LEMMA EarnedIsEarned ==
  Earned(quality) => ScoreIsEarned
BY DEF Earned, ScoreIsEarned, CompleteAndSharp, AllPresent, WellSampled

LEMMA FramesCounted ==
  ASSUME NEW t, IsFiniteSet(DOMAIN file.messages)
  PROVE  Frames(t) \in Nat
<1> DEFINE S == {i \in DOMAIN file.messages : ChannelOf(file, i).topic = t}
<1>1. IsFiniteSet(S)
  BY FS_Subset
<1>2. Cardinality(S) \in Nat
  BY <1>1, FS_CardinalityType
<1>3. MaxFrames \in Nat
  BY QualityAssumption DEF QualityAssumption
<1>4. Min({MaxFrames, Cardinality(S)}) \in Nat
  BY <1>2, <1>3, Lesser
<1> QED
  BY <1>4 DEF Frames

LEMMA ScoreEarns ==
  ASSUME Rates, IsFiniteSet(DOMAIN file.messages), Score
  PROVE  ScoreIsEarned'
<1>1. PICK n : n = IF ImageTopics = {} THEN 0 ELSE Frames(FirstImage)
  OBVIOUS
<1>2. n \in Nat
  BY <1>1, FramesCounted
<1>3. PICK s \in SignalQuality(n) :
        quality' = [rate |-> FrameRate, complete |-> Completeness, signal |-> s,
                    total |-> RoundDiv(4 * FrameRate + 4 * Completeness + 2 * s, 10),
                    sample |-> SampleIndices(n)]
  BY <1>1 DEF Score
<1>4. UNCHANGED <<file, schema, stats>>
  BY DEF Score
<1>5. s \in 0 .. Unit
  <2>1. Signals \subseteq 0 .. Unit
    BY QualityAssumption DEF QualityAssumption
  <2>2. Unit \in 0 .. Unit /\ 9000 \in 0 .. Unit
    BY DEF Unit
  <2>3. s = Unit \/ s = 9000 \/ s \in Signals
    BY DEF SignalQuality
  <2>4. CASE s = Unit
    BY <2>2, <2>4
  <2>5. CASE s = 9000
    BY <2>2, <2>5
  <2>6. CASE s \in Signals
    BY <2>1, <2>6
  <2> QED
    BY <2>3, <2>4, <2>5, <2>6
<1>6. PICK r \in 0 .. Unit : r = FrameRate
  BY FrameRateIsFair
<1>7. PICK c \in 0 .. Unit : c = Completeness
  BY CompletenessIsFair
<1>8. PICK t : t = RoundDiv(4 * r + 4 * c + 2 * s, 10)
  OBVIOUS
<1>9. /\ t \in 0 .. Unit
      /\ r = Unit /\ c = Unit /\ s >= Unit - 2 => t = Unit
      /\ r <= Unit - 2 \/ c <= Unit - 2 \/ s < Unit - 2 => t # Unit
  BY <1>5, <1>8, TotalScore
<1>10. PICK q : q = [rate |-> r, complete |-> c, signal |-> s, total |-> t,
                     sample |-> SampleIndices(n)]
  OBVIOUS
<1>11. quality' = q
  BY <1>3, <1>6, <1>7, <1>8, <1>10
<1>12. q.rate = r /\ q.complete = c /\ q.signal = s /\ q.total = t /\ q.sample = SampleIndices(n)
  BY <1>10
<1>13. s \in Int /\ Unit \in Int
  BY <1>5 DEF Unit
<1>14. s >= Unit - 2 \/ s < Unit - 2
  BY <1>13
<1>20. \A u \in Rated : (NearRate(u) => FullRate(u)) /\ (FullRate(u) => ~FarRate(u))
  BY RatedTopics, RateIsTold
<1>15. AllPresent /\ (\A u \in Rated : NearRate(u)) /\ s >= Unit - 2 => t = Unit
  BY <1>6, <1>7, <1>9, <1>20, FrameRateIsFair, CompletenessIsFair
<1>16. Discerning /\ t = Unit => AllPresent /\ (\A u \in Rated : ~FarRate(u)) /\ s >= Unit - 2
  BY <1>6, <1>7, <1>9, <1>14, <1>20, FrameRateIsFair, CompletenessIsFair
<1>17. ImageTopics # {} => WellSampled(q.sample, Frames(FirstImage))
  BY <1>1, <1>2, <1>12, SampleIsSpread
<1>18. Earned(q)
  BY <1>5, <1>6, <1>7, <1>9, <1>12, <1>15, <1>16, <1>17 DEF Earned
<1>19. Earned(quality)'
  BY <1>4, <1>11, <1>18, SameScore DEF Earned, AllPresent, Discerning, WellSampled
<1> QED
  BY <1>19, EarnedIsEarned, PTL

\* A step that changes none of it leaves the score earned.
LEMMA StaysEarned ==
  ASSUME ScoreIsEarned, UNCHANGED <<file, schema, stats, quality, phase>>
  PROVE  ScoreIsEarned'
BY SameScore DEF ScoreIsEarned, CompleteAndSharp, Discerning

\* What the extractor lists has rates.
LEMMA ListedHasRates ==
  ASSUME file \in Files, schema \in ProjectSchemas, stats = [t \in Listed |-> TopicMeta(t)]
  PROVE  Rates /\ IsFiniteSet(DOMAIN file.messages)
<1>1. file \in FileType
  BY McapFileAssumption DEF McapFileAssumption
<1>2. /\ file.channels \in Seq([topic : Topics, schema : Schemas])
      /\ file.messages \in Seq([channel : Nat, time : Nat, body : Bodies])
  BY <1>1 DEF FileType
<1>3. PICK m \in Nat : m = Len(file.messages)
  BY <1>2, LenProperties
<1>4. PICK k \in Nat : k = Len(file.channels)
  BY <1>2, LenProperties
<1>5. DOMAIN file.messages = 1 .. m /\ DOMAIN file.channels = 1 .. k
  BY <1>2, <1>3, <1>4, LenProperties
<1>6. IsFiniteSet(1 .. m) /\ IsFiniteSet(1 .. k)
  BY FS_Interval
<1>7. IsFiniteSet(Listed)
  <2> DEFINE f == [i \in 1 .. k |-> file.channels[i].topic]
             T == {f[i] : i \in 1 .. k}
  <2>1. IsFiniteSet(T)
    <3> HIDE DEF f
    <3> QED
      BY <1>6, Values
  <2>2. Listed \subseteq T
    BY <1>5 DEF Listed, ToSet
  <2> QED
    BY <2>1, <2>2, FS_Subset
<1>8. ASSUME NEW c PROVE MessageCount(c) \in Nat
  <2>1. IsFiniteSet({i \in DOMAIN file.messages : file.messages[i].channel = c})
    BY <1>5, <1>6, FS_Subset
  <2> QED
    BY <2>1, FS_CardinalityType DEF MessageCount
<1>9. StartTime(file) \in Nat /\ EndTime(file) \in Nat
  <2>1. CASE file.messages = <<>>
    BY <2>1 DEF StartTime, EndTime
  <2>2. CASE file.messages # <<>>
    <3>1. m # 0
      BY <1>2, <1>3, <2>2, EmptySeq
    <3>2. 1 \in 1 .. m /\ m \in 1 .. m
      BY <3>1
    <3>3. \A i \in 1 .. m : file.messages[i] \in [channel : Nat, time : Nat, body : Bodies]
      BY <1>2, <1>3, ElementOfSeq
    <3> QED
      BY <1>3, <2>2, <3>2, <3>3 DEF StartTime, EndTime
  <2> QED
    BY <2>1, <2>2
<1>10. Duration \in Nat \ {0} /\ TicksPerSecond \in Nat
  BY <1>9, QualityAssumption DEF QualityAssumption, Duration
<1>11. ASSUME NEW t \in Listed PROVE stats[t].rate \in Nat
  <2>1. PICK n \in Nat : n = MessageCount(Max(ChannelsOf(t)))
    BY <1>8
  <2>2. stats[t].rate = RoundDiv(100 * n * TicksPerSecond, Duration)
    BY <2>1 DEF TopicMeta
  <2>3. 100 * n * TicksPerSecond \in Nat
    BY <1>10, SMTT(30)
  <2> QED
    BY <1>10, <2>2, <2>3, Rounded
<1> QED
  BY <1>5, <1>6, <1>7, <1>11 DEF Rates

-----------------------------------------------------------------------------
(* Two readers of one file                                                 *)

\* The pipeline's listing is what TopicMeta makes of the file.
StatsInv ==
    phase \in {"extracted", "scored"} => stats = [t \in Listed |-> TopicMeta(t)]

PreviewInv == ScanInv /\ StatsInv /\ schema \in ProjectSchemas /\ ScoreIsEarned

\* The listing is a matter of the file alone.
LEMMA SameListing ==
  ASSUME UNCHANGED file
  PROVE  /\ UNCHANGED Listed
         /\ \A t : TopicMeta(t)' = TopicMeta(t)
<1>1. UNCHANGED Listed
  BY DEF Listed
<1>2. ASSUME NEW t PROVE TopicMeta(t)' = TopicMeta(t)
  BY DEF TopicMeta, ChannelsOf, MessageCount, Duration, StartTime, EndTime
<1> QED
  BY <1>1, <1>2

LEMMA PreviewInvStep ==
  ASSUME PreviewInv, [PreviewNext]_previewVars
  PROVE  PreviewInv'
<1> USE DEF PreviewInv
<1>1. CASE QualityNext /\ UNCHANGED <<pc, topic, target, next, best, frame>>
  <2>1. UNCHANGED vars
    BY <1>1 DEF QualityNext, Extract, Score, vars
  <2>2. ScanInv'
    BY <2>1, ScanStep
  <2>3. StatsInv'
    BY <1>1, SameListing DEF QualityNext, Extract, Score, StatsInv
  <2>4. schema' \in ProjectSchemas
    BY <1>1 DEF QualityNext, Extract, Score
  <2>5. CASE Extract
    <3>1. phase' # "scored"
      BY <2>5 DEF Extract
    <3>2. ScoreIsEarned'
      BY <3>1 DEF ScoreIsEarned
    <3> QED
      BY <2>2, <2>3, <2>4, <3>2
  <2>6. CASE Score
    <3>1. file \in Files /\ stats = [t \in Listed |-> TopicMeta(t)]
      BY <2>6 DEF Score, ScanInv, TypeOK, StatsInv
    <3>2. Rates /\ IsFiniteSet(DOMAIN file.messages)
      BY <3>1, ListedHasRates
    <3>3. ScoreIsEarned'
      BY <2>6, <3>2, ScoreEarns
    <3> QED
      BY <2>2, <2>3, <2>4, <3>3
  <2> QED
    BY <1>1, <2>5, <2>6 DEF QualityNext
<1>2. CASE [Next]_vars /\ UNCHANGED qualityVars
  <2>1. UNCHANGED file
    BY <1>2 DEF Next, vars, GetFrame, Skip, NotCloser, Decode, DecodeRaises, EndOfFile,
                ReadFails, Respond
  <2>2. StatsInv'
    BY <1>2, <2>1, SameListing DEF qualityVars, StatsInv
  <2>3. ScoreIsEarned'
    BY <1>2, <2>1, StaysEarned DEF qualityVars
  <2> QED
    BY <1>2, <2>2, <2>3, ScanStep DEF qualityVars
<1> QED
  BY <1>1, <1>2 DEF PreviewNext, previewVars

\* Whatever is served, the listing remains that of the file and the score
\* what it was.
THEOREM PreviewSafe == PreviewSpec => []PreviewInv
<1>1. PreviewInit => PreviewInv
  BY ScanInit DEF PreviewInit, QualityInit, PreviewInv, StatsInv, ScoreIsEarned
<1> QED
  BY <1>1, PreviewInvStep, PTL DEF PreviewSpec

\* The channel a listed topic got its row from, and its messages.
LEMMA ListedHasMessages ==
  ASSUME PreviewInv, phase = "scored", topic \in ImageTopics, stats[topic].count > 0
  PROVE  /\ file.summary = "full"
         /\ ChannelsOf(topic) # {}
         /\ \E i \in Messages : Candidate(i)
<1> DEFINE c == Max(ChannelsOf(topic))
<1>1. stats = [t \in Listed |-> TopicMeta(t)]
  BY DEF PreviewInv, StatsInv
<1>2. topic \in Listed /\ stats[topic] = TopicMeta(topic)
  BY <1>1 DEF ImageTopics
<1>3. file.summary = "full" /\ ChannelsOf(topic) # {}
  BY <1>2 DEF Listed, ChannelsOf, ToSet
<1>4. Len(file.channels) \in Nat /\ ChannelsOf(topic) \subseteq 1 .. Len(file.channels)
  <2>1. file \in Files
    BY DEF PreviewInv, ScanInv, TypeOK
  <2>2. file.channels \in Seq([topic : Topics, schema : Schemas])
    BY <2>1, FileShape
  <2> QED
    BY <2>2, LenProperties DEF ChannelsOf
<1>5. c \in ChannelsOf(topic)
  BY <1>3, <1>4, Greatest
<1>6. file.channels[c].schema = "image" /\ MessageCount(c) > 0
  BY <1>2 DEF TopicMeta, ImageTopics
<1>7. PICK i \in DOMAIN file.messages : file.messages[i].channel = c
  <2> SUFFICES ASSUME {i \in DOMAIN file.messages : file.messages[i].channel = c} = {}
               PROVE  MessageCount(c) = 0
    BY <1>6
  <2> QED
    BY FS_EmptySet DEF MessageCount
<1>8. Candidate(i)
  BY <1>5, <1>6, <1>7 DEF Candidate, ChannelOf, ChannelsOf
<1> QED
  BY <1>3, <1>7, <1>8 DEF Messages

\* The dataset service has a frame of every image topic that the pipeline has
\* listed with messages, though each goes by another channel of the topic:
\* mcap_extractor.py by the last one, frame_extractor.py by the first.
THEOREM PreviewListedImageIsServed == PreviewSpec => []ListedImageIsServed
<1>1. PreviewInv => ListedImageIsServed
  <2> SUFFICES ASSUME PreviewInv, phase = "scored", pc = "done",
                      topic \in ImageTopics, stats[topic].count > 0,
                      \A c \in ChannelsOf(topic) : file.channels[c].schema # "none",
                      \A i \in Messages : Candidate(i) => file.messages[i].body = "image"
               PROVE  frame # 0
    BY DEF ListedImageIsServed
  <2>1. file.summary = "full" /\ ChannelsOf(topic) # {} /\ \E i \in Messages : Candidate(i)
    BY ListedHasMessages
  <2>2. ChannelsOf(topic) \subseteq 1 .. Len(file.channels)
    BY FileShape DEF PreviewInv, ScanInv, TypeOK, ChannelsOf
  <2>3. PICK c \in ChannelsOf(topic) : \A d \in ChannelsOf(topic) : c <= d
    <3>1. ChannelsOf(topic) \subseteq Nat
      BY <2>2
    <3> QED
      BY <2>1, <3>1, Smallest
  <2>4. \A d \in 1 .. c - 1 : file.channels[d].topic # topic
    <3>1. DOMAIN file.channels = 1 .. Len(file.channels) /\ Len(file.channels) \in Nat
      BY FileShape DEF PreviewInv, ScanInv, TypeOK
    <3> QED
      BY <2>2, <2>3, <3>1 DEF ChannelsOf
  <2>5. Found(topic)
    BY <2>1, <2>3, <2>4 DEF Found, ChannelsOf
  <2>6. best # 0 /\ Candidate(best) /\ best \in Messages
    BY <2>1, <2>5, FileShape DEF PreviewInv, ScanInv, NearestOrFirstNear, TypeOK
  <2>7. file.messages[best].channel \in ChannelsOf(topic)
    <3>1. file \in Files
      BY DEF PreviewInv, ScanInv, TypeOK
    <3>2. file.messages[best].channel \in DOMAIN file.channels
      BY <2>6, <3>1, McapFileAssumption DEF McapFileAssumption, Messages
    <3> QED
      BY <2>6, <3>2 DEF Candidate, ChannelOf, ChannelsOf
  <2>8. ~Corrupt(best) /\ file.messages[best].body = "image"
    BY <2>6, <2>7 DEF Corrupt, ChannelOf
  <2> QED
    BY <2>6, <2>8 DEF PreviewInv, ScanInv, Answering
<1> QED
  BY <1>1, PreviewSafe, PTL

\* QualityScorer.score (scorer.py) gives full marks for a complete and sharp
\* recording with every topic near its rate; it gives them only to complete and
\* sharp ones without a topic far from its rate, unless that topic is lost in
\* the rounding to four digits.  It stays between 0 and 1, and samples frames
\* that exist.
THEOREM PreviewScoreIsEarned == PreviewSpec => []ScoreIsEarned
BY PreviewSafe, PTL DEF PreviewInv
=============================================================================
