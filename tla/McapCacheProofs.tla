---------------------------- MODULE McapCacheProofs ----------------------------
(***************************************************************************)
(* Proofs about the MCAP file cache, for any episodes, requests, locks and *)
(* any max_size.                                                           *)
(***************************************************************************)
EXTENDS McapCache, FiniteSetTheorems, SequenceTheorems, TLAPS

-----------------------------------------------------------------------------
(* Sequences                                                               *)

\* Append adds one element, behind the others, and keeps a sequence without
\* repetitions one if the element is new.
LEMMA AppendFacts ==
    ASSUME NEW E, NEW s \in Seq(E), NEW e \in E
    PROVE  /\ Append(s, e) \in Seq(E)
           /\ Len(Append(s, e)) = Len(s) + 1
           /\ ToSet(Append(s, e)) = ToSet(s) \cup {e}
           /\ IsInjective(s) /\ e \notin ToSet(s) => IsInjective(Append(s, e))
  <1> DEFINE t == Append(s, e)
  <1>1. /\ t \in Seq(E)
        /\ Len(t) = Len(s) + 1
        /\ \A i \in 1 .. Len(s) : t[i] = s[i]
        /\ t[Len(s) + 1] = e
    BY AppendProperties
  <1>2. DOMAIN s = 1 .. Len(s) /\ DOMAIN t = 1 .. Len(t) /\ Len(s) \in Nat
    BY <1>1
  <1> HIDE DEF t
  <1>3. ToSet(t) = ToSet(s) \cup {e}
    <2>1. \A x \in ToSet(t) : x \in ToSet(s) \cup {e}
      BY <1>1, <1>2 DEF ToSet
    <2>2. \A x \in ToSet(s) \cup {e} : x \in ToSet(t)
      <3>1. ASSUME NEW i \in DOMAIN s PROVE s[i] \in ToSet(t)
        BY <1>1, <1>2, i \in DOMAIN t, t[i] = s[i] DEF ToSet
      <3>2. e \in ToSet(t)
        BY <1>1, <1>2, Len(s) + 1 \in DOMAIN t DEF ToSet
      <3> QED BY <3>1, <3>2 DEF ToSet
    <2> QED BY <2>1, <2>2
  <1>4. ASSUME IsInjective(s), e \notin ToSet(s) PROVE IsInjective(t)
    <2>1. \A i \in 1 .. Len(s) : s[i] # e
      BY <1>2, <1>4 DEF ToSet
    <2> QED BY <1>1, <1>2, <1>4, <2>1 DEF IsInjective
  <1> QED BY <1>1, <1>3, <1>4 DEF t

\* Cutting a sequence after k elements: the two parts hold the elements of the
\* whole, and the second is without repetitions if the whole is.
LEMMA CutFacts ==
    ASSUME NEW E, NEW s \in Seq(E), NEW k \in 0 .. Len(s)
    PROVE  LET front == SubSeq(s, 1, k)
               back == SubSeq(s, k + 1, Len(s))
           IN  /\ back \in Seq(E)
               /\ Len(back) = Len(s) - k
               /\ ToSet(s) = ToSet(front) \cup ToSet(back)
               /\ IsInjective(s) => /\ IsInjective(back)
                                    /\ ToSet(front) \cap ToSet(back) = {}
  <1> DEFINE front == SubSeq(s, 1, k)
             back == SubSeq(s, k + 1, Len(s))
  <1>1. Len(s) \in Nat /\ k \in Nat /\ k <= Len(s) /\ DOMAIN s = 1 .. Len(s) /\ \A i \in 1 .. Len(s) : s[i] \in E
    OBVIOUS
  <1>2. /\ front \in Seq(E)
        /\ Len(front) = k
        /\ \A i \in 1 .. k : front[i] = s[i]
    BY <1>1, SubSeqProperties
  <1>3. /\ back \in Seq(E)
        /\ Len(back) = Len(s) - k
        /\ \A i \in 1 .. Len(s) - k : back[i] = s[k + i]
    <2>1. k + 1 \in Int /\ \A i \in k + 1 .. Len(s) : s[i] \in E
      BY <1>1
    <2>2. /\ back \in Seq(E)
          /\ Len(back) = IF k + 1 <= Len(s) THEN Len(s) - (k + 1) + 1 ELSE 0
          /\ \A i \in 1 .. Len(s) - (k + 1) + 1 : back[i] = s[k + 1 + i - 1]
      <3> HIDE DEF back
      <3> QED BY <1>1, <2>1, SubSeqProperties DEF back
    <2>3. Len(s) - (k + 1) + 1 = Len(s) - k /\ \A i \in Int : k + 1 + i - 1 = k + i
      BY <1>1
    <2> HIDE DEF back
    <2>4. ASSUME NEW i \in 1 .. Len(s) - k PROVE back[i] = s[k + i]
      <3>1. i \in 1 .. Len(s) - (k + 1) + 1 /\ i \in Int
        BY <2>3
      <3> QED BY <2>2, <2>3, <3>1
    <2>5. Len(back) = Len(s) - k
      <3>1. Len(s) \in Nat /\ k \in Nat /\ k <= Len(s)
        BY <1>1
      <3>2. Len(back) = IF k + 1 <= Len(s) THEN Len(s) - (k + 1) + 1 ELSE 0
        BY <2>2
      <3> QED BY <3>1, <3>2
    <2> QED BY <2>2, <2>4, <2>5
  <1>4. DOMAIN front = 1 .. k /\ DOMAIN back = 1 .. Len(s) - k
    BY <1>2, <1>3
  <1> HIDE DEF front, back
  <1>5. ToSet(front) = {s[i] : i \in 1 .. k}
    BY <1>2, <1>4 DEF ToSet
  <1>6. ToSet(back) = {s[i] : i \in k + 1 .. Len(s)}
    <2>1. ASSUME NEW i \in 1 .. Len(s) - k PROVE back[i] \in {s[j] : j \in k + 1 .. Len(s)}
      BY <1>1, <1>3, k + i \in k + 1 .. Len(s)
    <2>2. ASSUME NEW i \in k + 1 .. Len(s) PROVE s[i] \in {back[j] : j \in 1 .. Len(s) - k}
      <3>1. i - k \in 1 .. Len(s) - k /\ k + (i - k) = i
        BY <1>1
      <3> QED BY <1>3, <3>1
    <2> QED BY <1>4, <2>1, <2>2 DEF ToSet
  <1>7. ToSet(s) = ToSet(front) \cup ToSet(back)
    <2>1. 1 .. Len(s) = (1 .. k) \cup (k + 1 .. Len(s))
      BY <1>1
    <2> QED BY <1>1, <1>5, <1>6, <2>1 DEF ToSet
  <1>8. ASSUME IsInjective(s)
        PROVE  IsInjective(back) /\ ToSet(front) \cap ToSet(back) = {}
    <2>1. ASSUME NEW i \in DOMAIN back, NEW j \in DOMAIN back, back[i] = back[j]
          PROVE  i = j
      <3>1. k + i \in DOMAIN s /\ k + j \in DOMAIN s /\ i \in Int /\ j \in Int
        BY <1>1, <1>4
      <3>2. s[k + i] = s[k + j]
        BY <1>3, <1>4, <2>1
      <3>3. k + i = k + j
        BY <1>8, <3>1, <3>2 DEF IsInjective
      <3> QED BY <1>1, <3>1, <3>3
    <2>2. ASSUME NEW i \in 1 .. k, NEW j \in k + 1 .. Len(s) PROVE s[i] # s[j]
      BY <1>1, <1>8 DEF IsInjective
    <2> QED BY <1>5, <1>6, <2>1, <2>2 DEF IsInjective
  <1> QED BY <1>3, <1>7, <1>8 DEF front, back

\* What Without returns: the elements outside S, none twice, and fewer than
\* before when S meets the sequence.
LEMMA WithoutFacts ==
    ASSUME NEW E, NEW s \in Seq(E), NEW S, NEW t \in Without(s, S)
    PROVE  /\ t \in Seq(E)
           /\ Len(t) <= Len(s)
           /\ S \cap ToSet(s) # {} => Len(t) < Len(s)
           /\ ToSet(t) = ToSet(s) \ S
           /\ IsInjective(s) => IsInjective(t)
  <1> DEFINE kept == {i \in DOMAIN s : s[i] \notin S}
             n == Cardinality(kept)
  <1>1. DOMAIN s = 1 .. Len(s) /\ Len(s) \in Nat /\ \A i \in 1 .. Len(s) : s[i] \in E
    OBVIOUS
  <1>2. IsFiniteSet(1 .. Len(s)) /\ Cardinality(1 .. Len(s)) = Len(s)
    <2>1. Len(s) \in Int /\ 1 \in Int /\ (IF 1 > Len(s) THEN 0 ELSE Len(s) - 1 + 1) = Len(s)
      BY <1>1
    <2> QED BY <2>1, FS_Interval
  <1>3. kept \subseteq 1 .. Len(s)
    BY <1>1
  <1>4. IsFiniteSet(kept) /\ n <= Len(s) /\ (n = Len(s) => kept = 1 .. Len(s))
    BY <1>2, <1>3, FS_Subset
  <1>5. n \in Nat
    BY <1>4, FS_CardinalityType
  <1>6. PICK f \in [1 .. n -> kept] :
            /\ \A i, j \in 1 .. n : i < j => f[i] < f[j]
            /\ t = [i \in 1 .. n |-> s[f[i]]]
    BY DEF Without
  <1>7. \A i \in 1 .. n : f[i] \in 1 .. Len(s) /\ s[f[i]] \notin S
    BY <1>3, <1>6
  <1>8. \A i, j \in 1 .. n : f[i] = f[j] => i = j
    <2> HIDE DEF n, kept
    <2> SUFFICES ASSUME NEW i \in 1 .. n, NEW j \in 1 .. n, f[i] = f[j] PROVE i = j
      OBVIOUS
    <2>1. i \in Int /\ j \in Int /\ f[i] \in Int /\ f[j] \in Int
      BY <1>5, <1>7
    <2> QED BY <1>6, <2>1
  <1>9. Cardinality(1 .. n) = n /\ IsFiniteSet(1 .. n)
    <2>1. n \in Int /\ 1 \in Int /\ (IF 1 > n THEN 0 ELSE n - 1 + 1) = n
      BY <1>5
    <2> QED BY <2>1, FS_Interval
  <1> DEFINE image == {f[i] : i \in 1 .. n}
  <1>10. image = kept
    <2>1. f \in Bijection(1 .. n, image)
      BY <1>6, <1>8 DEF Bijection, Injection, Surjection, IsInjective
    <2>2. Cardinality(image) = n
      BY <1>9, <2>1, FS_Bijection DEF ExistsBijection
    <2>3. image \subseteq kept
      BY <1>6
    <2> QED BY <1>4, <2>2, <2>3, FS_Subset
  <1>11. t \in Seq(E) /\ Len(t) = n /\ DOMAIN t = 1 .. n /\ \A i \in 1 .. n : t[i] = s[f[i]]
    BY <1>1, <1>5, <1>6, <1>7
  <1> HIDE DEF n
  <1>12. ToSet(t) = ToSet(s) \ S
    <2>1. ASSUME NEW i \in DOMAIN t PROVE t[i] \in ToSet(s) \ S
      BY <1>1, <1>7, <1>11 DEF ToSet
    <2>2. ASSUME NEW k \in DOMAIN s, s[k] \notin S PROVE s[k] \in ToSet(t)
      <3>1. PICK i \in 1 .. n : f[i] = k
        BY <1>10, <2>2
      <3> QED BY <1>11, <3>1 DEF ToSet
    <2> QED BY <2>1, <2>2 DEF ToSet
  <1>13. ASSUME IsInjective(s) PROVE IsInjective(t)
    BY <1>1, <1>7, <1>8, <1>11, <1>13 DEF IsInjective
  <1>14. ASSUME S \cap ToSet(s) # {} PROVE n < Len(s)
    <2>1. PICK k \in DOMAIN s : s[k] \in S
      BY <1>14 DEF ToSet
    <2>2. kept # 1 .. Len(s)
      BY <1>1, <2>1
    <2>3. n # Len(s)
      BY <1>4, <2>2
    <2>4. Len(s) \in Nat /\ n <= Len(s)
      BY <1>1, <1>4
    <2> QED BY <1>5, <2>3, <2>4
  <1> QED BY <1>4, <1>11, <1>12, <1>13, <1>14

\* Leaving the head of a queue: the others stay, in their order.
LEMMA TailFacts ==
    ASSUME NEW E, NEW s \in Seq(E), s # <<>>, IsInjective(s)
    PROVE  /\ Tail(s) \in Seq(E)
           /\ ToSet(Tail(s)) = ToSet(s) \ {Head(s)}
           /\ IsInjective(Tail(s))
  <1> DEFINE t == SubSeq(s, 2, Len(s))
             h == SubSeq(s, 1, 1)
  <1>1. Tail(s) = t
    BY TailIsSubSeq
  <1>2. Len(s) \in Nat /\ 1 \in 0 .. Len(s) /\ 1 \in DOMAIN s /\ Head(s) = s[1] /\ 1 + 1 = 2
    OBVIOUS
  <1>3. /\ t \in Seq(E)
        /\ ToSet(s) = ToSet(h) \cup ToSet(t)
        /\ IsInjective(t)
        /\ ToSet(h) \cap ToSet(t) = {}
    BY <1>2, CutFacts
  <1>4. ToSet(h) = {Head(s)}
    <2>1. \A i \in 1 .. 1 : s[i] \in E
      BY <1>2
    <2>2. h \in Seq(E) /\ Len(h) = 1 /\ h[1] = s[1]
      BY <2>1, SubSeqProperties
    <2>3. DOMAIN h = {1}
      BY <2>2
    <2> HIDE DEF h
    <2> QED BY <1>2, <2>2, <2>3 DEF ToSet
  <1> HIDE DEF t, h
  <1> QED BY <1>1, <1>3, <1>4

-----------------------------------------------------------------------------
(* The inductive invariant                                                 *)

Working == {"download", "write", "install"}

\* What the program counter of a request says of its episode and its lock: the
\* one at work holds its lock, the idle one and the reader have none.
RequestOrder ==
    \A r \in Requests :
        /\ req[r].pc \in Working => req[r].lock # None /\ holder[req[r].lock] = r
        /\ At(r, "wait") => req[r].lock # None /\ r \in ToSet(waiters[req[r].lock])
        /\ At(r, "idle") \/ At(r, "use") => req[r].lock = None
        /\ ~At(r, "idle") => Ep(r) # None

\* What a lock says of the requests: its holder and its waiters name it, no
\* request queues twice, and all requests that name it want one episode.
LockOrder ==
    \A l \in Locks :
        /\ holder[l] # None => req[holder[l]].lock = l /\ req[holder[l]].pc \in Working
        /\ \A r \in ToSet(waiters[l]) : req[r].lock = l /\ At(r, "wait")
        /\ IsInjective(waiters[l])
        /\ \A r, q \in Requests : req[r].lock = l /\ req[q].lock = l => Ep(r) = Ep(q)

\* The registry gives each episode a lock of its own, which no request for
\* another episode names.
RegistryOrder ==
    \A e \in Episodes :
        lockOf[e] # None =>
            /\ \A f \in Episodes : lockOf[f] = lockOf[e] => f = e
            /\ \A r \in Requests : req[r].lock = lockOf[e] => Ep(r) = e

\* After the shutdown nothing is going on and nothing is left.
Quiet ==
    ~up => /\ \A r \in Requests : At(r, "idle")
           /\ \A e \in Episodes : file[e] = "none" \/ e \in leftover

CacheInv ==
    /\ TypeOK
    /\ SizeBounded
    /\ RequestOrder
    /\ LockOrder
    /\ RegistryOrder
    /\ NoLockLeak
    /\ NoOrphanFile
    /\ LeftoverIsThere
    /\ Quiet

-----------------------------------------------------------------------------
(* The actions                                                             *)

LEMMA CacheInvInit == Init => CacheInv
  <1> SUFFICES ASSUME Init PROVE CacheInv
    OBVIOUS
  <1>1. TypeOK /\ Quiet /\ RequestOrder /\ RegistryOrder
    BY CacheAssumption DEF Init, TypeOK, Free, PCs, Quiet, RequestOrder, RegistryOrder, At, Working
  <1>2. SizeBounded
    BY CacheAssumption DEF Init, SizeBounded, IsInjective
  <1>3. LockOrder
    BY DEF Init, LockOrder, At, Free, ToSet, IsInjective, Ep
  <1>4. NoLockLeak /\ NoOrphanFile /\ LeftoverIsThere
    BY DEF Init, NoLockLeak, NoOrphanFile, LeftoverIsThere
  <1> QED BY <1>1, <1>2, <1>3, <1>4 DEF CacheInv

\* move_to_end changes no more than the order.
LEMMA TouchFacts ==
    ASSUME CacheInv, NEW e \in Cached, cache' \in Touch(e)
    PROVE  cache' \in Seq(Episodes) /\ SizeBounded' /\ Cached' = Cached
  <1>1. PICK s \in Without(cache, {e}) : cache' = Append(s, e)
    BY DEF Touch
  <1>2. cache \in Seq(Episodes) /\ Len(cache) <= MaxSize /\ IsInjective(cache)
    BY DEF CacheInv, TypeOK, SizeBounded
  <1>3. e \in Episodes
    BY <1>2 DEF Cached, ToSet
  <1>4. /\ s \in Seq(Episodes)
        /\ Len(s) < Len(cache)
        /\ ToSet(s) = ToSet(cache) \ {e}
        /\ IsInjective(s)
    <2>1. {e} \cap ToSet(cache) # {}
      BY DEF Cached
    <2> QED BY <1>2, <2>1, WithoutFacts
  <1>5. /\ cache' \in Seq(Episodes)
        /\ Len(cache') = Len(s) + 1
        /\ ToSet(cache') = ToSet(s) \cup {e}
        /\ IsInjective(cache')
    <2>1. e \notin ToSet(s)
      BY <1>4
    <2> QED BY <1>1, <1>3, <1>4, <2>1, AppendFacts
  <1>6. Len(s) \in Nat /\ Len(cache) \in Nat /\ MaxSize \in Nat
    BY <1>2, <1>4, CacheAssumption
  <1>7. Len(cache') <= MaxSize
    BY <1>2, <1>4, <1>5, <1>6
  <1> QED BY <1>4, <1>5, <1>7 DEF SizeBounded, Cached

LEMMA HitPreserves ==
    ASSUME CacheInv, up, NEW r \in Requests, NEW e \in Episodes, Hit(r, e)
    PROVE  CacheInv'
  <1>1. cache' \in Seq(Episodes) /\ SizeBounded' /\ Cached' = Cached
    BY TouchFacts DEF Hit
  <1>2. /\ At(r, "idle")
        /\ req' = [req EXCEPT ![r] = [pc |-> "use", ep |-> e, lock |-> None]]
        /\ UNCHANGED <<lockOf, holder, waiters, file, writer, leftover, up, failures>>
    BY DEF Hit, lockVars, diskVars
  <1>3. TypeOK'
    BY <1>1, <1>2 DEF CacheInv, TypeOK, PCs
  <1>4. /\ \A q \in Requests : q # r => req'[q] = req[q]
        /\ req'[r].pc = "use" /\ req'[r].ep = e /\ req'[r].lock = None
        /\ req[r].pc = "idle" /\ req[r].lock = None
    BY <1>2 DEF CacheInv, TypeOK, At, RequestOrder
  <1>5. RequestOrder'
    BY <1>2, <1>4, CacheAssumption DEF CacheInv, RequestOrder, At, Ep, Working
  <1>6. LockOrder'
    BY <1>2, <1>4, CacheAssumption DEF CacheInv, TypeOK, LockOrder, At, Ep, Working
  <1>7. RegistryOrder'
    BY <1>2, <1>4 DEF CacheInv, RegistryOrder, Ep
  <1>8. NoLockLeak'
    BY <1>1, <1>2, <1>4 DEF CacheInv, NoLockLeak, Ep
  <1>9. NoOrphanFile'
    BY <1>1, <1>2, <1>4 DEF CacheInv, NoOrphanFile, Ep
  <1> QED BY <1>1, <1>2, <1>3, <1>5, <1>6, <1>7, <1>8, <1>9 DEF CacheInv, Quiet, LeftoverIsThere

\* Dropping entries keeps the cache within its bound.
LEMMA DropFacts ==
    ASSUME CacheInv, NEW S, cache' \in Without(cache, S)
    PROVE  cache' \in Seq(Episodes) /\ SizeBounded' /\ Cached' = Cached \ S
  <1>1. cache \in Seq(Episodes) /\ Len(cache) <= MaxSize /\ IsInjective(cache)
    BY DEF CacheInv, TypeOK, SizeBounded
  <1>2. /\ cache' \in Seq(Episodes)
        /\ Len(cache') <= Len(cache)
        /\ ToSet(cache') = ToSet(cache) \ S
        /\ IsInjective(cache')
    BY <1>1, WithoutFacts
  <1>3. Len(cache') \in Nat /\ Len(cache) \in Nat /\ MaxSize \in Nat
    BY <1>1, <1>2, CacheAssumption
  <1>4. Len(cache') <= MaxSize
    BY <1>1, <1>2, <1>3
  <1> QED BY <1>2, <1>4 DEF SizeBounded, Cached

\* A request that misses takes or joins the lock of its episode.  A new lock
\* object is one nobody names, so nobody holds it or queues on it.
LEMMA MissPreserves ==
    ASSUME CacheInv, up, NEW r \in Requests, NEW e \in Episodes, Miss(r, e)
    PROVE  CacheInv'
  <1>1. cache' \in Seq(Episodes) /\ SizeBounded' /\ Cached' = Cached \ {e}
    BY DropFacts DEF Miss
  <1> DEFINE known == IF e \in Cached THEN None ELSE lockOf[e]
  <1>2. PICK l \in IF known # None THEN {known} ELSE {x \in Locks : Unused(x, e)} :
          /\ lockOf' = [lockOf EXCEPT ![e] = l]
          /\ IF holder[l] = None /\ waiters[l] = <<>>
             THEN /\ holder' = [holder EXCEPT ![l] = r]
                  /\ req' = [req EXCEPT ![r] = [pc |-> "download", ep |-> e, lock |-> l]]
                  /\ UNCHANGED waiters
             ELSE /\ waiters' = [waiters EXCEPT ![l] = Append(@, r)]
                  /\ req' = [req EXCEPT ![r] = [pc |-> "wait", ep |-> e, lock |-> l]]
                  /\ UNCHANGED holder
    BY Zenon DEF Miss
  <1>3. /\ req[r].pc = "idle" /\ req[r].lock = None
        /\ e \notin Cached \/ file[e] = "none"
        /\ UNCHANGED <<file, writer, leftover, up, failures>>
    BY DEF Miss, At, diskVars, CacheInv, RequestOrder
  <1>4. l \in Locks /\ l # None
    BY <1>2, CacheAssumption DEF CacheInv, TypeOK
  <1>5. \A f \in Episodes : lockOf[f] = l => f = e
    BY <1>2, <1>4 DEF CacheInv, TypeOK, RegistryOrder, Unused
  <1>6. \A q \in Requests : req[q].lock = l => Ep(q) = e
    BY <1>2, <1>4 DEF CacheInv, RegistryOrder, Unused
  <1>7. \A f \in Episodes : lockOf'[f] = IF f = e THEN l ELSE lockOf[f]
    BY <1>2 DEF CacheInv, TypeOK
  <1>10. ASSUME NEW m \in Locks, holder[m] # None
         PROVE  /\ holder[m] \in Requests /\ holder[m] # r
                /\ req[holder[m]].lock = m /\ req[holder[m]].pc \in Working
    BY <1>3, <1>10 DEF CacheInv, TypeOK, LockOrder, Working
  <1>11. ASSUME NEW m \in Locks, NEW q \in ToSet(waiters[m])
         PROVE  q \in Requests /\ q # r /\ req[q].lock = m /\ req[q].pc = "wait"
    <2>1. q \in Requests
      BY DEF CacheInv, TypeOK, ToSet
    <2> QED BY <1>3, <2>1 DEF CacheInv, LockOrder, At
  <1> HIDE DEF known
  <1>8. CASE holder[l] = None /\ waiters[l] = <<>>
    <2>1. /\ holder' = [holder EXCEPT ![l] = r]
          /\ req' = [req EXCEPT ![r] = [pc |-> "download", ep |-> e, lock |-> l]]
          /\ waiters' = waiters
      BY <1>2, <1>8
    <2>2. /\ \A q \in Requests : q # r => req'[q] = req[q]
          /\ req'[r].pc = "download" /\ req'[r].ep = e /\ req'[r].lock = l
      BY <2>1 DEF CacheInv, TypeOK
    <2>3. \A m \in Locks : holder'[m] = IF m = l THEN r ELSE holder[m]
      BY <2>1 DEF CacheInv, TypeOK
    <2>4. TypeOK'
      BY <1>1, <1>2, <1>3, <1>4, <2>1 DEF CacheInv, TypeOK, PCs
    <2>5. RequestOrder'
      BY <1>4, <1>8, <2>1, <2>2, <2>3, CacheAssumption DEF CacheInv, TypeOK, RequestOrder, At, Ep, Working
    <2>6. LockOrder'
      <3> SUFFICES ASSUME NEW m \in Locks
                   PROVE  /\ holder'[m] # None => req'[holder'[m]].lock = m /\ req'[holder'[m]].pc \in Working
                          /\ \A q \in ToSet(waiters[m]) : req'[q].lock = m /\ req'[q].pc = "wait"
                          /\ \A p, q \in Requests : req'[p].lock = m /\ req'[q].lock = m => req'[p].ep = req'[q].ep
        BY <2>1 DEF CacheInv, LockOrder, At, Ep
      <3>1. holder'[m] # None => req'[holder'[m]].lock = m /\ req'[holder'[m]].pc \in Working
        BY <1>10, <2>2, <2>3 DEF Working
      <3>2. \A q \in ToSet(waiters[m]) : req'[q].lock = m /\ req'[q].pc = "wait"
        BY <1>11, <2>2
      <3>3. \A p, q \in Requests : req'[p].lock = m /\ req'[q].lock = m => req'[p].ep = req'[q].ep
        BY <1>6, <2>2 DEF CacheInv, LockOrder, Ep
      <3> QED BY <3>1, <3>2, <3>3
    <2>7. RegistryOrder'
      BY <1>4, <1>5, <1>6, <1>7, <2>2 DEF CacheInv, RegistryOrder, Ep
    <2>8. NoLockLeak'
      BY <1>1, <1>3, <1>4, <1>7, <2>2, CacheAssumption DEF CacheInv, NoLockLeak, Ep
    <2>9. NoOrphanFile'
      BY <1>1, <1>3, <2>2 DEF CacheInv, NoOrphanFile, Ep
    <2> QED BY <1>1, <1>3, <2>4, <2>5, <2>6, <2>7, <2>8, <2>9 DEF CacheInv, Quiet, LeftoverIsThere
  <1>9. CASE ~(holder[l] = None /\ waiters[l] = <<>>)
    <2>1. /\ waiters' = [waiters EXCEPT ![l] = Append(waiters[l], r)]
          /\ req' = [req EXCEPT ![r] = [pc |-> "wait", ep |-> e, lock |-> l]]
          /\ holder' = holder
      BY <1>2, <1>9
    <2>2. /\ \A q \in Requests : q # r => req'[q] = req[q]
          /\ req'[r].pc = "wait" /\ req'[r].ep = e /\ req'[r].lock = l
      BY <2>1 DEF CacheInv, TypeOK
    <2>3. /\ waiters[l] \in Seq(Requests) /\ IsInjective(waiters[l])
          /\ \A q \in ToSet(waiters[l]) : req[q].pc = "wait"
      BY <1>4 DEF CacheInv, TypeOK, LockOrder, At
    <2>4. /\ Append(waiters[l], r) \in Seq(Requests)
          /\ ToSet(Append(waiters[l], r)) = ToSet(waiters[l]) \cup {r}
          /\ IsInjective(Append(waiters[l], r))
      BY <1>3, <2>3, AppendFacts
    <2>5. /\ \A m \in Locks : m # l => waiters'[m] = waiters[m]
          /\ ToSet(waiters'[l]) = ToSet(waiters[l]) \cup {r}
          /\ IsInjective(waiters'[l])
          /\ waiters' \in [Locks -> Seq(Requests)]
      <3> DEFINE longer == Append(waiters[l], r)
      <3> HIDE DEF longer
      <3>1. waiters' = [waiters EXCEPT ![l] = longer] /\ longer \in Seq(Requests)
        BY <2>1, <2>4 DEF longer
      <3>2. waiters' \in [Locks -> Seq(Requests)] /\ waiters'[l] = longer
            /\ \A m \in Locks : m # l => waiters'[m] = waiters[m]
        BY <1>4, <3>1 DEF CacheInv, TypeOK
      <3> QED BY <2>4, <3>2 DEF longer
    <2>6. TypeOK'
      BY <1>1, <1>2, <1>3, <1>4, <2>1, <2>5 DEF CacheInv, TypeOK, PCs
    <2>7. RequestOrder'
      <3> SUFFICES ASSUME NEW q \in Requests
                   PROVE  /\ req'[q].pc \in Working => req'[q].lock # None /\ holder[req'[q].lock] = q
                          /\ req'[q].pc = "wait" => req'[q].lock # None /\ q \in ToSet(waiters'[req'[q].lock])
                          /\ req'[q].pc \in {"idle", "use"} => req'[q].lock = None
                          /\ req'[q].pc # "idle" => req'[q].ep # None
        BY <2>1 DEF RequestOrder, At, Ep, Working
      <3>1. CASE q = r
        BY <1>4, <2>2, <2>5, <3>1, CacheAssumption DEF Working
      <3>2. CASE q # r
        <4>1. req'[q] = req[q] /\ req[q].lock \in Locks \cup {None}
          BY <2>2, <3>2 DEF CacheInv, TypeOK
        <4>2. /\ req[q].pc \in Working => req[q].lock # None /\ holder[req[q].lock] = q
              /\ req[q].pc = "wait" => req[q].lock # None /\ q \in ToSet(waiters[req[q].lock])
              /\ req[q].pc \in {"idle", "use"} => req[q].lock = None
              /\ req[q].pc # "idle" => req[q].ep # None
          BY DEF CacheInv, RequestOrder, At, Ep
        <4>3. \A m \in Locks : ToSet(waiters[m]) \subseteq ToSet(waiters'[m])
          BY <2>5
        <4> QED BY <4>1, <4>2, <4>3
      <3> QED BY <3>1, <3>2
    <2>8. LockOrder'
      <3> SUFFICES ASSUME NEW m \in Locks
                   PROVE  /\ holder[m] # None => req'[holder[m]].lock = m /\ req'[holder[m]].pc \in Working
                          /\ \A q \in ToSet(waiters'[m]) : req'[q].lock = m /\ req'[q].pc = "wait"
                          /\ IsInjective(waiters'[m])
                          /\ \A p, q \in Requests : req'[p].lock = m /\ req'[q].lock = m => req'[p].ep = req'[q].ep
        BY <2>1 DEF LockOrder, At, Ep
      <3>1. holder[m] # None => req'[holder[m]].lock = m /\ req'[holder[m]].pc \in Working
        BY <1>10, <2>2
      <3>2. \A q \in ToSet(waiters'[m]) : req'[q].lock = m /\ req'[q].pc = "wait"
        BY <1>11, <2>2, <2>5
      <3>3. \A p, q \in Requests : req'[p].lock = m /\ req'[q].lock = m => req'[p].ep = req'[q].ep
        BY <1>6, <2>2 DEF CacheInv, LockOrder, Ep
      <3>4. IsInjective(waiters'[m])
        BY <2>5 DEF CacheInv, LockOrder
      <3> QED BY <3>1, <3>2, <3>3, <3>4
    <2>9. RegistryOrder'
      BY <1>4, <1>5, <1>6, <1>7, <2>2 DEF CacheInv, RegistryOrder, Ep
    <2>10. NoLockLeak'
      BY <1>1, <1>3, <1>4, <1>7, <2>2, CacheAssumption DEF CacheInv, NoLockLeak, Ep
    <2>11. NoOrphanFile'
      BY <1>1, <1>3, <2>2 DEF CacheInv, NoOrphanFile, Ep
    <2> QED BY <1>1, <1>3, <2>6, <2>7, <2>8, <2>9, <2>10, <2>11 DEF CacheInv, Quiet, LeftoverIsThere
  <1> QED BY <1>8, <1>9

\* Forgetting locks and letting go of them cannot put the registry in disorder.
LEMMA RegistryKept ==
    ASSUME CacheInv,
           \A e \in Episodes : lockOf'[e] \in {lockOf[e], None},
           \A q \in Requests : \/ req'[q].lock = None
                               \/ req'[q].lock = req[q].lock /\ req'[q].ep = req[q].ep
    PROVE  RegistryOrder'
  BY DEF CacheInv, RegistryOrder, Ep

\* The first waiter takes the lock it queued on, or finds the file and leaves.
LEMMA WakePreserves ==
    ASSUME CacheInv, NEW r \in Requests, Wake(r)
    PROVE  CacheInv'
  <1> DEFINE e == Ep(r)
             l == req[r].lock
  <1>1. /\ req[r].pc = "wait" /\ holder[l] = None /\ Head(waiters[l]) = r
        /\ waiters' = [waiters EXCEPT ![l] = Tail(waiters[l])]
        /\ UNCHANGED <<lockOf, file, writer, leftover, up, failures>>
    BY DEF Wake, At, diskVars
  <1>2. l \in Locks /\ l # None /\ r \in ToSet(waiters[l]) /\ e \in Episodes /\ e # None
    BY <1>1, CacheAssumption DEF CacheInv, TypeOK, RequestOrder, At, Ep
  <1>3. /\ \A m \in Locks : m # l => waiters'[m] = waiters[m]
        /\ ToSet(waiters'[l]) = ToSet(waiters[l]) \ {r}
        /\ IsInjective(waiters'[l])
        /\ waiters' \in [Locks -> Seq(Requests)]
    <2> DEFINE shorter == Tail(waiters[l])
    <2>1. waiters[l] \in Seq(Requests) /\ IsInjective(waiters[l]) /\ waiters[l] # <<>>
      BY <1>2 DEF CacheInv, TypeOK, LockOrder, ToSet
    <2>2. /\ shorter \in Seq(Requests)
          /\ ToSet(shorter) = ToSet(waiters[l]) \ {r}
          /\ IsInjective(shorter)
      BY <1>1, <2>1, TailFacts
    <2> HIDE DEF shorter
    <2>3. waiters' = [waiters EXCEPT ![l] = shorter]
      BY <1>1 DEF shorter
    <2>4. waiters' \in [Locks -> Seq(Requests)] /\ waiters'[l] = shorter
          /\ \A m \in Locks : m # l => waiters'[m] = waiters[m]
      BY <1>2, <2>2, <2>3 DEF CacheInv, TypeOK
    <2> QED BY <2>2, <2>4
  <1>4. ASSUME NEW m \in Locks, holder[m] # None
        PROVE  /\ m # l /\ holder[m] \in Requests /\ holder[m] # r
               /\ req[holder[m]].lock = m /\ req[holder[m]].pc \in Working
    BY <1>1, <1>4 DEF CacheInv, TypeOK, LockOrder, Working
  <1>5. ASSUME NEW m \in Locks, NEW q \in ToSet(waiters'[m])
        PROVE  q \in Requests /\ q # r /\ req[q].lock = m /\ req[q].pc = "wait"
    <2>1. q \in ToSet(waiters[m]) /\ q \in Requests
      <3>1. q \in ToSet(waiters[m])
        BY <1>3
      <3> QED BY <3>1 DEF CacheInv, TypeOK, ToSet
    <2>2. req[q].lock = m /\ req[q].pc = "wait"
      BY <2>1 DEF CacheInv, LockOrder, At
    <2>3. q # r
      BY <1>3, <2>2
    <2> QED BY <2>1, <2>2, <2>3
  <1>6. ASSUME NEW q \in Requests, q # r
        PROVE  /\ req[q].pc \in Working => req[q].lock # None /\ req[q].lock # l /\ holder[req[q].lock] = q
               /\ req[q].pc = "wait" => req[q].lock # None /\ q \in ToSet(waiters'[req[q].lock])
               /\ req[q].pc \in {"idle", "use"} => req[q].lock = None
               /\ req[q].pc # "idle" => req[q].ep # None
    <2>1. /\ req[q].pc \in Working => req[q].lock # None /\ holder[req[q].lock] = q
          /\ req[q].pc = "wait" => req[q].lock # None /\ q \in ToSet(waiters[req[q].lock])
          /\ req[q].pc \in {"idle", "use"} => req[q].lock = None
          /\ req[q].pc # "idle" => req[q].ep # None
          /\ req[q].lock \in Locks \cup {None}
      BY DEF CacheInv, TypeOK, RequestOrder, At, Ep
    <2>2. \A m \in Locks : ToSet(waiters[m]) \ {r} \subseteq ToSet(waiters'[m])
      BY <1>3
    <2>3. q # None
      BY CacheAssumption
    <2> QED BY <1>1, <1>6, <2>1, <2>2, <2>3
  <1>7. CASE e \in Cached /\ file[e] # "none"
    <2>1. /\ cache' \in Touch(e)
          /\ req' = [req EXCEPT ![r] = [pc |-> "use", ep |-> e, lock |-> None]]
          /\ holder' = holder
      BY <1>7 DEF Wake
    <2>2. cache' \in Seq(Episodes) /\ SizeBounded' /\ Cached' = Cached
      BY <1>7, <2>1, TouchFacts
    <2>3. /\ \A q \in Requests : q # r => req'[q] = req[q]
          /\ req'[r].pc = "use" /\ req'[r].ep = e /\ req'[r].lock = None
      BY <2>1 DEF CacheInv, TypeOK
    <2>4. TypeOK'
      BY <1>1, <1>2, <1>3, <2>1, <2>2 DEF CacheInv, TypeOK, PCs
    <2> HIDE DEF l, e
    <2>5. RequestOrder'
      BY <1>2, <1>6, <2>1, <2>3 DEF RequestOrder, At, Ep, Working
    <2>6. LockOrder'
      <3> SUFFICES ASSUME NEW m \in Locks
                   PROVE  /\ holder[m] # None => req'[holder[m]].lock = m /\ req'[holder[m]].pc \in Working
                          /\ \A q \in ToSet(waiters'[m]) : req'[q].lock = m /\ req'[q].pc = "wait"
                          /\ IsInjective(waiters'[m])
                          /\ \A p, q \in Requests : req'[p].lock = m /\ req'[q].lock = m => req'[p].ep = req'[q].ep
        BY <2>1 DEF LockOrder, At, Ep
      <3>1. m # None
        BY CacheAssumption
      <3>2. \A p, q \in Requests : req'[p].lock = m /\ req'[q].lock = m => req'[p].ep = req'[q].ep
        BY <2>3, <3>1 DEF CacheInv, LockOrder, Ep
      <3>3. IsInjective(waiters'[m])
        BY <1>3 DEF CacheInv, LockOrder
      <3> QED BY <1>4, <1>5, <2>3, <3>2, <3>3
    <2>7. RegistryOrder'
      BY <1>1, <2>3, RegistryKept
    <2>8. NoLockLeak'
      BY <1>1, <1>7, <2>2, <2>3 DEF CacheInv, NoLockLeak, Ep, e
    <2>9. NoOrphanFile'
      BY <1>1, <2>2, <2>3 DEF CacheInv, NoOrphanFile, Ep
    <2>10. Quiet' /\ LeftoverIsThere'
      BY <1>1, <2>1 DEF CacheInv, Quiet, LeftoverIsThere, At
    <2> QED BY <2>2, <2>4, <2>5, <2>6, <2>7, <2>8, <2>9, <2>10 DEF CacheInv
  <1>8. CASE ~(e \in Cached /\ file[e] # "none")
    <2>1. /\ holder' = [holder EXCEPT ![l] = r]
          /\ req' = [req EXCEPT ![r].pc = "download"]
          /\ cache' = cache
      BY <1>8 DEF Wake
    <2>2. /\ \A q \in Requests : q # r => req'[q] = req[q]
          /\ req'[r].pc = "download" /\ req'[r].ep = e /\ req'[r].lock = l
      BY <2>1 DEF CacheInv, TypeOK, Ep
    <2>3. \A m \in Locks : holder'[m] = IF m = l THEN r ELSE holder[m]
      BY <2>1 DEF CacheInv, TypeOK
    <2>4. TypeOK'
      <3>1. holder' \in [Locks -> Requests \cup {None}]
        BY <2>1 DEF CacheInv, TypeOK
      <3>2. req' \in [Requests -> [pc : PCs, ep : Episodes \cup {None}, lock : Locks \cup {None}]]
        BY <2>1 DEF CacheInv, TypeOK, PCs
      <3> QED BY <1>1, <1>3, <2>1, <3>1, <3>2 DEF CacheInv, TypeOK
    <2>5. \A q \in Requests : req'[q].lock = req[q].lock /\ req'[q].ep = req[q].ep
      BY <2>2 DEF Ep
    <2> HIDE DEF l, e
    <2>6. RequestOrder'
      <3> SUFFICES ASSUME NEW q \in Requests
                   PROVE  /\ req'[q].pc \in Working => req'[q].lock # None /\ holder'[req'[q].lock] = q
                          /\ req'[q].pc = "wait" => req'[q].lock # None /\ q \in ToSet(waiters'[req'[q].lock])
                          /\ req'[q].pc \in {"idle", "use"} => req'[q].lock = None
                          /\ req'[q].pc # "idle" => req'[q].ep # None
        BY DEF RequestOrder, At, Ep, Working
      <3>1. CASE q = r
        BY <1>2, <2>2, <2>3, <3>1
      <3>2. CASE q # r
        <4>1. req'[q] = req[q] /\ req[q].lock \in Locks \cup {None}
          BY <2>2, <3>2 DEF CacheInv, TypeOK
        <4> QED BY <1>6, <2>3, <3>2, <4>1
      <3> QED BY <3>1, <3>2
    <2>7. LockOrder'
      <3> SUFFICES ASSUME NEW m \in Locks
                   PROVE  /\ holder'[m] # None => req'[holder'[m]].lock = m /\ req'[holder'[m]].pc \in Working
                          /\ \A q \in ToSet(waiters'[m]) : req'[q].lock = m /\ req'[q].pc = "wait"
                          /\ IsInjective(waiters'[m])
                          /\ \A p, q \in Requests : req'[p].lock = m /\ req'[q].lock = m => req'[p].ep = req'[q].ep
        BY DEF LockOrder, At, Ep
      <3>1. holder'[m] # None => req'[holder'[m]].lock = m /\ req'[holder'[m]].pc \in Working
        BY <1>4, <2>2, <2>3 DEF Working
      <3>2. \A q \in ToSet(waiters'[m]) : req'[q].lock = m /\ req'[q].pc = "wait"
        BY <1>5, <2>2
      <3>3. \A p, q \in Requests : req'[p].lock = m /\ req'[q].lock = m => req'[p].ep = req'[q].ep
        BY <2>5 DEF CacheInv, LockOrder, Ep
      <3>4. IsInjective(waiters'[m])
        BY <1>3 DEF CacheInv, LockOrder
      <3> QED BY <3>1, <3>2, <3>3, <3>4
    <2>8. RegistryOrder'
      BY <1>1, <2>5, RegistryKept
    <2>9. NoLockLeak'
      BY <1>1, <2>1, <2>5 DEF CacheInv, NoLockLeak, Ep, Cached
    <2>10. NoOrphanFile'
      BY <1>1, <2>1, <2>2 DEF CacheInv, NoOrphanFile, Ep, Cached
    <2>11. Quiet' /\ LeftoverIsThere' /\ SizeBounded'
      BY <1>1, <2>1 DEF CacheInv, Quiet, LeftoverIsThere, At, SizeBounded
    <2> QED BY <2>4, <2>6, <2>7, <2>8, <2>9, <2>10, <2>11 DEF CacheInv
  <1> QED BY <1>7, <1>8

\* A request that goes on working keeps its lock, so the locks stay in order.
LEMMA OrderWhileWorking ==
    ASSUME CacheInv, NEW r \in Requests,
           req[r].pc \in Working, req'[r].pc \in Working,
           req'[r].lock = req[r].lock, req'[r].ep = req[r].ep,
           \A q \in Requests : q # r => req'[q] = req[q],
           UNCHANGED <<holder, waiters>>
    PROVE  RequestOrder' /\ LockOrder'
  <1>1. \A q \in Requests : req'[q].lock = req[q].lock /\ req'[q].ep = req[q].ep
    OBVIOUS
  <1>2. ASSUME NEW q \in Requests
        PROVE  /\ req'[q].pc \in Working <=> req[q].pc \in Working
               /\ req'[q].pc = "wait" <=> req[q].pc = "wait"
               /\ req'[q].pc \in {"idle", "use"} <=> req[q].pc \in {"idle", "use"}
               /\ req'[q].pc = "idle" <=> req[q].pc = "idle"
    BY DEF Working
  <1>3. RequestOrder'
    BY <1>1, <1>2 DEF CacheInv, RequestOrder, At, Ep
  <1>4. LockOrder'
    <2> SUFFICES ASSUME NEW m \in Locks
                 PROVE  /\ holder[m] # None => req'[holder[m]].lock = m /\ req'[holder[m]].pc \in Working
                        /\ \A q \in ToSet(waiters[m]) : req'[q].lock = m /\ req'[q].pc = "wait"
                        /\ IsInjective(waiters[m])
                        /\ \A p, q \in Requests : req'[p].lock = m /\ req'[q].lock = m => req'[p].ep = req'[q].ep
      BY DEF LockOrder, At, Ep
    <2>1. holder[m] # None => holder[m] \in Requests
      BY DEF CacheInv, TypeOK
    <2>2. \A q \in ToSet(waiters[m]) : q \in Requests
      BY DEF CacheInv, TypeOK, ToSet
    <2> QED BY <1>1, <1>2, <2>1, <2>2 DEF CacheInv, LockOrder, At, Ep
  <1> QED BY <1>3, <1>4

\* Leaving the lock: nobody holds it until a waiter wakes.
LEMMA OrderAfterRelease ==
    ASSUME CacheInv, NEW r \in Requests,
           req[r].pc \in Working, ReleaseLock(r), waiters' = waiters,
           req'[r].pc \in {"idle", "use"}, req'[r].lock = None,
           req'[r].pc = "use" => req'[r].ep # None,
           \A q \in Requests : q # r => req'[q] = req[q]
    PROVE  /\ RequestOrder' /\ LockOrder'
           /\ holder' \in [Locks -> Requests \cup {None}]
  <1> DEFINE l == req[r].lock
  <1>1. l \in Locks /\ holder[l] = r
    BY DEF CacheInv, TypeOK, RequestOrder
  <1>2. /\ \A m \in Locks : holder'[m] = IF m = l THEN None ELSE holder[m]
        /\ holder' \in [Locks -> Requests \cup {None}]
    BY DEF CacheInv, TypeOK, ReleaseLock
  <1>3. ASSUME NEW m \in Locks, holder'[m] # None
        PROVE  /\ holder'[m] \in Requests /\ holder'[m] # r
               /\ req[holder'[m]].lock = m /\ req[holder'[m]].pc \in Working
    <2>1. m # l /\ holder'[m] = holder[m]
      BY <1>2, <1>3
    <2> QED BY <1>3, <2>1 DEF CacheInv, TypeOK, LockOrder
  <1>4. ASSUME NEW m \in Locks, NEW q \in ToSet(waiters[m])
        PROVE  q \in Requests /\ q # r /\ req[q].lock = m /\ req[q].pc = "wait"
    <2>1. q \in Requests
      BY DEF CacheInv, TypeOK, ToSet
    <2> QED BY <2>1 DEF CacheInv, LockOrder, At, Working
  <1>5. ASSUME NEW q \in Requests, q # r
        PROVE  /\ req[q].pc \in Working => req[q].lock # None /\ holder'[req[q].lock] = q
               /\ req[q].pc = "wait" => req[q].lock # None /\ q \in ToSet(waiters[req[q].lock])
               /\ req[q].pc \in {"idle", "use"} => req[q].lock = None
               /\ req[q].pc # "idle" => req[q].ep # None
    <2>1. req[q].lock \in Locks \cup {None}
      BY DEF CacheInv, TypeOK
    <2>2. /\ req[q].pc \in Working => req[q].lock # None /\ holder[req[q].lock] = q
          /\ req[q].pc = "wait" => req[q].lock # None /\ q \in ToSet(waiters[req[q].lock])
          /\ req[q].pc \in {"idle", "use"} => req[q].lock = None
          /\ req[q].pc # "idle" => req[q].ep # None
      BY DEF CacheInv, RequestOrder, At, Ep
    <2> HIDE DEF l
    <2> QED BY <1>1, <1>2, <1>5, <2>1, <2>2
  <1>6. RequestOrder'
    <2> SUFFICES ASSUME NEW q \in Requests
                 PROVE  /\ req'[q].pc \in Working => req'[q].lock # None /\ holder'[req'[q].lock] = q
                        /\ req'[q].pc = "wait" => req'[q].lock # None /\ q \in ToSet(waiters[req'[q].lock])
                        /\ req'[q].pc \in {"idle", "use"} => req'[q].lock = None
                        /\ req'[q].pc # "idle" => req'[q].ep # None
      BY DEF RequestOrder, At, Ep
    <2>1. CASE q = r
      BY <2>1 DEF Working
    <2>2. CASE q # r
      BY <1>5, <2>2
    <2> QED BY <2>1, <2>2
  <1>7. LockOrder'
    <2> SUFFICES ASSUME NEW m \in Locks
                 PROVE  /\ holder'[m] # None => req'[holder'[m]].lock = m /\ req'[holder'[m]].pc \in Working
                        /\ \A q \in ToSet(waiters[m]) : req'[q].lock = m /\ req'[q].pc = "wait"
                        /\ IsInjective(waiters[m])
                        /\ \A p, q \in Requests : req'[p].lock = m /\ req'[q].lock = m => req'[p].ep = req'[q].ep
      BY DEF LockOrder, At, Ep
    <2>1. holder'[m] # None => req'[holder'[m]].lock = m /\ req'[holder'[m]].pc \in Working
      BY <1>3
    <2>2. \A q \in ToSet(waiters[m]) : req'[q].lock = m /\ req'[q].pc = "wait"
      BY <1>4
    <2>3. m # None
      BY CacheAssumption
    <2>4. \A p, q \in Requests : req'[p].lock = m /\ req'[q].lock = m => req'[p].ep = req'[q].ep
      BY <2>3 DEF CacheInv, LockOrder, Ep
    <2>5. IsInjective(waiters[m])
      BY DEF CacheInv, LockOrder
    <2> QED BY <2>1, <2>2, <2>4, <2>5
  <1> QED BY <1>2, <1>6, <1>7

LEMMA OpenLocalFilePreserves ==
    ASSUME CacheInv, NEW r \in Requests, OpenLocalFile(r)
    PROVE  CacheInv'
  <1>1. /\ req[r].pc = "download"
        /\ file' = [file EXCEPT ![Ep(r)] = "partial"]
        /\ writer' = [writer EXCEPT ![Ep(r)] = r]
        /\ leftover' = leftover \ {Ep(r)}
        /\ req' = [req EXCEPT ![r].pc = "write"]
        /\ UNCHANGED <<cache, lockOf, holder, waiters, up, failures>>
    BY DEF OpenLocalFile, At, lockVars
  <1>2. /\ \A q \in Requests : q # r => req'[q] = req[q]
        /\ req'[r].pc = "write" /\ req'[r].lock = req[r].lock /\ req'[r].ep = req[r].ep
    BY <1>1 DEF CacheInv, TypeOK
  <1>3. \A f \in Episodes : f # Ep(r) => file'[f] = file[f] /\ (f \in leftover' <=> f \in leftover)
    BY <1>1 DEF CacheInv, TypeOK
  <1>4. TypeOK'
    <2>1. /\ file' \in [Episodes -> {"none", "partial", "whole"}]
          /\ leftover' \in SUBSET Episodes
          /\ writer' \in [Episodes -> Requests \cup {None}]
          /\ req' \in [Requests -> [pc : PCs, ep : Episodes \cup {None}, lock : Locks \cup {None}]]
      BY <1>1 DEF CacheInv, TypeOK, PCs
    <2> QED BY <1>1, <2>1 DEF CacheInv, TypeOK
  <1>5. RequestOrder' /\ LockOrder'
    BY <1>1, <1>2, OrderWhileWorking DEF Working
  <1>6. \A q \in Requests : req'[q].lock = req[q].lock /\ req'[q].ep = req[q].ep
    BY <1>2
  <1>7. RegistryOrder'
    BY <1>1, <1>6, RegistryKept
  <1>8. NoLockLeak'
    BY <1>1, <1>6 DEF CacheInv, NoLockLeak, Ep, Cached
  <1>9. NoOrphanFile'
    BY <1>1, <1>2, <1>3 DEF CacheInv, NoOrphanFile, Ep, Cached
  <1>10. Quiet' /\ SizeBounded'
    BY <1>1 DEF CacheInv, Quiet, At, SizeBounded
  <1>11. LeftoverIsThere'
    BY <1>1, <1>3 DEF CacheInv, TypeOK, LeftoverIsThere
  <1> QED BY <1>4, <1>5, <1>7, <1>8, <1>9, <1>10, <1>11 DEF CacheInv

LEMMA DownloadedPreserves ==
    ASSUME CacheInv, NEW r \in Requests, Downloaded(r)
    PROVE  CacheInv'
  <1>1. /\ req[r].pc = "write"
        /\ req' = [req EXCEPT ![r].pc = "install"]
        /\ UNCHANGED <<cache, lockOf, holder, waiters, up, failures>>
    BY DEF Downloaded, At, lockVars
  <1>2. /\ \A q \in Requests : q # r => req'[q] = req[q]
        /\ req'[r].pc = "install" /\ req'[r].lock = req[r].lock /\ req'[r].ep = req[r].ep
    BY <1>1 DEF CacheInv, TypeOK
  <1>3. /\ \A f \in Episodes : f # Ep(r) => file'[f] = file[f]
        /\ file' \in [Episodes -> {"none", "partial", "whole"}]
        /\ file[Ep(r)] # "none" => file'[Ep(r)] # "none"
        /\ writer' \in [Episodes -> Requests \cup {None}]
        /\ leftover' = leftover
    BY DEF Downloaded, diskVars, CacheInv, TypeOK
  <1>4. TypeOK'
    <2>1. req' \in [Requests -> [pc : PCs, ep : Episodes \cup {None}, lock : Locks \cup {None}]]
      BY <1>1 DEF CacheInv, TypeOK, PCs
    <2> QED BY <1>1, <1>3, <2>1 DEF CacheInv, TypeOK
  <1>5. RequestOrder' /\ LockOrder'
    BY <1>1, <1>2, OrderWhileWorking DEF Working
  <1>6. \A q \in Requests : req'[q].lock = req[q].lock /\ req'[q].ep = req[q].ep
    BY <1>2
  <1>7. RegistryOrder'
    BY <1>1, <1>6, RegistryKept
  <1>8. NoLockLeak'
    BY <1>1, <1>6 DEF CacheInv, NoLockLeak, Ep, Cached
  <1>9. NoOrphanFile'
    BY <1>1, <1>2, <1>3 DEF CacheInv, NoOrphanFile, Ep, Cached
  <1>10. Quiet' /\ SizeBounded'
    BY <1>1 DEF CacheInv, Quiet, At, SizeBounded
  <1>11. LeftoverIsThere'
    BY <1>3 DEF CacheInv, TypeOK, LeftoverIsThere
  <1> QED BY <1>4, <1>5, <1>7, <1>8, <1>9, <1>10, <1>11 DEF CacheInv

\* What Removed and Forget leave of the disk and of the registry.
LEMMA RemovedFacts ==
    ASSUME CacheInv, NEW S \in SUBSET Episodes, Removed(S)
    PROVE  /\ file' \in [Episodes -> {"none", "partial", "whole"}]
           /\ writer' \in [Episodes -> Requests \cup {None}]
           /\ leftover' \in SUBSET Episodes
           /\ \A f \in Episodes \ S : file'[f] = file[f] /\ (f \in leftover' <=> f \in leftover)
           /\ \A f \in Episodes \cap S : file'[f] = "none" \/ f \in leftover'
           /\ LeftoverIsThere'
  <1>1. PICK stays \in SUBSET {e \in S : file[e] # "none"} :
          /\ file' = [e \in Episodes |-> IF e \in S \ stays THEN "none" ELSE file[e]]
          /\ writer' = [e \in Episodes |-> IF e \in S \ stays THEN None ELSE writer[e]]
          /\ leftover' = (leftover \ (S \ stays)) \cup stays
    BY DEF Removed
  <1>2. S \subseteq Episodes => stays \subseteq Episodes
    OBVIOUS
  <1> QED BY <1>1, <1>2 DEF CacheInv, TypeOK, LeftoverIsThere

LEMMA ForgetFacts ==
    ASSUME CacheInv, NEW S, Forget(S)
    PROVE  /\ lockOf' \in [Episodes -> Locks \cup {None}]
           /\ \A f \in Episodes : lockOf'[f] = IF f \in S THEN None ELSE lockOf[f]
  BY DEF CacheInv, TypeOK, Forget

LEMMA DownloadFailsPreserves ==
    ASSUME CacheInv, NEW r \in Requests, DownloadFails(r)
    PROVE  CacheInv'
  <1>1. /\ req[r].pc \in Working /\ req[r].pc # "install"
        /\ failures < MaxFailures /\ failures' = failures + 1
        /\ Removed({Ep(r)}) /\ Forget({Ep(r)}) /\ ReleaseLock(r)
        /\ req' = [req EXCEPT ![r] = [pc |-> "idle", ep |-> None, lock |-> None]]
        /\ UNCHANGED <<cache, waiters, up>>
    BY DEF DownloadFails, At, Free, Working
  <1>2. /\ \A q \in Requests : q # r => req'[q] = req[q]
        /\ req'[r].pc = "idle" /\ req'[r].lock = None
        /\ {Ep(r)} \in SUBSET Episodes
    BY <1>1, CacheAssumption DEF CacheInv, TypeOK, RequestOrder, At, Ep, Working
  <1>3. /\ file' \in [Episodes -> {"none", "partial", "whole"}]
        /\ writer' \in [Episodes -> Requests \cup {None}]
        /\ leftover' \in SUBSET Episodes
        /\ \A f \in Episodes \ {Ep(r)} : file'[f] = file[f] /\ (f \in leftover' <=> f \in leftover)
        /\ \A f \in Episodes \cap {Ep(r)} : file'[f] = "none" \/ f \in leftover'
        /\ LeftoverIsThere'
    BY <1>1, <1>2, RemovedFacts
  <1>4. /\ lockOf' \in [Episodes -> Locks \cup {None}]
        /\ \A f \in Episodes : lockOf'[f] = IF f = Ep(r) THEN None ELSE lockOf[f]
    BY <1>1, ForgetFacts
  <1>5. RequestOrder' /\ LockOrder' /\ holder' \in [Locks -> Requests \cup {None}]
    BY <1>1, <1>2, OrderAfterRelease
  <1>6. TypeOK'
    <2>1. req' \in [Requests -> [pc : PCs, ep : Episodes \cup {None}, lock : Locks \cup {None}]]
      BY <1>1 DEF CacheInv, TypeOK, PCs
    <2>2. failures' \in 0 .. MaxFailures
      BY <1>1, CacheAssumption DEF CacheInv, TypeOK
    <2> QED BY <1>1, <1>3, <1>4, <1>5, <2>1, <2>2 DEF CacheInv, TypeOK
  <1>7. RegistryOrder'
    BY <1>2, <1>4, RegistryKept
  <1>8. NoLockLeak'
    BY <1>1, <1>2, <1>4 DEF CacheInv, NoLockLeak, Ep, Cached
  <1>9. NoOrphanFile'
    BY <1>1, <1>2, <1>3 DEF CacheInv, NoOrphanFile, Ep, Cached
  <1>10. Quiet' /\ SizeBounded'
    BY <1>1 DEF CacheInv, Quiet, At, SizeBounded, Working
  <1> QED BY <1>3, <1>5, <1>6, <1>7, <1>8, <1>9, <1>10 DEF CacheInv

\* Inserting an entry, or renewing the one that is there.
LEMMA InsertFacts ==
    ASSUME CacheAssumption, NEW s \in Seq(Episodes), NEW e \in Episodes, NEW S,
           IsInjective(s), Len(s) < MaxSize, ToSet(s) = S,
           cache' = IF e \in ToSet(s) THEN s ELSE Append(s, e)
    PROVE  cache' \in Seq(Episodes) /\ SizeBounded' /\ Cached' = S \cup {e}
  <1>1. Len(s) \in Nat /\ MaxSize \in Nat
    BY CacheAssumption
  <1>2. CASE e \in ToSet(s)
    BY <1>1, <1>2 DEF SizeBounded, Cached
  <1>3. CASE e \notin ToSet(s)
    <2>1. /\ Append(s, e) \in Seq(Episodes)
          /\ Len(Append(s, e)) = Len(s) + 1
          /\ ToSet(Append(s, e)) = ToSet(s) \cup {e}
          /\ IsInjective(Append(s, e))
      BY <1>3, AppendFacts
    <2>2. cache' = Append(s, e)
      BY <1>3
    <2>3. Len(cache') <= MaxSize
      BY <1>1, <2>1, <2>2
    <2> QED BY <2>1, <2>2, <2>3 DEF SizeBounded, Cached
  <1> QED BY <1>2, <1>3

\* What goes in the loop of evictions, and what is in the cache after it.
LEMMA InstallFacts ==
    ASSUME CacheInv, NEW r \in Requests, req[r].pc = "install",
           NEW out, NEW kept,
           out = ToSet(SubSeq(cache, 1, Evicted)),
           kept = SubSeq(cache, Evicted + 1, Len(cache)),
           cache' = IF Ep(r) \in ToSet(kept) THEN kept ELSE Append(kept, Ep(r))
    PROVE  /\ Ep(r) \in Episodes
           /\ cache' \in Seq(Episodes)
           /\ SizeBounded'
           /\ Cached' = (Cached \ out) \cup {Ep(r)}
  <1>1. /\ cache \in Seq(Episodes) /\ Len(cache) <= MaxSize /\ IsInjective(cache)
        /\ Len(cache) \in Nat /\ MaxSize \in Nat \ {0}
    BY CacheAssumption DEF CacheInv, TypeOK, SizeBounded
  <1>2. Ep(r) \in Episodes
    BY CacheAssumption DEF CacheInv, TypeOK, RequestOrder, At, Ep
  <1>3. Evicted \in 0 .. Len(cache) /\ Len(cache) - Evicted < MaxSize
    BY <1>1 DEF Evicted
  <1>4. /\ kept \in Seq(Episodes)
        /\ Len(kept) = Len(cache) - Evicted
        /\ ToSet(cache) = out \cup ToSet(kept)
        /\ IsInjective(kept)
        /\ out \cap ToSet(kept) = {}
    BY <1>1, <1>3, CutFacts
  <1>5. Len(kept) \in Nat /\ Len(kept) < MaxSize
    BY <1>3, <1>4
  <1>6. ToSet(kept) = Cached \ out
    BY <1>4 DEF Cached
  <1> DEFINE e == Ep(r)
  <1>7. e \in Episodes /\ cache' = IF e \in ToSet(kept) THEN kept ELSE Append(kept, e)
    BY <1>2
  <1> HIDE DEF e
  <1>8. cache' \in Seq(Episodes) /\ SizeBounded' /\ Cached' = (Cached \ out) \cup {e}
    BY <1>4, <1>5, <1>6, <1>7, InsertFacts, CacheAssumption
  <1> QED BY <1>2, <1>8 DEF e

\* The evicted entries are entries.
LEMMA OutIsCached ==
    ASSUME CacheInv, NEW out, out = ToSet(SubSeq(cache, 1, Evicted))
    PROVE  out \in SUBSET Episodes
  <1>1. cache \in Seq(Episodes) /\ Len(cache) \in Nat /\ MaxSize \in Nat \ {0}
    BY CacheAssumption DEF CacheInv, TypeOK
  <1>2. Evicted \in 0 .. Len(cache)
    BY <1>1 DEF Evicted
  <1>3. ToSet(cache) = out \cup ToSet(SubSeq(cache, Evicted + 1, Len(cache)))
    BY <1>1, <1>2, CutFacts
  <1>4. ToSet(cache) \subseteq Episodes
    BY <1>1 DEF ToSet
  <1> QED BY <1>3, <1>4

LEMMA InstallPreserves ==
    ASSUME CacheInv, NEW r \in Requests, Install(r)
    PROVE  CacheInv'
  <1>1. PICK out, kept :
          /\ out = ToSet(SubSeq(cache, 1, Evicted))
          /\ kept = SubSeq(cache, Evicted + 1, Len(cache))
          /\ req[r].pc = "install"
          /\ Removed(out) /\ Forget(out) /\ ReleaseLock(r)
          /\ cache' = IF Ep(r) \in ToSet(kept) THEN kept ELSE Append(kept, Ep(r))
          /\ req' = [req EXCEPT ![r] = [pc |-> "use", ep |-> Ep(r), lock |-> None]]
          /\ UNCHANGED <<waiters, up, failures>>
    BY Zenon DEF Install, At
  <1>2. /\ Ep(r) \in Episodes
        /\ cache' \in Seq(Episodes)
        /\ SizeBounded'
        /\ Cached' = (Cached \ out) \cup {Ep(r)}
        /\ out \in SUBSET Episodes
    <2>1. /\ Ep(r) \in Episodes
          /\ cache' \in Seq(Episodes)
          /\ SizeBounded'
          /\ Cached' = (Cached \ out) \cup {Ep(r)}
      BY <1>1, InstallFacts
    <2>2. out \in SUBSET Episodes
      BY <1>1, OutIsCached
    <2> QED BY <2>1, <2>2
  <1>3. /\ \A q \in Requests : q # r => req'[q] = req[q]
        /\ req'[r].pc = "use" /\ req'[r].ep = Ep(r) /\ req'[r].lock = None
    BY <1>1 DEF CacheInv, TypeOK
  <1>4. /\ file' \in [Episodes -> {"none", "partial", "whole"}]
        /\ writer' \in [Episodes -> Requests \cup {None}]
        /\ leftover' \in SUBSET Episodes
        /\ \A f \in Episodes \ out : file'[f] = file[f] /\ (f \in leftover' <=> f \in leftover)
        /\ \A f \in Episodes \cap out : file'[f] = "none" \/ f \in leftover'
        /\ LeftoverIsThere'
    BY <1>1, <1>2, RemovedFacts
  <1>5. /\ lockOf' \in [Episodes -> Locks \cup {None}]
        /\ \A f \in Episodes : lockOf'[f] = IF f \in out THEN None ELSE lockOf[f]
    BY <1>1, ForgetFacts
  <1>6. RequestOrder' /\ LockOrder' /\ holder' \in [Locks -> Requests \cup {None}]
    BY <1>1, <1>2, <1>3, OrderAfterRelease, CacheAssumption DEF Working
  <1>7. TypeOK'
    <2>1. req' \in [Requests -> [pc : PCs, ep : Episodes \cup {None}, lock : Locks \cup {None}]]
      BY <1>1, <1>2 DEF CacheInv, TypeOK, PCs
    <2> QED BY <1>1, <1>2, <1>4, <1>5, <1>6, <2>1 DEF CacheInv, TypeOK
  <1>8. RegistryOrder'
    BY <1>3, <1>5, RegistryKept
  <1>9. NoLockLeak'
    BY <1>2, <1>3, <1>5 DEF CacheInv, NoLockLeak, Ep
  <1>10. NoOrphanFile'
    BY <1>2, <1>3, <1>4 DEF CacheInv, NoOrphanFile, Ep
  <1>11. Quiet'
    BY <1>1 DEF CacheInv, Quiet, At
  <1> QED BY <1>2, <1>4, <1>6, <1>7, <1>8, <1>9, <1>10, <1>11 DEF CacheInv

\* The reader has no lock, so its leaving disturbs nothing.
LEMMA ExtractFramePreserves ==
    ASSUME CacheInv, NEW r \in Requests, ExtractFrame(r)
    PROVE  CacheInv'
  <1>1. /\ req[r].pc = "use" /\ req[r].lock = None
        /\ req' = [req EXCEPT ![r] = [pc |-> "idle", ep |-> None, lock |-> None]]
        /\ UNCHANGED <<cache, lockOf, holder, waiters, file, writer, leftover, up, failures>>
    BY DEF ExtractFrame, At, Free, lockVars, diskVars, CacheInv, RequestOrder
  <1>2. /\ \A q \in Requests : q # r => req'[q] = req[q]
        /\ req'[r].pc = "idle" /\ req'[r].lock = None
    BY <1>1 DEF CacheInv, TypeOK
  <1>3. TypeOK'
    BY <1>1 DEF CacheInv, TypeOK, PCs
  <1>4. RequestOrder'
    BY <1>1, <1>2 DEF CacheInv, RequestOrder, At, Ep, Working
  <1>5. LockOrder'
    BY <1>1, <1>2, CacheAssumption DEF CacheInv, TypeOK, LockOrder, At, Ep, Working
  <1>6. RegistryOrder'
    BY <1>1, <1>2, RegistryKept
  <1>7. NoLockLeak'
    BY <1>1, <1>2 DEF CacheInv, NoLockLeak, Ep, Cached
  <1>8. NoOrphanFile'
    BY <1>1, <1>2 DEF CacheInv, NoOrphanFile, Ep, Cached
  <1>9. Quiet' /\ LeftoverIsThere' /\ SizeBounded'
    BY <1>1 DEF CacheInv, Quiet, LeftoverIsThere, At, SizeBounded
  <1> QED BY <1>3, <1>4, <1>5, <1>6, <1>7, <1>8, <1>9 DEF CacheInv

LEMMA CleanupExpiredPreserves ==
    ASSUME CacheInv, CleanupExpired
    PROVE  CacheInv'
  <1>1. PICK expired \in (SUBSET Cached) \ {{}} :
          /\ up
          /\ cache' \in Without(cache, expired)
          /\ Forget(expired) /\ Removed(expired)
          /\ UNCHANGED <<holder, waiters, req, up, failures>>
    BY DEF CleanupExpired
  <1>2. /\ cache' \in Seq(Episodes) /\ SizeBounded' /\ Cached' = Cached \ expired
        /\ expired \in SUBSET Episodes
    <2>1. cache' \in Seq(Episodes) /\ SizeBounded' /\ Cached' = Cached \ expired
      BY <1>1, DropFacts
    <2>2. Cached \subseteq Episodes
      BY DEF CacheInv, TypeOK, Cached, ToSet
    <2> QED BY <1>1, <2>1, <2>2
  <1>3. /\ file' \in [Episodes -> {"none", "partial", "whole"}]
        /\ writer' \in [Episodes -> Requests \cup {None}]
        /\ leftover' \in SUBSET Episodes
        /\ \A f \in Episodes \ expired : file'[f] = file[f] /\ (f \in leftover' <=> f \in leftover)
        /\ \A f \in Episodes \cap expired : file'[f] = "none" \/ f \in leftover'
        /\ LeftoverIsThere'
    BY <1>1, <1>2, RemovedFacts
  <1>4. /\ lockOf' \in [Episodes -> Locks \cup {None}]
        /\ \A f \in Episodes : lockOf'[f] = IF f \in expired THEN None ELSE lockOf[f]
    BY <1>1, ForgetFacts
  <1>5. TypeOK'
    <2>1. /\ holder' \in [Locks -> Requests \cup {None}]
          /\ waiters' \in [Locks -> Seq(Requests)]
          /\ req' \in [Requests -> [pc : PCs, ep : Episodes \cup {None}, lock : Locks \cup {None}]]
          /\ failures' \in 0 .. MaxFailures
          /\ up' \in BOOLEAN
      BY <1>1 DEF CacheInv, TypeOK
    <2> QED BY <1>2, <1>3, <1>4, <2>1, Zenon DEF TypeOK
  <1>6. RequestOrder' /\ LockOrder'
    BY <1>1 DEF CacheInv, RequestOrder, LockOrder, At, Ep
  <1>7. RegistryOrder'
    BY <1>1, <1>4, RegistryKept
  <1>8. NoLockLeak' /\ NoOrphanFile'
    BY <1>1, <1>2, <1>3, <1>4 DEF CacheInv, NoLockLeak, NoOrphanFile, Ep
  <1>9. Quiet'
    BY <1>1 DEF Quiet
  <1> QED BY <1>2, <1>3, <1>5, <1>6, <1>7, <1>8, <1>9 DEF CacheInv

\* At the shutdown nobody is about to write, so every file is in the cache.
LEMMA ClearPreserves ==
    ASSUME CacheInv, Clear
    PROVE  CacheInv'
  <1>1. /\ \A r \in Requests : req[r].pc = "idle"
        /\ Removed(Cached) /\ Forget(Episodes)
        /\ cache' = <<>> /\ up' = FALSE
        /\ UNCHANGED <<holder, waiters, req, failures>>
    BY DEF Clear, At
  <1>10. Cached \in SUBSET Episodes
    BY DEF CacheInv, TypeOK, Cached, ToSet
  <1>2. /\ file' \in [Episodes -> {"none", "partial", "whole"}]
        /\ writer' \in [Episodes -> Requests \cup {None}]
        /\ leftover' \in SUBSET Episodes
        /\ \A f \in Episodes \ Cached : file'[f] = file[f] /\ (f \in leftover' <=> f \in leftover)
        /\ \A f \in Episodes \cap Cached : file'[f] = "none" \/ f \in leftover'
        /\ LeftoverIsThere'
    BY <1>1, <1>10, RemovedFacts
  <1>3. /\ lockOf' \in [Episodes -> Locks \cup {None}]
        /\ \A f \in Episodes : lockOf'[f] = None
    BY <1>1, ForgetFacts
  <1>4. \A f \in Episodes : file'[f] = "none" \/ f \in leftover'
    BY <1>1, <1>2 DEF CacheInv, NoOrphanFile
  <1>5. TypeOK'
    <2>1. /\ holder' \in [Locks -> Requests \cup {None}]
          /\ waiters' \in [Locks -> Seq(Requests)]
          /\ req' \in [Requests -> [pc : PCs, ep : Episodes \cup {None}, lock : Locks \cup {None}]]
          /\ failures' \in 0 .. MaxFailures
          /\ cache' \in Seq(Episodes)
      BY <1>1 DEF CacheInv, TypeOK
    <2>2. up' \in BOOLEAN
      BY <1>1
    <2> QED BY <1>2, <1>3, <2>1, <2>2, Zenon DEF TypeOK
  <1>6. RequestOrder' /\ LockOrder'
    BY <1>1 DEF CacheInv, RequestOrder, LockOrder, At, Ep
  <1>7. RegistryOrder' /\ NoLockLeak' /\ NoOrphanFile'
    BY <1>3, <1>4 DEF RegistryOrder, NoLockLeak, NoOrphanFile
  <1>8. Quiet'
    BY <1>1, <1>4 DEF Quiet, At
  <1>9. SizeBounded'
    BY <1>1, CacheAssumption DEF SizeBounded, IsInjective
  <1> QED BY <1>2, <1>5, <1>6, <1>7, <1>8, <1>9 DEF CacheInv

-----------------------------------------------------------------------------
(* The theorems                                                            *)

LEMMA CacheInvNext == CacheInv /\ [Next]_vars => CacheInv'
  <1> SUFFICES ASSUME CacheInv, [Next]_vars PROVE CacheInv'
    OBVIOUS
  <1>1. ASSUME NEW r \in Requests, Transfer(r) PROVE CacheInv'
    BY <1>1, OpenLocalFilePreserves, DownloadedPreserves DEF Transfer
  <1>2. ASSUME NEW r \in Requests, Resume(r) PROVE CacheInv'
    BY <1>2, WakePreserves, InstallPreserves, ExtractFramePreserves DEF Resume
  <1>3. ASSUME NEW r \in Requests, DownloadFails(r) PROVE CacheInv'
    BY <1>3, DownloadFailsPreserves
  <1>4. ASSUME NEW r \in Requests, NEW e \in Episodes, up, Hit(r, e) \/ Miss(r, e) PROVE CacheInv'
    BY <1>4, HitPreserves, MissPreserves
  <1>5. CASE CleanupExpired
    BY <1>5, CleanupExpiredPreserves
  <1>6. CASE Clear
    BY <1>6, ClearPreserves
  <1>7. CASE UNCHANGED vars
    BY <1>7 DEF vars, lockVars, diskVars, CacheInv, TypeOK, SizeBounded, RequestOrder, LockOrder,
                RegistryOrder, NoLockLeak, NoOrphanFile, LeftoverIsThere, Quiet, At, Ep, Cached
  <1> QED BY <1>1, <1>2, <1>3, <1>4, <1>5, <1>6, <1>7 DEF Next

\* The cache, its registry of locks and the disk agree in every reachable state.
THEOREM McapCacheSafe == Spec => []CacheInv
  <1> QED BY CacheInvInit, CacheInvNext, PTL DEF Spec

\* Never more than max_size entries and no episode twice, for any max_size and
\* any number of downloads that end in any order.
THEOREM McapCacheSizeBounded == Spec => []SizeBounded
  <1>1. CacheInv => SizeBounded
    BY DEF CacheInv
  <1> QED BY <1>1, McapCacheSafe, PTL

\* The registry stays in order and as small as what it serves, though it forgets
\* locks that are held and waited on.
THEOREM McapCacheLockSafety == Spec => []LockSafety
  <1>1. CacheInv => LocksConsistent
    <2> SUFFICES ASSUME CacheInv PROVE LocksConsistent
      OBVIOUS
    <2>1. \A l \in Locks : \A i \in DOMAIN waiters[l] : waiters[l][i] \in ToSet(waiters[l])
      BY DEF ToSet
    <2> QED BY <2>1 DEF CacheInv, RequestOrder, LockOrder, LocksConsistent, Working, Ep
  <1>2. CacheInv => LockSafety
    BY <1>1 DEF CacheInv, LockSafety
  <1> QED BY <1>2, McapCacheSafe, PTL

\* What is evicted, expired, failed or cleared leaves the disk, unless the unlink
\* itself failed.
THEOREM McapCacheDiskMatchesCache == Spec => []DiskMatchesCache
  <1>1. CacheInv => DiskMatchesCache
    BY DEF CacheInv, DiskMatchesCache, ClearedIsEmpty, Quiet
  <1> QED BY <1>1, McapCacheSafe, PTL
================================================================================
