---------------------------- MODULE ExportJobsProofs ----------------------------
(***************************************************************************)
(* Proofs about the export jobs, for any jobs, workers, orders and sizes.  *)
(***************************************************************************)
EXTENDS ExportJobs, FiniteSetTheorems, TLAPS

-----------------------------------------------------------------------------
(* The inductive invariant                                                 *)

Created(j) == job[j].status # "none"
Delivered == {stream[i] : i \in 1 .. cursor}

\* Each created job is enqueued once, and only those are.
StreamOrder ==
    /\ IsInjective(stream)
    /\ \A i \in DOMAIN stream : Created(stream[i])

\* Each entry is handed to one worker.
HandlerOrder ==
    \A w \in Workers :
        worker[w].pc \in Handling =>
            /\ worker[w].entry \in 1 .. cursor
            /\ \A x \in Workers :
                 worker[x].pc \in Handling /\ worker[x].entry = worker[w].entry => x = w

\* A worker without an entry keeps nothing of an earlier one.
IdleFree ==
    \A w \in Workers :
        worker[w].pc \notin Handling => worker[w] = Free(worker[w].pc)

\* Whatever is in the bucket is under the prefix of a created job.
BucketOrder ==
    \A key \in DOMAIN shards : \E k \in Jobs : Created(k) /\ job[k].prefix = key[1]

\* Before its entry is delivered nothing has happened to a job.
NotYet ==
    \A j \in Jobs \ Delivered :
        /\ job[j].progress = 0
        /\ ~job[j].url
        /\ Created(j) /\ Alone(j) => Numbers(job[j].prefix) = {}

\* The loop invariant of the exporter: the shards hold the refs that were found
\* among those before `at`, in their order, with their sidecars, and fit.
Fit(s) == \A a \in DOMAIN s : Len(s[a].samples) > 1 => s[a].size <= ShardSize + SidecarSize

PackedUpTo(s, v, format, found, at) ==
    /\ at \in 1 .. Len(v) + 1
    /\ \A a \in DOMAIN s : \A i \in DOMAIN s[a].samples :
         \E x \in 1 .. at - 1 : v[x] = s[a].samples[i]
    /\ \A x \in 1 .. at - 1 : v[x] \in found => v[x] \in Contents(s)
    /\ InOrder(s, v)
    /\ HasSidecars(s, format)
    /\ Fit(s)

\* How many of the shards of worker r are in the bucket.
Done(r) ==
    CASE r.pc = "upload" -> r.next - 1
      [] r.pc = "progress" -> r.next
      [] r.pc \in {"manifest", "complete", "ack"} -> Len(r.shards)
      [] OTHER -> 0

\* What the program counter of worker r says of its variables and of the row of
\* its job.
Early == {"start", "resolve", "pack"}

Handled(r, version, format, progress, url, rows) ==
    /\ r.pc \in Early => progress = 0 /\ r.next = 1
    /\ r.pc \in {"start", "resolve"} => r.shards = <<>> /\ r.at = 1
    /\ r.pc \in {"upload", "progress"} => r.next \in 1 .. Len(r.shards)
    /\ r.pc \notin {"start", "resolve"} =>
         /\ PackedUpTo(r.shards, version, format, r.found, r.at)
         /\ ToSet(version) \cap rows \subseteq r.found
    /\ r.pc \notin Early => r.at = Len(version) + 1
    /\ progress * Len(r.shards) <= 100 * Done(r)
    /\ url <=> r.pc = "ack"

\* And of the bucket.
InBucket(w) ==
    LET p == job[Job(w)].prefix
    IN  Alone(Job(w)) =>
          /\ Numbers(p) = 1 .. Done(worker[w])
          /\ \A i \in 1 .. Done(worker[w]) : shards[<<p, i>>] = worker[w].shards[i]

ManifestThere(w) ==
    LET p == job[Job(w)].prefix
    IN  Alone(Job(w)) => p \in DOMAIN manifest /\ manifest[p] = SampleCounts(worker[w].shards)

Running(w) ==
    /\ Handled(worker[w], job[Job(w)].version, job[Job(w)].format, job[Job(w)].progress, job[Job(w)].url, episodes)
    /\ InBucket(w)
    /\ worker[w].pc \in {"complete", "ack"} => ManifestThere(w)

ExportInv ==
    /\ TypeOK
    /\ StreamOrder
    /\ HandlerOrder
    /\ IdleFree
    /\ BucketOrder
    /\ NotYet
    /\ \A w \in Workers : worker[w].pc \in Executing => Running(w)
    /\ CompletedIsWhole
    /\ ShardsFit
    /\ AckedIsCompleted

-----------------------------------------------------------------------------
(* Arithmetic and containers                                               *)

\* The progress after shard k of n: a percentage that is not rounded up.
LEMMA PercentFacts ==
    ASSUME NEW n \in Nat \ {0}, NEW k \in 1 .. n
    PROVE  /\ (100 * k) \div n \in 0 .. 100
           /\ ((100 * k) \div n) * n <= 100 * k
  <1> DEFINE q == (100 * k) \div n
  <1>1. q \in Int /\ n * q <= 100 * k /\ 100 * k < n * q + n
    BY SMTT(30)
  <1> HIDE DEF q
  <1>2. q * n = n * q
    BY <1>1
  <1>3. q >= 0
    <2>1. ASSUME q <= 0 - 1 PROVE FALSE
      <3>1. n * q <= n * (0 - 1)
        BY <1>1, <2>1
      <3> QED BY <1>1, <3>1
    <2> QED BY <1>1, <2>1
  <1>4. q <= 100
    <2>1. ASSUME q >= 101 PROVE FALSE
      <3>1. n * q >= n * 101
        BY <1>1, <2>1
      <3> QED BY <1>1, <3>1
    <2> QED BY <1>1, <2>1
  <1> QED BY <1>1, <1>2, <1>3, <1>4 DEF q

\* The shard numbers under a prefix, and what one more object changes of them.
LEMMA NumbersFacts ==
    ASSUME TypeOK, NEW p
    PROVE  \A n : n \in Numbers(p) <=> n \in Nat /\ <<p, n>> \in DOMAIN shards
  <1>1. \A key \in DOMAIN shards : key = <<key[1], key[2]>> /\ key[2] \in Nat
    BY DEF TypeOK
  <1>2. ASSUME NEW n, n \in Numbers(p) PROVE n \in Nat /\ <<p, n>> \in DOMAIN shards
    BY <1>1, <1>2 DEF Numbers
  <1>3. ASSUME NEW n, <<p, n>> \in DOMAIN shards PROVE n \in Numbers(p)
    BY <1>3 DEF Numbers
  <1> QED BY <1>2, <1>3

LEMMA NumbersNext ==
    ASSUME TypeOK', NEW p
    PROVE  \A n : n \in Numbers(p)' <=> n \in Nat /\ <<p, n>> \in DOMAIN shards'
  <1>1. \A key \in DOMAIN shards' : key = <<key[1], key[2]>> /\ key[2] \in Nat
    BY DEF TypeOK
  <1>2. ASSUME NEW n, n \in Numbers(p)' PROVE n \in Nat /\ <<p, n>> \in DOMAIN shards'
    BY <1>1, <1>2 DEF Numbers
  <1>3. ASSUME NEW n, <<p, n>> \in DOMAIN shards' PROVE n \in Numbers(p)'
    BY <1>3 DEF Numbers
  <1> QED BY <1>2, <1>3

-----------------------------------------------------------------------------
(* The exporter                                                            *)

\* The samples of s are in t where they are in s.
Within(s, t) ==
    \A a \in DOMAIN s : \A i \in DOMAIN s[a].samples :
        a \in DOMAIN t /\ i \in DOMAIN t[a].samples /\ t[a].samples[i] = s[a].samples[i]

\* Sample m of shard n of t is e, and all others are samples of s and before it.
LastIs(n, m, s, e, t) ==
    /\ n \in DOMAIN t /\ m \in DOMAIN t[n].samples
    /\ t[n].samples[m] = e
    /\ \A a \in DOMAIN t : \A i \in DOMAIN t[a].samples :
         \/ a = n /\ i = m
         \/ /\ a \in DOMAIN s /\ i \in DOMAIN s[a].samples
            /\ t[a].samples[i] = s[a].samples[i]
            /\ a < n \/ (a = n /\ i < m)

OneMore(s, e, t) == \E n, m : LastIs(n, m, s, e, t)

\* One turn of the loop: the samples there are stay where they are, and the new
\* one comes last.
LEMMA PackedFacts ==
    ASSUME NEW format, NEW s \in Seq(Shard), NEW e \in Episodes, Fit(s), HasSidecars(s, format),
           NEW t, t = Packed(format, s, e)
    PROVE  /\ t \in Seq(Shard) /\ t # <<>> /\ Fit(t) /\ Within(s, t) /\ OneMore(s, e, t)
           /\ HasSidecars(t, format)
  <1>1. Size[e] \in Nat /\ SidecarSize \in Nat /\ ShardSize \in Nat
    BY ExportAssumption
  <1>2. /\ Len(s) \in Nat /\ DOMAIN s = 1 .. Len(s)
        /\ \A a \in 1 .. Len(s) : s[a] \in Shard
    OBVIOUS
  <1>3. \A a \in 1 .. Len(s) : /\ s[a].samples \in Seq(Episodes) /\ s[a].size \in Nat
                               /\ Len(s[a].samples) \in Nat
                               /\ DOMAIN s[a].samples = 1 .. Len(s[a].samples)
    BY <1>2 DEF Shard
  <1>4. CASE format = "raw" \/ s = <<>> \/ s[Len(s)].size + Size[e] > ShardSize
    <2> DEFINE new == [samples |-> <<e>>, sidecars |-> format # "raw", size |-> SampleSize(e)]
    <2>1. t = Append(s, new)
      BY <1>4 DEF Packed
    <2>2. new \in Shard /\ new.samples = <<e>> /\ (new.sidecars \/ format = "raw")
      <3>1. PICK u \in BOOLEAN : u = (format # "raw")
        OBVIOUS
      <3>2. <<e>> \in Seq(Episodes) /\ SampleSize(e) \in Nat
        BY <1>1 DEF SampleSize
      <3>3. new = [samples |-> <<e>>, sidecars |-> u, size |-> SampleSize(e)]
        BY <3>1
      <3>4. u \/ format = "raw"
        BY <3>1
      <3> HIDE DEF new
      <3>5. new \in Shard
        BY <3>2, <3>3 DEF Shard
      <3>6. new.samples = <<e>> /\ new.sidecars = u
        BY <3>3
      <3> QED BY <3>4, <3>5, <3>6
    <2>3. Len(new.samples) = 1 /\ DOMAIN new.samples = {1} /\ new.samples[1] = e
      BY <2>2
    <2> HIDE DEF new
    <2>4. /\ t \in Seq(Shard) /\ Len(t) = Len(s) + 1 /\ DOMAIN t = 1 .. Len(s) + 1
          /\ t[Len(s) + 1] = new
          /\ \A a \in 1 .. Len(s) : t[a] = s[a]
      BY <1>2, <2>1, <2>2
    <2>5. t # <<>>
      BY <1>2, <2>4
    <2>6. Fit(t)
      <3> SUFFICES ASSUME NEW a \in 1 .. Len(s) + 1, Len(t[a].samples) > 1
                   PROVE  t[a].size <= ShardSize + SidecarSize
        BY <2>4 DEF Fit
      <3>1. a # Len(s) + 1
        <4> SUFFICES ASSUME a = Len(s) + 1 PROVE FALSE
          OBVIOUS
        <4>1. t[a] = new
          BY <2>4
        <4>2. Len(t[a].samples) = 1
          BY <2>3, <4>1
        <4> QED BY <4>2
      <3>2. a \in 1 .. Len(s)
        <4>1. Len(s) \in Nat
          OBVIOUS
        <4> QED BY <3>1, <4>1
      <3> QED BY <1>2, <2>4, <3>2 DEF Fit
    <2>7. Within(s, t)
      BY <1>2, <2>4 DEF Within
    <2>8. /\ Len(s) + 1 \in DOMAIN t /\ 1 \in DOMAIN t[Len(s) + 1].samples
          /\ t[Len(s) + 1].samples[1] = e
      BY <1>2, <2>3, <2>4
    <2>9. ASSUME NEW a \in DOMAIN t, NEW i \in DOMAIN t[a].samples
          PROVE  \/ a = Len(s) + 1 /\ i = 1
                 \/ /\ a \in DOMAIN s /\ i \in DOMAIN s[a].samples
                    /\ t[a].samples[i] = s[a].samples[i]
                    /\ a < Len(s) + 1
      BY <1>2, <2>3, <2>4
    <2>10. LastIs(Len(s) + 1, 1, s, e, t)
      BY <2>8, <2>9 DEF LastIs
    <2>11. HasSidecars(t, format)
      BY <1>2, <2>2, <2>4 DEF HasSidecars
    <2> QED BY <2>4, <2>5, <2>6, <2>7, <2>10, <2>11 DEF OneMore
  <1>5. CASE ~(format = "raw" \/ s = <<>> \/ s[Len(s)].size + Size[e] > ShardSize)
    <2> DEFINE n == Len(s)
               m == Len(s[n].samples) + 1
               new == [samples |-> Append(s[n].samples, e), sidecars |-> s[n].sidecars,
                       size |-> s[n].size + SampleSize(e)]
    <2>1. t = [s EXCEPT ![n] = new]
      BY <1>5 DEF Packed
    <2>2. n \in 1 .. Len(s) /\ s[n].size + Size[e] <= ShardSize
      BY <1>1, <1>2, <1>3, <1>5
    <2>3. /\ new \in Shard
          /\ new.size <= ShardSize + SidecarSize
          /\ new.sidecars = s[n].sidecars
          /\ Len(new.samples) = m /\ DOMAIN new.samples = 1 .. m /\ new.samples[m] = e /\ m \in Nat
          /\ \A i \in 1 .. m - 1 : new.samples[i] = s[n].samples[i]
      <3>1. s[n].samples \in Seq(Episodes) /\ s[n].size \in Nat
        BY <1>3, <2>2
      <3>2. Append(s[n].samples, e) \in Seq(Episodes) /\ s[n].size + SampleSize(e) \in Nat
        BY <1>1, <3>1 DEF SampleSize
      <3>3. new \in Shard /\ new.sidecars = s[n].sidecars
        BY <1>2, <2>2, <3>2 DEF Shard
      <3>4. new.size <= ShardSize + SidecarSize
        BY <1>1, <2>2, <3>1 DEF SampleSize
      <3>5. /\ new.samples = Append(s[n].samples, e)
            /\ Len(Append(s[n].samples, e)) = m
            /\ Append(s[n].samples, e)[m] = e
            /\ \A i \in 1 .. m - 1 : Append(s[n].samples, e)[i] = s[n].samples[i]
        BY <3>1
      <3>6. m \in Nat /\ DOMAIN new.samples = 1 .. m
        BY <3>1, <3>2, <3>5
      <3> QED BY <3>3, <3>4, <3>5, <3>6
    <2> HIDE DEF new
    <2>4. /\ t \in Seq(Shard) /\ Len(t) = Len(s) /\ DOMAIN t = 1 .. Len(s)
          /\ t[n] = new
          /\ \A a \in 1 .. Len(s) : a # n => t[a] = s[a]
      BY <1>2, <2>1, <2>2, <2>3
    <2>5. t # <<>>
      <3>1. Len(s) \in Nat /\ n \in 1 .. Len(s)
        BY <1>2, <2>2
      <3> HIDE DEF n
      <3>2. Len(s) # 0
        BY <3>1
      <3>3. Len(t) = Len(s)
        BY <2>4
      <3> QED BY <3>2, <3>3
    <2>6. Fit(t)
      BY <1>2, <2>3, <2>4 DEF Fit
    <2>7. DOMAIN s[n].samples = 1 .. m - 1
      BY <1>3, <2>2
    <2> HIDE DEF n, m
    <2>8. ASSUME NEW a \in DOMAIN s, NEW i \in DOMAIN s[a].samples
          PROVE  a \in DOMAIN t /\ i \in DOMAIN t[a].samples /\ t[a].samples[i] = s[a].samples[i]
      <3>1. CASE a = n
        BY <1>2, <2>2, <2>3, <2>4, <2>7, <3>1
      <3>2. CASE a # n
        BY <1>2, <2>4, <3>2
      <3> QED BY <3>1, <3>2
    <2>9. ASSUME NEW a \in DOMAIN t, NEW i \in DOMAIN t[a].samples
          PROVE  \/ a = n /\ i = m
                 \/ /\ a \in DOMAIN s /\ i \in DOMAIN s[a].samples
                    /\ t[a].samples[i] = s[a].samples[i]
                    /\ a < n \/ (a = n /\ i < m)
      <3>1. CASE a = n
        BY <1>2, <2>2, <2>3, <2>4, <2>7, <3>1
      <3>2. CASE a # n
        <4>1. a \in 1 .. Len(s) /\ t[a] = s[a]
          BY <2>4, <3>2
        <4>2. a < n
          BY <1>2, <3>2, <4>1 DEF n
        <4> QED BY <1>2, <4>1, <4>2
      <3> QED BY <3>1, <3>2
    <2>10. n \in DOMAIN t /\ m \in DOMAIN t[n].samples /\ t[n].samples[m] = e
      <3>1. m >= 1
        BY <1>3, <2>2 DEF m
      <3> QED BY <2>2, <2>3, <2>4, <3>1
    <2>11. LastIs(n, m, s, e, t)
      BY <2>9, <2>10 DEF LastIs
    <2>12. Within(s, t)
      BY <2>8 DEF Within
    <2>13. HasSidecars(t, format)
      BY <1>2, <2>2, <2>3, <2>4 DEF HasSidecars
    <2> QED BY <2>4, <2>5, <2>6, <2>11, <2>12, <2>13 DEF OneMore
  <1> QED BY <1>4, <1>5

LEMMA ContentsFacts ==
    ASSUME NEW s
    PROVE  \A x : x \in Contents(s) <=>
                \E a \in DOMAIN s : \E i \in DOMAIN s[a].samples : x = s[a].samples[i]
  <1>1. ASSUME NEW x \in Contents(s)
        PROVE  \E a \in DOMAIN s : \E i \in DOMAIN s[a].samples : x = s[a].samples[i]
    <2>1. PICK a \in DOMAIN s : x \in ToSet(s[a].samples)
      BY DEF Contents
    <2> QED BY <2>1 DEF ToSet
  <1>2. ASSUME NEW a \in DOMAIN s, NEW i \in DOMAIN s[a].samples
        PROVE  s[a].samples[i] \in Contents(s)
    <2>1. s[a].samples[i] \in ToSet(s[a].samples)
      BY DEF ToSet
    <2> QED BY <2>1 DEF Contents
  <1> QED BY <1>1, <1>2

LEMMA ContentsGrow ==
    ASSUME NEW s, NEW t, Within(s, t)
    PROVE  Contents(s) \subseteq Contents(t)
  <1>1. \A x : x \in Contents(s) => \E a \in DOMAIN s : \E i \in DOMAIN s[a].samples : x = s[a].samples[i]
    BY ContentsFacts
  <1>2. \A x : (\E a \in DOMAIN t : \E i \in DOMAIN t[a].samples : x = t[a].samples[i]) => x \in Contents(t)
    BY ContentsFacts
  <1> QED BY <1>1, <1>2 DEF Within

LEMMA Elements ==
    ASSUME NEW S, NEW s \in Seq(S)
    PROVE  \A i \in DOMAIN s : i \in Nat /\ s[i] \in S
  OBVIOUS

\* One turn of the loop keeps the loop invariant.
LEMMA PackStep ==
    ASSUME NEW format, NEW s \in Seq(Shard), NEW v \in Seq(Refs), NEW found \in SUBSET Episodes,
           NEW at \in 1 .. Len(v), PackedUpTo(s, v, format, found, at),
           NEW t, t = IF v[at] \in found THEN Packed(format, s, v[at]) ELSE s
    PROVE  t \in Seq(Shard) /\ PackedUpTo(t, v, format, found, at + 1)
  <1>1. /\ Len(v) \in Nat /\ at \in Nat /\ DOMAIN v = 1 .. Len(v)
        /\ 1 .. (at + 1) - 1 = (1 .. at - 1) \cup {at}
        /\ at + 1 \in 1 .. Len(v) + 1
        /\ \A x \in 1 .. at - 1 : x \in DOMAIN v /\ x < at
        /\ at \in DOMAIN v
    OBVIOUS
  <1> DEFINE e == v[at]
  <1>2. at \in 1 .. (at + 1) - 1
    BY <1>1
  <1>3. /\ Fit(s) /\ InOrder(s, v) /\ HasSidecars(s, format)
        /\ \A a \in DOMAIN s : \A i \in DOMAIN s[a].samples : \E x \in 1 .. at - 1 : v[x] = s[a].samples[i]
        /\ \A x \in 1 .. at - 1 : v[x] \in found => v[x] \in Contents(s)
    BY DEF PackedUpTo
  <1>4. CASE e \notin found
    <2>1. t = s
      BY <1>4
    <2>2. \A a \in DOMAIN s : \A i \in DOMAIN s[a].samples : \E x \in 1 .. (at + 1) - 1 : v[x] = s[a].samples[i]
      BY <1>1, <1>3
    <2>3. \A x \in 1 .. (at + 1) - 1 : v[x] \in found => v[x] \in Contents(s)
      BY <1>1, <1>3, <1>4
    <2> QED BY <1>1, <1>3, <2>1, <2>2, <2>3 DEF PackedUpTo
  <1>5. CASE e \in found
    <2>1. t = Packed(format, s, e) /\ e \in Episodes
      BY <1>5
    <2> HIDE DEF e
    <2>2. t \in Seq(Shard) /\ Fit(t) /\ Within(s, t) /\ OneMore(s, e, t) /\ HasSidecars(t, format)
      BY <1>3, <2>1, PackedFacts
    <2>9. PICK n, m : LastIs(n, m, s, e, t)
      BY <2>2 DEF OneMore
    <2>3. /\ n \in DOMAIN t /\ m \in DOMAIN t[n].samples
          /\ t[n].samples[m] = e
          /\ \A a \in DOMAIN t : \A i \in DOMAIN t[a].samples :
               \/ a = n /\ i = m
               \/ /\ a \in DOMAIN s /\ i \in DOMAIN s[a].samples
                  /\ t[a].samples[i] = s[a].samples[i]
                  /\ a < n \/ (a = n /\ i < m)
      BY <2>9 DEF LastIs
    <2>4. v[at] = e
      BY DEF e
    <2>5. ASSUME NEW a \in DOMAIN t, NEW i \in DOMAIN t[a].samples
          PROVE  \E x \in 1 .. (at + 1) - 1 : v[x] = t[a].samples[i]
      <3>1. CASE a = n /\ i = m
        BY <1>2, <2>3, <2>4, <3>1
      <3>2. CASE ~(a = n /\ i = m)
        <4>1. a \in DOMAIN s /\ i \in DOMAIN s[a].samples /\ t[a].samples[i] = s[a].samples[i]
          BY <2>3, <3>2
        <4>2. PICK x \in 1 .. at - 1 : v[x] = s[a].samples[i]
          BY <1>3, <4>1
        <4> QED BY <1>1, <4>1, <4>2
      <3> QED BY <3>1, <3>2
    <2>6. Contents(s) \subseteq Contents(t) /\ e \in Contents(t)
      <3>1. e \in Contents(t)
        BY <2>3, ContentsFacts
      <3>2. Contents(s) \subseteq Contents(t)
        BY <2>2, ContentsGrow
      <3> QED BY <3>1, <3>2
    <2>7. \A x \in 1 .. (at + 1) - 1 : v[x] \in found => v[x] \in Contents(t)
      BY <1>1, <1>3, <2>4, <2>6
    <2>8. InOrder(t, v)
      <3> SUFFICES ASSUME NEW a \in DOMAIN t, NEW b \in DOMAIN t,
                          NEW i \in DOMAIN t[a].samples, NEW k \in DOMAIN t[b].samples,
                          a < b \/ (a = b /\ i < k)
                   PROVE  \E x, y \in DOMAIN v : x < y /\ v[x] = t[a].samples[i] /\ v[y] = t[b].samples[k]
        BY DEF InOrder
      <3>1. n \in Nat /\ m \in Nat /\ a \in Nat /\ b \in Nat /\ i \in Nat /\ k \in Nat
        <4>1. t \in Seq(Shard)
          BY <2>2
        <4>2. \A c \in DOMAIN t : c \in Nat /\ t[c] \in Shard
          BY <4>1, Elements
        <4>3. ASSUME NEW c \in DOMAIN t PROVE DOMAIN t[c].samples \subseteq Nat
          <5>1. t[c].samples \in Seq(Episodes)
            BY <4>2 DEF Shard
          <5> QED BY <5>1
        <4> QED BY <2>3, <4>2, <4>3
      <3>2. ~(a = n /\ i = m)
        <4> SUFFICES ASSUME a = n, i = m PROVE FALSE
          OBVIOUS
        <4>1. (b = n /\ k = m) \/ b < n \/ (b = n /\ k < m)
          BY <2>3
        <4> QED BY <3>1, <4>1
      <3>3. a \in DOMAIN s /\ i \in DOMAIN s[a].samples /\ t[a].samples[i] = s[a].samples[i]
        BY <2>3, <3>2
      <3>4. CASE b = n /\ k = m
        <4>1. PICK x \in 1 .. at - 1 : v[x] = s[a].samples[i]
          BY <1>3, <3>3
        <4>2. x \in DOMAIN v /\ at \in DOMAIN v /\ x < at
          BY <1>1
        <4> QED BY <2>3, <2>4, <3>3, <3>4, <4>1, <4>2
      <3>5. CASE ~(b = n /\ k = m)
        <4>1. b \in DOMAIN s /\ k \in DOMAIN s[b].samples /\ t[b].samples[k] = s[b].samples[k]
          BY <2>3, <3>5
        <4> QED BY <1>3, <3>3, <4>1 DEF InOrder
      <3> QED BY <3>4, <3>5
    <2> QED BY <1>1, <2>2, <2>5, <2>7, <2>8 DEF PackedUpTo
  <1> QED BY <1>4, <1>5

\* At the end of the loop the shards hold what was found of the version.
LEMMA PackedWhole ==
    ASSUME NEW s, NEW v \in Seq(Refs), NEW format, NEW found, NEW rows,
           PackedUpTo(s, v, format, found, Len(v) + 1), ToSet(v) \cap rows \subseteq found
    PROVE  /\ Contents(s) \subseteq ToSet(v)
           /\ ToSet(v) \cap rows \subseteq Contents(s)
           /\ InOrder(s, v)
           /\ HasSidecars(s, format)
  <1>1. DOMAIN v = 1 .. Len(v) /\ 1 .. (Len(v) + 1) - 1 = 1 .. Len(v)
    OBVIOUS
  <1>2. /\ \A a \in DOMAIN s : \A i \in DOMAIN s[a].samples : \E x \in 1 .. Len(v) : v[x] = s[a].samples[i]
        /\ \A x \in 1 .. Len(v) : v[x] \in found => v[x] \in Contents(s)
        /\ InOrder(s, v) /\ HasSidecars(s, format)
    BY <1>1 DEF PackedUpTo
  <1>3. Contents(s) \subseteq ToSet(v)
    BY <1>1, <1>2 DEF Contents, ToSet
  <1>4. ToSet(v) \cap rows \subseteq Contents(s)
    BY <1>1, <1>2 DEF ToSet
  <1> QED BY <1>2, <1>3, <1>4

-----------------------------------------------------------------------------
(* What a step leaves alone                                                *)

\* Neither the row of j, but for its status, nor, while j is alone, its objects
\* change.
SameRow(j) ==
    /\ job'[j].version = job[j].version
    /\ job'[j].format = job[j].format
    /\ job'[j].prefix = job[j].prefix
    /\ job'[j].progress = job[j].progress
    /\ job'[j].url = job[j].url

Kept(j) ==
    /\ SameRow(j)
    /\ Alone(j)' =>
         /\ Alone(j)
         /\ \A n : /\ <<job[j].prefix, n>> \in DOMAIN shards' <=> <<job[j].prefix, n>> \in DOMAIN shards
                   /\ <<job[j].prefix, n>> \in DOMAIN shards =>
                        shards'[<<job[j].prefix, n>>] = shards[<<job[j].prefix, n>>]
         /\ job[j].prefix \in DOMAIN manifest' <=> job[j].prefix \in DOMAIN manifest
         /\ job[j].prefix \in DOMAIN manifest =>
              manifest'[job[j].prefix] = manifest[job[j].prefix]

LEMMA NumbersKept ==
    ASSUME TypeOK, TypeOK', NEW j \in Jobs, Kept(j), Alone(j)', NEW p, p = job[j].prefix
    PROVE  /\ Numbers(p)' = Numbers(p)
           /\ \A n \in Numbers(p) : shards'[<<p, n>>] = shards[<<p, n>>]
           /\ Uploaded(p)' = Uploaded(p)
  <1>1. \A n : n \in Numbers(p) <=> n \in Nat /\ <<p, n>> \in DOMAIN shards
    BY NumbersFacts
  <1>2. \A n : n \in Numbers(p)' <=> n \in Nat /\ <<p, n>> \in DOMAIN shards'
    BY NumbersNext
  <1>3. Numbers(p)' = Numbers(p)
    BY <1>1, <1>2 DEF Kept
  <1>4. \A n \in Numbers(p) : shards'[<<p, n>>] = shards[<<p, n>>]
    BY <1>1 DEF Kept
  <1>5. Uploaded(p)' = Uploaded(p)
    BY <1>3, <1>4 DEF Uploaded
  <1> QED BY <1>3, <1>4, <1>5

LEMMA WholeKept ==
    ASSUME TypeOK, TypeOK', NEW j \in Jobs, Kept(j), episodes' \subseteq episodes,
           job[j].url /\ Alone(j) => Whole(j)
    PROVE  (job[j].url /\ Alone(j) => Whole(j))'
  <1> SUFFICES ASSUME job'[j].url, Alone(j)' PROVE Whole(j)'
    OBVIOUS
  <1>1. SameRow(j) /\ job[j].url /\ Alone(j)
    BY DEF Kept, SameRow
  <1>0. PICK p : p = job[j].prefix
    OBVIOUS
  <1>2. job'[j].prefix = p
    BY <1>0, <1>1 DEF SameRow
  <1>3. PICK s : s = Uploaded(p)
    OBVIOUS
  <1>4. Uploaded(job[j].prefix)' = s
    <2>1. Numbers(p)' = Numbers(p) /\ \A n \in Numbers(p) : shards'[<<p, n>>] = shards[<<p, n>>]
      BY <1>0, NumbersKept
    <2>2. {key[2] : key \in {k \in DOMAIN shards' : k[1] = p}} = Numbers(p)
      BY <2>1 DEF Numbers
    <2> QED BY <1>2, <1>3, <2>1, <2>2 DEF Uploaded, Numbers
  <1>5. Uploaded(job[j].prefix) = s /\ Whole(j)
    BY <1>0, <1>1, <1>3
  <1>6. p \in DOMAIN manifest' /\ manifest'[p] = manifest[p]
    BY <1>0, <1>1, <1>5 DEF Whole, Kept
  <1>7. PICK v, f : v = job[j].version /\ f = job[j].format
    OBVIOUS
  <1>8. /\ manifest[p] = SampleCounts(s) /\ Contents(s) \subseteq ToSet(v)
        /\ ToSet(v) \cap episodes \subseteq Contents(s)
        /\ InOrder(s, v) /\ HasSidecars(s, f)
    BY <1>0, <1>5, <1>7 DEF Whole
  <1> QED BY <1>1, <1>2, <1>4, <1>6, <1>7, <1>8 DEF Whole, SameRow

LEMMA RunningKept ==
    ASSUME TypeOK, TypeOK', NEW x \in Workers, worker'[x] = worker[x],
           stream'[worker[x].entry] = stream[worker[x].entry], Job(x) \in Jobs, Kept(Job(x)),
           episodes' \subseteq episodes, Running(x)
    PROVE  Running(x)'
  <1>0. PICK j \in Jobs : j = Job(x)
    OBVIOUS
  <1>1. Job(x)' = j /\ Kept(j) /\ SameRow(j) /\ worker'[x] = worker[x]
    BY <1>0 DEF Job, Kept
  <1>2. PICK p : p = job[j].prefix
    OBVIOUS
  <1>3. PICK d : d = Done(worker[x])
    OBVIOUS
  <1>5. InBucket(x)'
    <2> SUFFICES ASSUME Alone(j)'
                 PROVE  /\ Numbers(p)' = 1 .. d
                        /\ \A i \in 1 .. d : shards'[<<p, i>>] = worker'[x].shards[i]
      <3>2. (Alone(Job(x)))' = Alone(j)'
        BY <1>1 DEF Alone
      <3> QED BY <1>1, <1>2, <1>3, <3>2 DEF InBucket, Numbers, SameRow
    <2>1. Alone(j)
      BY <1>1 DEF Kept
    <2>2. Numbers(p) = 1 .. d /\ \A i \in 1 .. d : shards[<<p, i>>] = worker[x].shards[i]
      BY <1>0, <1>2, <1>3, <2>1 DEF InBucket, Running
    <2>3. Numbers(p)' = Numbers(p) /\ \A n \in Numbers(p) : shards'[<<p, n>>] = shards[<<p, n>>]
      BY <1>1, <1>2, NumbersKept
    <2> QED BY <1>1, <2>2, <2>3
  <1>6. worker[x].pc \in {"complete", "ack"} => ManifestThere(x)'
    <2> SUFFICES ASSUME worker[x].pc \in {"complete", "ack"}, Alone(j)'
                 PROVE  p \in DOMAIN manifest' /\ manifest'[p] = SampleCounts(worker[x].shards)
      <3>2. (Alone(Job(x)))' = Alone(j)'
        BY <1>1 DEF Alone
      <3> QED BY <1>1, <1>2, <3>2 DEF ManifestThere, SameRow
    <2>1. Alone(j)
      BY <1>1 DEF Kept
    <2>2. p \in DOMAIN manifest /\ manifest[p] = SampleCounts(worker[x].shards)
      BY <1>0, <1>2, <2>1 DEF ManifestThere, Running
    <2> QED BY <1>1, <1>2, <2>2 DEF Kept
  <1>7. Handled(worker[x], job[j].version, job[j].format, job[j].progress, job[j].url, episodes)
    BY <1>0 DEF Running
  <1>8. ASSUME NEW r, NEW v, NEW f, NEW g, NEW u, NEW rows, NEW less \in SUBSET rows,
               Handled(r, v, f, g, u, rows)
        PROVE  Handled(r, v, f, g, u, less)
    BY <1>8, Zenon DEF Handled
  <1>9. Handled(worker[x], job[j].version, job[j].format, job[j].progress, job[j].url, episodes')
    BY <1>7, <1>8
  <1> QED BY <1>1, <1>5, <1>6, <1>9 DEF Running, SameRow

-----------------------------------------------------------------------------
(* Jobs and the workers that handle them                                   *)

LEMMA JobFacts ==
    ASSUME TypeOK, StreamOrder, HandlerOrder, NEW w \in Workers, worker[w].pc \in Handling
    PROVE  /\ worker[w].entry \in 1 .. cursor /\ worker[w].entry \in DOMAIN stream
           /\ Job(w) \in Jobs /\ Created(Job(w)) /\ Job(w) \in Delivered
           /\ \A x \in Workers \ {w} : worker[x].pc \in Handling => Job(x) # Job(w)
           /\ \A i \in 1 .. cursor : i # worker[w].entry => stream[i] # Job(w)
           /\ job[Job(w)].version \in Seq(Refs)
           /\ IsInjective(job[Job(w)].version)
  <1>1. /\ stream \in Seq(Jobs) /\ Len(stream) \in Nat /\ DOMAIN stream = 1 .. Len(stream)
        /\ cursor \in 0 .. Len(stream)
    BY DEF TypeOK
  <1>2. 1 .. cursor \subseteq DOMAIN stream
    BY <1>1
  <1>3. worker[w].entry \in 1 .. cursor
    BY DEF HandlerOrder
  <1>4. \A a, b \in DOMAIN stream : stream[a] = stream[b] => a = b
    BY DEF StreamOrder, IsInjective
  <1>5. \A x \in Workers \ {w} : worker[x].pc \in Handling =>
          worker[x].entry \in 1 .. cursor /\ worker[x].entry # worker[w].entry
    BY DEF HandlerOrder
  <1>6. Job(w) \in Jobs
    BY <1>1, <1>2, <1>3 DEF Job
  <1>7. job[Job(w)].version \in Versions
    BY <1>6 DEF TypeOK
  <1>8. \A v \in Versions : v \in Seq(Refs) /\ IsInjective(v)
    <2>1. \A v \in Versions : v \in Seq(Refs)
      BY ExportAssumption DEF Versions
    <2>2. \A v \in Versions : \A i, k \in DOMAIN v : v[i] = v[k] => i = k
      BY ExportAssumption
    <2> QED BY <2>1, <2>2 DEF IsInjective
  <1>9. Created(Job(w)) /\ Job(w) \in Delivered
    BY <1>2, <1>3 DEF StreamOrder, Job, Delivered
  <1>10. /\ \A x \in Workers \ {w} : worker[x].pc \in Handling => Job(x) # Job(w)
         /\ \A i \in 1 .. cursor : i # worker[w].entry => stream[i] # Job(w)
    BY <1>2, <1>3, <1>4, <1>5 DEF Job
  <1> QED BY <1>2, <1>3, <1>6, <1>7, <1>8, <1>9, <1>10

\* The part of the invariant that a step of the handler of a job can disturb
\* only at this job.
Others(J, W) ==
    /\ \A x \in W : worker[x].pc \in Executing => Running(x)
    /\ \A j \in J : job[j].url /\ Alone(j) => Whole(j)

LEMMA OthersKept ==
    ASSUME TypeOK, TypeOK', StreamOrder, HandlerOrder,
           NEW J \in SUBSET Jobs, NEW W \in SUBSET Workers, Others(J, W),
           \A j \in J : Kept(j),
           \A x \in W : /\ worker'[x] = worker[x]
                        /\ worker[x].pc \in Executing =>
                             /\ stream'[worker[x].entry] = stream[worker[x].entry]
                             /\ Job(x) \in J,
           episodes' \subseteq episodes
    PROVE  Others(J, W)'
  <1>1. ASSUME NEW x \in W, worker'[x].pc \in Executing PROVE Running(x)'
    <2>1. /\ worker'[x] = worker[x] /\ stream'[worker[x].entry] = stream[worker[x].entry]
          /\ Job(x) \in J /\ Kept(Job(x)) /\ Running(x)
      BY <1>1 DEF Others
    <2> QED BY <2>1, RunningKept
  <1>2. ASSUME NEW j \in J, job'[j].url, Alone(j)' PROVE Whole(j)'
    <2>1. (job[j].url /\ Alone(j) => Whole(j))'
      BY WholeKept DEF Others
    <2> QED BY <1>2, <2>1
  <1>3. (Executing)' = Executing
    BY DEF Executing
  <1> QED BY <1>1, <1>2, <1>3 DEF Others

\* What every step of a handler does to the rows, the bucket and the stream.
OwnStep(w) ==
    /\ UNCHANGED <<stream, cursor, episodes>>
    /\ \A x \in Workers \ {w} : worker'[x] = worker[x]
    /\ worker'[w].pc \in Handling => worker'[w].entry = worker[w].entry
    /\ \A j \in Jobs \ {Job(w)} : job'[j] = job[j]
    /\ job'[Job(w)].prefix = job[Job(w)].prefix
    /\ job'[Job(w)].version = job[Job(w)].version
    /\ job'[Job(w)].format = job[Job(w)].format
    /\ job'[Job(w)].status # "none"
    /\ \A key : key[1] # job[Job(w)].prefix =>
         /\ key \in DOMAIN shards' <=> key \in DOMAIN shards
         /\ key \in DOMAIN shards => shards'[key] = shards[key]
    /\ \A p : p # job[Job(w)].prefix =>
         /\ p \in DOMAIN manifest' <=> p \in DOMAIN manifest
         /\ p \in DOMAIN manifest => manifest'[p] = manifest[p]
    /\ \A i \in 1 .. cursor : i # worker[w].entry /\ i \in pending => i \in pending'

LEMMA AloneKept ==
    ASSUME TypeOK, TypeOK', StreamOrder, HandlerOrder,
           NEW w \in Workers, worker[w].pc \in Handling, OwnStep(w)
    PROVE  /\ \A j \in Jobs : Alone(j)' <=> Alone(j)
           /\ \A j \in Jobs : Created(j)' <=> Created(j)
           /\ \A j \in Jobs : job'[j].prefix = job[j].prefix
           /\ \A j \in Jobs \ {Job(w)} : Kept(j)
  <1>1. Job(w) \in Jobs /\ Created(Job(w))
    BY JobFacts
  <1>2. \A j \in Jobs : /\ job'[j].prefix = job[j].prefix
                        /\ job'[j].status # "none" <=> job[j].status # "none"
    BY <1>1 DEF OwnStep, Created
  <1>3. \A j \in Jobs : Alone(j)' <=> Alone(j)
    BY <1>2 DEF Alone
  <1>4. \A j \in Jobs : Created(j)' <=> Created(j)
    BY <1>2 DEF Created
  <1>5. ASSUME NEW j \in Jobs \ {Job(w)} PROVE Kept(j)
    <2>1. job'[j] = job[j]
      BY DEF OwnStep
    <2> SUFFICES ASSUME Alone(j)
                 PROVE  /\ \A n : /\ <<job[j].prefix, n>> \in DOMAIN shards' <=> <<job[j].prefix, n>> \in DOMAIN shards
                                  /\ <<job[j].prefix, n>> \in DOMAIN shards =>
                                       shards'[<<job[j].prefix, n>>] = shards[<<job[j].prefix, n>>]
                        /\ job[j].prefix \in DOMAIN manifest' <=> job[j].prefix \in DOMAIN manifest
                        /\ job[j].prefix \in DOMAIN manifest =>
                             manifest'[job[j].prefix] = manifest[job[j].prefix]
      BY <1>3, <2>1 DEF Kept, SameRow
    <2>2. job[Job(w)].prefix # job[j].prefix
      BY <1>1 DEF Alone, Created
    <2>3. \A n : <<job[j].prefix, n>>[1] # job[Job(w)].prefix
      BY <2>2
    <2> QED BY <2>2, <2>3 DEF OwnStep
  <1> QED BY <1>2, <1>3, <1>4, <1>5

LEMMA OwnStepInv ==
    ASSUME ExportInv, TypeOK', NEW w \in Workers, worker[w].pc \in Handling, OwnStep(w),
           NEW j \in Jobs, j = Job(w),
           (worker[w].pc \in Executing => Running(w))',
           (job[j].url /\ Alone(j) => Whole(j))',
           worker'[w].pc \notin Handling => worker'[w] = Free(worker'[w].pc),
           worker[w].entry \in pending' \/ job'[j].url,
           ShardsFit'
    PROVE  ExportInv'
  <1>1. /\ TypeOK /\ StreamOrder /\ HandlerOrder /\ IdleFree /\ BucketOrder /\ NotYet /\ AckedIsCompleted
        /\ Others(Jobs \ {Job(w)}, Workers \ {w})
    BY DEF ExportInv, Others, CompletedIsWhole
  <1>2. j = Job(w)
    OBVIOUS
  <1>3. /\ worker[w].entry \in 1 .. cursor /\ Created(j) /\ j \in Delivered
        /\ \A x \in Workers \ {w} : worker[x].pc \in Handling => Job(x) \in Jobs \ {j}
        /\ \A i \in 1 .. cursor : i # worker[w].entry => stream[i] # j
    BY <1>1, <1>2, JobFacts
  <1>4. /\ stream' = stream /\ cursor' = cursor /\ episodes' = episodes
        /\ \A x \in Workers \ {w} : worker'[x] = worker[x]
        /\ worker'[w].pc \in Handling => worker'[w].entry = worker[w].entry
        /\ \A i \in 1 .. cursor : i # worker[w].entry /\ i \in pending => i \in pending'
        /\ \A k \in Jobs \ {j} : job'[k] = job[k]
    BY <1>2 DEF OwnStep
  <1>5. /\ \A k \in Jobs : Alone(k)' <=> Alone(k)
        /\ \A k \in Jobs : Created(k)' <=> Created(k)
        /\ \A k \in Jobs : job'[k].prefix = job[k].prefix
        /\ \A k \in Jobs \ {j} : Kept(k)
    BY <1>1, <1>2, AloneKept
  <1>6. (Handling)' = Handling /\ (Executing)' = Executing /\ Executing \subseteq Handling
    BY DEF Handling, Executing
  <1>7. StreamOrder'
    <2>1. \A i \in DOMAIN stream : stream[i] \in Jobs /\ Created(stream[i])
      BY <1>1 DEF TypeOK, StreamOrder
    <2>2. \A i \in DOMAIN stream : job'[stream[i]].status # "none"
      BY <1>5, <2>1 DEF Created
    <2> QED BY <1>1, <1>4, <2>2 DEF StreamOrder, Created, IsInjective
  <1>8. HandlerOrder'
    <2>1. ASSUME NEW y \in Workers, worker'[y].pc \in Handling
          PROVE  worker[y].pc \in Handling /\ worker'[y].entry = worker[y].entry
      BY <1>4, <2>1
    <2> QED BY <1>1, <1>4, <2>1 DEF HandlerOrder, Handling, Executing
  <1>9. BucketOrder'
    <2> SUFFICES ASSUME NEW key \in DOMAIN shards'
                 PROVE  \E k \in Jobs : job'[k].status # "none" /\ job'[k].prefix = key[1]
      BY DEF BucketOrder, Created
    <2>1. CASE key[1] = job[j].prefix
      BY <1>3, <1>5, <2>1 DEF Created
    <2>2. CASE key[1] # job[j].prefix
      <3>1. key \in DOMAIN shards
        BY <1>2, <2>2 DEF OwnStep
      <3>2. PICK k \in Jobs : Created(k) /\ job[k].prefix = key[1]
        BY <1>1, <3>1 DEF BucketOrder
      <3> QED BY <1>5, <3>2 DEF Created
    <2> QED BY <2>1, <2>2
  <1>10. NotYet'
    <2>1. (Delivered)' = Delivered
      BY <1>4 DEF Delivered
    <2>2. ASSUME NEW k \in Jobs \ Delivered
          PROVE  /\ job'[k].progress = 0
                 /\ ~job'[k].url
                 /\ Created(k)' /\ Alone(k)' => Numbers(job[k].prefix)' = {}
      <3>1. k # j /\ job'[k] = job[k] /\ Kept(k)
        BY <1>3, <1>4, <1>5
      <3>2. /\ job[k].progress = 0
            /\ ~job[k].url
            /\ Created(k) /\ Alone(k) => Numbers(job[k].prefix) = {}
        BY <1>1 DEF NotYet
      <3>3. ASSUME Created(k)', Alone(k)' PROVE Numbers(job[k].prefix)' = {}
        <4>1. PICK p : p = job[k].prefix
          OBVIOUS
        <4>2. Numbers(p)' = Numbers(p)
          BY <1>1, <3>1, <3>3, <4>1, NumbersKept
        <4>3. Numbers(p)' = {}
          BY <1>5, <3>2, <3>3, <4>1, <4>2
        <4> QED BY <3>1, <4>1, <4>3 DEF Numbers
      <3> QED BY <3>1, <3>2, <3>3
    <2> QED BY <2>1, <2>2 DEF NotYet
  <1>11. Others(Jobs \ {j}, Workers \ {w})'
    <2>1. \A x \in Workers \ {w} :
            /\ worker'[x] = worker[x]
            /\ worker[x].pc \in Executing =>
                 /\ stream'[worker[x].entry] = stream[worker[x].entry]
                 /\ Job(x) \in Jobs \ {j}
      BY <1>3, <1>4, <1>6
    <2>2. Others(Jobs \ {j}, Workers \ {w})
      BY <1>1, <1>2
    <2> QED BY <1>1, <1>4, <1>5, <2>1, <2>2, OthersKept
  <1>12. /\ \A x \in Workers : (worker[x].pc \in Executing => Running(x))'
         /\ CompletedIsWhole'
    <2>1. \A x \in Workers \ {w} : (worker[x].pc \in Executing => Running(x))'
      BY <1>11 DEF Others
    <2>2. \A k \in Jobs \ {j} : (job[k].url /\ Alone(k) => Whole(k))'
      BY <1>11 DEF Others
    <2> QED BY <2>1, <2>2 DEF CompletedIsWhole
  <1>13. AckedIsCompleted'
    <2> SUFFICES ASSUME NEW i \in 1 .. cursor, i \notin pending' PROVE job'[stream[i]].url
      BY <1>4 DEF AckedIsCompleted
    <2>1. CASE i = worker[w].entry
      BY <1>2, <2>1 DEF Job
    <2>2. CASE i # worker[w].entry
      <3>1. job[stream[i]].url
        BY <1>1, <1>4, <2>2 DEF AckedIsCompleted
      <3>2. stream[i] \in Jobs \ {j}
        BY <1>1, <1>3, <2>2 DEF TypeOK
      <3> QED BY <1>4, <3>1, <3>2
    <2> QED BY <2>1, <2>2
  <1>14. IdleFree'
    BY <1>1, <1>4, <1>6 DEF IdleFree, Free
  <1> QED BY <1>7, <1>8, <1>9, <1>10, <1>12, <1>13, <1>14 DEF ExportInv

\* What the invariant says of a worker that executes job j.
LEMMA ExecutingFacts ==
    ASSUME ExportInv, NEW w \in Workers, worker[w].pc \in Executing,
           NEW j \in Jobs, j = Job(w), NEW p, p = job[j].prefix
    PROVE  /\ Handled(worker[w], job[j].version, job[j].format, job[j].progress, job[j].url, episodes)
           /\ Alone(j) =>
                /\ Numbers(p) = 1 .. Done(worker[w])
                /\ \A i \in 1 .. Done(worker[w]) : shards[<<p, i>>] = worker[w].shards[i]
           /\ Alone(j) /\ worker[w].pc \in {"complete", "ack"} =>
                p \in DOMAIN manifest /\ manifest[p] = SampleCounts(worker[w].shards)
           /\ worker[w].shards \in Seq(Shard)
           /\ job[j].version \in Seq(Refs)
           /\ worker[w].entry \in 1 .. cursor
           /\ worker[w].pc # "ack" => worker[w].entry \in pending
  <1>1. Running(w) /\ TypeOK /\ StreamOrder /\ HandlerOrder /\ AckedIsCompleted
    BY DEF ExportInv
  <1>2. /\ Handled(worker[w], job[j].version, job[j].format, job[j].progress, job[j].url, episodes)
        /\ Alone(j) =>
             /\ Numbers(p) = 1 .. Done(worker[w])
             /\ \A i \in 1 .. Done(worker[w]) : shards[<<p, i>>] = worker[w].shards[i]
        /\ Alone(j) /\ worker[w].pc \in {"complete", "ack"} =>
             p \in DOMAIN manifest /\ manifest[p] = SampleCounts(worker[w].shards)
    BY <1>1, Zenon DEF Running, InBucket, ManifestThere
  <1>3. worker[w].shards \in Seq(Shard)
    BY <1>1 DEF TypeOK
  <1>4. worker[w].pc \in Handling
    BY DEF Handling
  <1>5. job[j].version \in Seq(Refs) /\ worker[w].entry \in 1 .. cursor
    BY <1>1, <1>4, JobFacts
  <1>6. worker[w].pc # "ack" => worker[w].entry \in pending
    BY <1>1, <1>2, <1>5 DEF AckedIsCompleted, Handled, Job
  <1> QED BY <1>2, <1>3, <1>5, <1>6

\* A step of an execution that does not leave it.
LEMMA StayInv ==
    ASSUME ExportInv, TypeOK', NEW w \in Workers, worker[w].pc \in Executing \ {"ack"},
           NEW j \in Jobs, j = Job(w), NEW p, p = job[j].prefix,
           OwnStep(w), UNCHANGED pending,
           NEW r, r = worker'[w], r.pc \in Executing,
           Handled(r, job[j].version, job[j].format, job'[j].progress, job'[j].url, episodes),
           Alone(j) =>
             /\ Numbers(p)' = 1 .. Done(r)
             /\ \A i \in 1 .. Done(r) : shards'[<<p, i>>] = r.shards[i],
           Alone(j) /\ r.pc \in {"complete", "ack"} =>
             p \in DOMAIN manifest' /\ manifest'[p] = SampleCounts(r.shards),
           ShardsFit'
    PROVE  ExportInv'
  <1>1. TypeOK /\ StreamOrder /\ HandlerOrder /\ Executing \subseteq Handling
    BY DEF ExportInv, Handling
  <1>2. /\ \A k \in Jobs : Alone(k)' <=> Alone(k)
        /\ job'[j].prefix = p /\ job'[j].version = job[j].version /\ job'[j].format = job[j].format
        /\ stream' = stream /\ episodes' = episodes
        /\ r.entry = worker[w].entry
    <2>1. \A k \in Jobs : Alone(k)' <=> Alone(k)
      BY <1>1, AloneKept
    <2> QED BY <1>1, <2>1 DEF OwnStep
  <1>3. (Job(w))' = j
    BY <1>2 DEF Job
  <1>4. (worker[w].pc \in Executing => Running(w))'
    <2>1. (Alone(Job(w)))' <=> Alone(j)
      BY <1>2, <1>3 DEF Alone
    <2>2. InBucket(w)'
      BY <1>2, <1>3, <2>1 DEF InBucket, Numbers
    <2>3. (worker[w].pc \in {"complete", "ack"} => ManifestThere(w))'
      BY <1>2, <1>3, <2>1 DEF ManifestThere
    <2> QED BY <1>2, <1>3, <2>2, <2>3 DEF Running
  <1>5. (job[j].url /\ Alone(j) => Whole(j))'
    <2> SUFFICES ASSUME job'[j].url, Alone(j) PROVE Whole(j)'
      BY <1>2
    <2>1. r.pc = "ack"
      BY DEF Handled
    <2>2. Done(r) = Len(r.shards)
      BY <2>1 DEF Done
    <2>3. r.shards \in Seq(Shard) /\ job[j].version \in Seq(Refs)
      <3>1. worker'[w].shards \in Seq(Shard)
        BY DEF TypeOK
      <3> QED BY <3>1, ExecutingFacts
    <2>4. PICK s : s = r.shards
      OBVIOUS
    <2>5. Uploaded(job[j].prefix)' = s
      <3>1. {key[2] : key \in {k \in DOMAIN shards' : k[1] = p}} = 1 .. Len(s)
        BY <2>2, <2>4 DEF Numbers
      <3>2. [i \in 1 .. Len(s) |-> shards'[<<p, i>>]] = [i \in 1 .. Len(s) |-> s[i]]
        BY <2>2, <2>4
      <3>3. [i \in 1 .. Len(s) |-> s[i]] = s
        BY <2>3, <2>4
      <3> QED BY <1>2, <3>1, <3>2, <3>3 DEF Uploaded, Numbers
    <2>6. PICK v \in Seq(Refs) : v = job[j].version
      BY <2>3
    <2>10. PICK found, rows, f : found = r.found /\ rows = episodes /\ f = job[j].format
      OBVIOUS
    <2>7. PackedUpTo(s, v, f, found, Len(v) + 1) /\ ToSet(v) \cap rows \subseteq found
      BY <2>1, <2>4, <2>6, <2>10 DEF Handled, Early
    <2>8. /\ Contents(s) \subseteq ToSet(v)
          /\ ToSet(v) \cap rows \subseteq Contents(s)
          /\ InOrder(s, v) /\ HasSidecars(s, f)
      BY <2>7, PackedWhole
    <2>9. p \in DOMAIN manifest' /\ manifest'[p] = SampleCounts(s)
      BY <2>1, <2>4
    <2> QED BY <1>2, <2>5, <2>6, <2>8, <2>9, <2>10 DEF Whole
  <1>6. worker[w].entry \in pending'
    BY ExecutingFacts
  <1>7. worker'[w].pc \in Handling
    BY <1>1
  <1> QED BY <1>1, <1>4, <1>5, <1>6, <1>7, OwnStepInv

Row == [status : Statuses, version : Versions, format : {"webdataset", "raw"},
        prefix : TargetPrefixes, progress : 0 .. 100, url : BOOLEAN]

Process == [pc : Handling \cup {"down", "boot", "idle"}, entry : 0 .. cursor,
            found : SUBSET Episodes, at : Nat, shards : Seq(Shard), next : Nat]

BucketOK ==
    /\ DOMAIN shards \subseteq TargetPrefixes \X Nat
    /\ \A key \in DOMAIN shards : shards[key] \in Shard
    /\ DOMAIN manifest \subseteq TargetPrefixes
    /\ \A q \in DOMAIN manifest : manifest[q] \in Seq(Nat)

OnlyUnder(p) ==
    /\ \A key : key[1] # p =>
         /\ key \in DOMAIN shards' <=> key \in DOMAIN shards
         /\ key \in DOMAIN shards => shards'[key] = shards[key]
    /\ \A q : q # p =>
         /\ q \in DOMAIN manifest' <=> q \in DOMAIN manifest
         /\ q \in DOMAIN manifest => manifest'[q] = manifest[q]

\* The step of worker w that makes its variables r and the row of its job row.
Step(w, r, row) ==
    /\ worker' = [worker EXCEPT ![w] = r]
    /\ r \in Process
    /\ r.entry = worker[w].entry
    /\ r.pc \in Executing
    /\ job' = [job EXCEPT ![Job(w)] = row]
    /\ row \in Row
    /\ row.prefix = job[Job(w)].prefix /\ row.version = job[Job(w)].version
    /\ row.format = job[Job(w)].format
    /\ row.status # "none"
    /\ Handled(r, row.version, row.format, row.progress, row.url, episodes)
    /\ UNCHANGED <<stream, groupVars, episodes, faults>>

LEMMA StepType ==
    ASSUME ExportInv, NEW w \in Workers, worker[w].pc \in Executing \ {"ack"},
           NEW r, NEW row, Step(w, r, row), BucketOK', OnlyUnder(job[Job(w)].prefix)
    PROVE  TypeOK' /\ OwnStep(w)
  <1>1. TypeOK /\ StreamOrder /\ HandlerOrder /\ worker[w].pc \in Handling
    BY DEF ExportInv, Handling
  <1>2. Job(w) \in Jobs
    BY <1>1, JobFacts
  <1>3. worker' \in [Workers -> Process] /\ job' \in [Jobs -> Row]
    BY <1>1 DEF TypeOK, Step, Row, Process
  <1>4. (Process)' = Process /\ (Row)' = Row
    BY DEF Step, groupVars, Process, Row, Shard, Handling, Executing, Statuses
  <1>5. TypeOK'
    BY <1>1, <1>3, <1>4 DEF TypeOK, Process, Row, BucketOK, Step, groupVars
  <1>6. OwnStep(w)
    <2>1. \A x \in Workers \ {w} : worker'[x] = worker[x]
      BY DEF Step
    <2>2. worker'[w] = r /\ job'[Job(w)] = row
      BY <1>1, <1>2 DEF Step, TypeOK
    <2>3. \A k \in Jobs \ {Job(w)} : job'[k] = job[k]
      BY <1>1 DEF Step, TypeOK
    <2> QED BY <2>1, <2>2, <2>3 DEF OwnStep, Step, groupVars, OnlyUnder
  <1> QED BY <1>5, <1>6

\* Such a step that leaves the bucket alone.
LEMMA QuietStepInv ==
    ASSUME ExportInv, NEW w \in Workers, worker[w].pc \in Executing \ {"ack"},
           NEW r, NEW row, Step(w, r, row), UNCHANGED target,
           Done(r) = Done(worker[w]),
           \A i \in 1 .. Done(r) : r.shards[i] = worker[w].shards[i],
           r.pc \in {"complete", "ack"} =>
             worker[w].pc \in {"complete", "ack"} /\ r.shards = worker[w].shards
    PROVE  ExportInv'
  <1>1. TypeOK /\ StreamOrder /\ HandlerOrder /\ ShardsFit /\ worker[w].pc \in Handling
    BY DEF ExportInv, Handling
  <1>2. PICK j \in Jobs : j = Job(w)
    BY <1>1, JobFacts
  <1>3. PICK p : p = job[j].prefix
    OBVIOUS
  <1>4. shards' = shards /\ manifest' = manifest
    BY DEF target
  <1>5. OnlyUnder(job[Job(w)].prefix)
    BY <1>4 DEF OnlyUnder
  <1>6. BucketOK'
    BY <1>1, <1>4 DEF BucketOK, TypeOK, Shard
  <1>7. TypeOK' /\ OwnStep(w)
    BY <1>5, <1>6, StepType
  <1>8. r = worker'[w] /\ job'[j] = row /\ row.version = job[j].version /\ pending' = pending
    BY <1>1, <1>2 DEF Step, TypeOK, groupVars
  <1>9. Handled(r, job[j].version, job[j].format, job'[j].progress, job'[j].url, episodes)
    BY <1>8 DEF Step
  <1>10. /\ Alone(j) =>
              /\ Numbers(p) = 1 .. Done(worker[w])
              /\ \A i \in 1 .. Done(worker[w]) : shards[<<p, i>>] = worker[w].shards[i]
         /\ Alone(j) /\ worker[w].pc \in {"complete", "ack"} =>
              p \in DOMAIN manifest /\ manifest[p] = SampleCounts(worker[w].shards)
    BY <1>2, <1>3, ExecutingFacts
  <1>11. Alone(j) =>
           /\ Numbers(p)' = 1 .. Done(r)
           /\ \A i \in 1 .. Done(r) : shards'[<<p, i>>] = r.shards[i]
    BY <1>4, <1>10 DEF Numbers
  <1>12. Alone(j) /\ r.pc \in {"complete", "ack"} =>
           p \in DOMAIN manifest' /\ manifest'[p] = SampleCounts(r.shards)
    BY <1>4, <1>10
  <1>13. ShardsFit'
    BY <1>1, <1>4 DEF ShardsFit
  <1>14. r.pc \in Executing
    BY DEF Step
  <1> QED BY <1>2, <1>3, <1>7, <1>8, <1>9, <1>11, <1>12, <1>13, <1>14, StayInv

-----------------------------------------------------------------------------
(* The steps of an execution                                               *)

\* The record of the worker and the row of its job, and their types.
LEMMA Records ==
    ASSUME ExportInv, NEW w \in Workers, worker[w].pc \in Executing
    PROVE  /\ worker[w] \in Process
           /\ Job(w) \in Jobs
           /\ job[Job(w)] \in Row /\ job[Job(w)].status # "none"
           /\ worker \in [Workers -> Process] /\ job \in [Jobs -> Row]
           /\ Handled(worker[w], job[Job(w)].version, job[Job(w)].format, job[Job(w)].progress, job[Job(w)].url, episodes)
           /\ job[Job(w)].version \in Seq(Refs)
  <1>1. TypeOK /\ StreamOrder /\ HandlerOrder /\ worker[w].pc \in Handling
    BY DEF ExportInv, Handling
  <1>2. Job(w) \in Jobs /\ Created(Job(w)) /\ job[Job(w)].version \in Seq(Refs)
    BY <1>1, JobFacts
  <1>3. worker \in [Workers -> Process] /\ job \in [Jobs -> Row]
    BY <1>1 DEF TypeOK, Process, Row
  <1>4. Handled(worker[w], job[Job(w)].version, job[Job(w)].format, job[Job(w)].progress, job[Job(w)].url, episodes)
    BY DEF ExportInv, Running
  <1> QED BY <1>2, <1>3, <1>4 DEF Created

LEMMA StartJobInv ==
    ASSUME ExportInv, NEW w \in Workers, StartJob(w)
    PROVE  ExportInv'
  <1>1. worker[w].pc = "start" /\ worker[w].pc \in Executing \ {"ack"}
    BY DEF StartJob, At, Executing
  <1>2. /\ worker[w] \in Process /\ Job(w) \in Jobs /\ job[Job(w)] \in Row
        /\ Handled(worker[w], job[Job(w)].version, job[Job(w)].format, job[Job(w)].progress, job[Job(w)].url, episodes)
    BY <1>1, Records
  <1> DEFINE r == [worker[w] EXCEPT !.pc = "resolve"]
             row == [job[Job(w)] EXCEPT !.status = "running"]
  <1>3. /\ r \in Process /\ r.pc = "resolve" /\ r.entry = worker[w].entry /\ r.at = worker[w].at
        /\ r.shards = worker[w].shards /\ r.next = worker[w].next
    BY <1>2 DEF Process, Handling, Executing
  <1>4. /\ row \in Row /\ row.status = "running" /\ row.prefix = job[Job(w)].prefix
        /\ row.version = job[Job(w)].version /\ row.format = job[Job(w)].format /\ row.progress = job[Job(w)].progress
        /\ row.url = job[Job(w)].url
    BY <1>2 DEF Row, Statuses
  <1>5. worker' = [worker EXCEPT ![w] = r] /\ job' = [job EXCEPT ![Job(w)] = row]
    BY DEF StartJob, GoTo
  <1> HIDE DEF r, row
  <1>6. Done(r) = 0 /\ Done(worker[w]) = 0
    BY <1>1, <1>3 DEF Done
  <1>7. Handled(r, row.version, row.format, row.progress, row.url, episodes)
    BY <1>1, <1>2, <1>3, <1>4, <1>6, Zenon DEF Handled, Early
  <1>8. Step(w, r, row) /\ UNCHANGED target
    BY <1>3, <1>4, <1>5, <1>7 DEF Step, StartJob, Executing
  <1>9. /\ \A i \in 1 .. Done(r) : r.shards[i] = worker[w].shards[i]
        /\ r.pc \in {"complete", "ack"} =>
             worker[w].pc \in {"complete", "ack"} /\ r.shards = worker[w].shards
    BY <1>3
  <1> QED BY <1>1, <1>6, <1>8, <1>9, QuietStepInv

LEMMA PackedNothing ==
    ASSUME NEW v \in Seq(Refs), NEW format, NEW found
    PROVE  PackedUpTo(<<>>, v, format, found, 1)
  <1>1. Len(v) \in Nat
    OBVIOUS
  <1>2. 1 \in 1 .. Len(v) + 1 /\ 1 .. 1 - 1 = {}
    BY <1>1
  <1>3. DOMAIN <<>> = {}
    OBVIOUS
  <1> QED BY <1>2, <1>3 DEF PackedUpTo, InOrder, Fit, HasSidecars

LEMMA ResolveInv ==
    ASSUME ExportInv, NEW w \in Workers, ResolveEpisodeRefs(w)
    PROVE  ExportInv'
  <1>1. worker[w].pc = "resolve" /\ worker[w].pc \in Executing \ {"ack"}
    BY DEF ResolveEpisodeRefs, At, Executing
  <1>2. /\ worker[w] \in Process /\ Job(w) \in Jobs /\ job[Job(w)] \in Row /\ job \in [Jobs -> Row]
        /\ job[Job(w)].status # "none" /\ job[Job(w)].version \in Seq(Refs)
        /\ Handled(worker[w], job[Job(w)].version, job[Job(w)].format, job[Job(w)].progress, job[Job(w)].url, episodes)
    BY <1>1, Records
  <1> DEFINE refs == ToSet(job[Job(w)].version)
             found == refs \cap ({Canonical[ref] : ref \in refs} \cap episodes)
             r == [worker[w] EXCEPT !.pc = "pack", !.found = found]
             row == job[Job(w)]
  <1>3. found \in SUBSET Episodes
    BY DEF ExportInv, TypeOK
  <1>12. refs \cap episodes \subseteq found
    <2>1. refs \subseteq Refs
      <3>1. \A i \in DOMAIN job[Job(w)].version : job[Job(w)].version[i] \in Refs
        BY <1>2, Elements
      <3> QED BY <3>1 DEF ToSet
    <2>2. episodes \subseteq Episodes
      BY DEF ExportInv, TypeOK
    <2>3. \A ref \in refs \cap episodes : Canonical[ref] = ref
      BY <2>1, <2>2, ExportAssumption
    <2> HIDE DEF refs
    <2> QED BY <2>3
  <1> HIDE DEF found
  <1>4. /\ r \in Process /\ r.pc = "pack" /\ r.entry = worker[w].entry /\ r.at = worker[w].at
        /\ r.shards = worker[w].shards /\ r.next = worker[w].next /\ r.found = found
    BY <1>2, <1>3 DEF Process, Handling, Executing
  <1>5. worker' = [worker EXCEPT ![w] = r] /\ job' = [job EXCEPT ![Job(w)] = row]
    BY <1>2 DEF ResolveEpisodeRefs, found
  <1> HIDE DEF r, row
  <1>6. Done(r) = 0 /\ Done(worker[w]) = 0
    BY <1>1, <1>4 DEF Done
  <1>7. PackedUpTo(r.shards, row.version, row.format, r.found, r.at)
    <2>1. r.shards = <<>> /\ r.at = 1
      BY <1>1, <1>2, <1>4 DEF Handled
    <2> QED BY <1>2, <2>1, PackedNothing DEF row
  <1>8. ToSet(row.version) \cap episodes \subseteq r.found
    BY <1>4, <1>12 DEF row
  <1>9. Handled(r, row.version, row.format, row.progress, row.url, episodes)
    BY <1>1, <1>2, <1>4, <1>6, <1>7, <1>8, Zenon DEF Handled, Early, row
  <1>10. Step(w, r, row) /\ UNCHANGED target
    BY <1>2, <1>4, <1>5, <1>9 DEF Step, ResolveEpisodeRefs, Executing, row
  <1>11. /\ \A i \in 1 .. Done(r) : r.shards[i] = worker[w].shards[i]
         /\ r.pc \in {"complete", "ack"} =>
              worker[w].pc \in {"complete", "ack"} /\ r.shards = worker[w].shards
    BY <1>4
  <1> QED BY <1>1, <1>6, <1>10, <1>11, QuietStepInv

LEMMA ExportSampleInv ==
    ASSUME ExportInv, NEW w \in Workers, ExportSample(w)
    PROVE  ExportInv'
  <1>1. worker[w].pc = "pack" /\ worker[w].pc \in Executing \ {"ack"}
    BY DEF ExportSample, At, Executing
  <1>2. /\ worker[w] \in Process /\ Job(w) \in Jobs /\ job[Job(w)] \in Row /\ job \in [Jobs -> Row]
        /\ job[Job(w)].status # "none" /\ job[Job(w)].version \in Seq(Refs)
        /\ Handled(worker[w], job[Job(w)].version, job[Job(w)].format, job[Job(w)].progress, job[Job(w)].url, episodes)
    BY <1>1, Records
  <1>3. PICK v \in Seq(Refs) : v = job[Job(w)].version
    BY <1>2
  <1>4. PICK at \in 1 .. Len(v) : at = worker[w].at
    <2>1. worker[w].at \in Nat /\ worker[w].at <= Len(v)
      BY <1>2, <1>3 DEF Process, ExportSample
    <2>2. worker[w].at \in 1 .. Len(v) + 1
      BY <1>1, <1>2, <1>3 DEF Handled, PackedUpTo
    <2> QED BY <2>1, <2>2
  <1>18. PICK s \in Seq(Shard) : s = worker[w].shards
    BY <1>2 DEF Process
  <1>5. PICK found \in SUBSET Episodes : found = worker[w].found
    BY <1>2 DEF Process
  <1>19. PICK format : format = job[Job(w)].format
    OBVIOUS
  <1>6. PICK t : t = IF v[at] \in found THEN Packed(format, s, v[at]) ELSE s
    OBVIOUS
  <1>7. PackedUpTo(s, v, format, found, at) /\ ToSet(v) \cap episodes \subseteq found
    BY <1>1, <1>2, <1>3, <1>4, <1>5, <1>18, <1>19 DEF Handled
  <1>8. t \in Seq(Shard) /\ PackedUpTo(t, v, format, found, at + 1)
    BY <1>6, <1>7, PackStep
  <1> DEFINE r == [worker[w] EXCEPT !.at = at + 1, !.shards = t]
             row == job[Job(w)]
  <1>9. /\ r \in Process /\ r.pc = "pack" /\ r.entry = worker[w].entry /\ r.at = at + 1
        /\ r.shards = t /\ r.next = worker[w].next /\ r.found = found
    <2>1. at + 1 \in Nat
      <3>1. Len(v) \in Nat
        OBVIOUS
      <3> QED BY <3>1
    <2> QED BY <1>1, <1>2, <1>5, <1>8, <2>1 DEF Process
  <1>10. worker' = [worker EXCEPT ![w] = r] /\ job' = [job EXCEPT ![Job(w)] = row]
    <2>1. worker' = [worker EXCEPT ![w].at = @ + 1, ![w].shards =
                        IF v[at] \in found THEN Packed(format, @, v[at]) ELSE @]
      BY <1>3, <1>4, <1>5, <1>18, <1>19 DEF ExportSample
    <2>2. worker' = [worker EXCEPT ![w] = r]
      BY <1>2, <1>4, <1>5, <1>6, <1>18, <2>1
    <2> QED BY <1>2, <2>2 DEF ExportSample
  <1> HIDE DEF r, row
  <1>11. Done(r) = 0 /\ Done(worker[w]) = 0
    BY <1>1, <1>9 DEF Done
  <1>12. /\ row.progress = 0 /\ row.version = v /\ row.format = format
         /\ row.url = FALSE /\ worker[w].next = 1
    BY <1>1, <1>2, <1>3, <1>19 DEF Handled, Early, row, Row
  <1>13. Len(t) \in Nat
    BY <1>8
  <1>14. row.progress * Len(r.shards) <= 100 * Done(r)
    BY <1>9, <1>11, <1>12, <1>13
  <1>15. Handled(r, row.version, row.format, row.progress, row.url, episodes)
    BY <1>7, <1>8, <1>9, <1>12, <1>14 DEF Handled, Early
  <1>16. Step(w, r, row) /\ UNCHANGED target
    BY <1>2, <1>9, <1>10, <1>15 DEF Step, ExportSample, Executing, row
  <1>17. /\ \A i \in 1 .. Done(r) : r.shards[i] = worker[w].shards[i]
         /\ r.pc \in {"complete", "ack"} =>
              worker[w].pc \in {"complete", "ack"} /\ r.shards = worker[w].shards
    BY <1>9, <1>11
  <1> QED BY <1>1, <1>11, <1>16, <1>17, QuietStepInv

LEMMA ExportDoneInv ==
    ASSUME ExportInv, NEW w \in Workers, ExportDone(w)
    PROVE  ExportInv'
  <1>1. worker[w].pc = "pack" /\ worker[w].pc \in Executing \ {"ack"}
    BY DEF ExportDone, At, Executing
  <1>2. /\ worker[w] \in Process /\ Job(w) \in Jobs /\ job[Job(w)] \in Row /\ job \in [Jobs -> Row]
        /\ job[Job(w)].status # "none" /\ job[Job(w)].version \in Seq(Refs)
        /\ Handled(worker[w], job[Job(w)].version, job[Job(w)].format, job[Job(w)].progress, job[Job(w)].url, episodes)
    BY <1>1, Records
  <1>3. PICK v \in Seq(Refs) : v = job[Job(w)].version
    BY <1>2
  <1>4. PICK s \in Seq(Shard) : s = worker[w].shards
    BY <1>2 DEF Process
  <1>5. worker[w].at = Len(v) + 1
    <2>1. worker[w].at \in Nat /\ worker[w].at > Len(v)
      BY <1>2, <1>3 DEF Process, ExportDone
    <2>2. worker[w].at \in 1 .. Len(v) + 1
      BY <1>1, <1>2, <1>3 DEF Handled, PackedUpTo
    <2>3. Len(v) \in Nat
      OBVIOUS
    <2> QED BY <2>1, <2>2, <2>3
  <1>6. PICK pc : pc = IF s = <<>> THEN "manifest" ELSE "upload"
    OBVIOUS
  <1> DEFINE r == [worker[w] EXCEPT !.pc = pc]
             row == job[Job(w)]
  <1>7. /\ r \in Process /\ r.pc = pc /\ r.entry = worker[w].entry /\ r.at = Len(v) + 1
        /\ r.shards = s /\ r.next = worker[w].next /\ r.found = worker[w].found
    BY <1>2, <1>4, <1>5, <1>6 DEF Process, Handling, Executing
  <1>8. worker' = [worker EXCEPT ![w] = r] /\ job' = [job EXCEPT ![Job(w)] = row]
    BY <1>2, <1>4, <1>6 DEF ExportDone, GoTo
  <1> HIDE DEF r, row
  <1>9. row.progress = 0 /\ row.version = v /\ row.url = FALSE /\ r.next = 1
    BY <1>1, <1>2, <1>3, <1>7 DEF Handled, Early, row, Row
  <1>10. Len(s) \in Nat /\ (s # <<>> => 1 \in 1 .. Len(s))
    OBVIOUS
  <1>11. Done(r) = 0 /\ Done(worker[w]) = 0
    BY <1>1, <1>6, <1>7, <1>9 DEF Done
  <1>12. row.progress * Len(r.shards) <= 100 * Done(r)
    BY <1>7, <1>9, <1>10, <1>11
  <1>13. Handled(r, row.version, row.format, row.progress, row.url, episodes)
    <2>1. PackedUpTo(s, v, row.format, r.found, r.at) /\ ToSet(v) \cap episodes \subseteq r.found
      BY <1>1, <1>2, <1>3, <1>4, <1>5, <1>7 DEF Handled, row
    <2> QED BY <1>6, <1>7, <1>9, <1>10, <1>12, <2>1 DEF Handled, Early
  <1>14. Step(w, r, row) /\ UNCHANGED target
    BY <1>2, <1>6, <1>7, <1>8, <1>13 DEF Step, ExportDone, Executing, row
  <1>15. /\ \A i \in 1 .. Done(r) : r.shards[i] = worker[w].shards[i]
         /\ r.pc \in {"complete", "ack"} =>
              worker[w].pc \in {"complete", "ack"} /\ r.shards = worker[w].shards
    BY <1>4, <1>6, <1>7
  <1> QED BY <1>1, <1>11, <1>14, <1>15, QuietStepInv

LEMMA UpdateProgressInv ==
    ASSUME ExportInv, NEW w \in Workers, UpdateJobProgress(w)
    PROVE  ExportInv'
  <1>1. worker[w].pc = "progress" /\ worker[w].pc \in Executing \ {"ack"}
    BY DEF UpdateJobProgress, At, Executing
  <1>2. /\ worker[w] \in Process /\ Job(w) \in Jobs /\ job[Job(w)] \in Row
        /\ job[Job(w)].status # "none"
        /\ Handled(worker[w], job[Job(w)].version, job[Job(w)].format, job[Job(w)].progress, job[Job(w)].url, episodes)
    BY <1>1, Records
  <1>3. PICK s \in Seq(Shard) : s = worker[w].shards
    BY <1>2 DEF Process
  <1>4. PICK n \in Nat : n = Len(s)
    OBVIOUS
  <1>5. PICK k \in 1 .. n : k = worker[w].next
    BY <1>1, <1>2, <1>3, <1>4 DEF Handled
  <1>6. PICK pc : pc = IF k = n THEN "manifest" ELSE "upload"
    OBVIOUS
  <1>7. PICK g : g = (100 * k) \div n
    OBVIOUS
  <1>18. n \in Nat \ {0} /\ k + 1 \in Nat
    BY <1>5
  <1>8. g \in 0 .. 100 /\ g * n <= 100 * k
    <2>1. /\ (100 * k) \div n \in 0 .. 100
          /\ ((100 * k) \div n) * n <= 100 * k
      BY <1>18, PercentFacts
    <2> QED BY <1>7, <2>1
  <1> DEFINE r == [worker[w] EXCEPT !.next = k + 1, !.pc = pc]
             row == [job[Job(w)] EXCEPT !.progress = g]
  <1>9. /\ r \in Process /\ r.pc = pc /\ r.entry = worker[w].entry /\ r.at = worker[w].at
        /\ r.shards = s /\ r.next = k + 1 /\ r.found = worker[w].found
    BY <1>2, <1>3, <1>6, <1>18 DEF Process, Handling, Executing
  <1>10. /\ row \in Row /\ row.status # "none" /\ row.prefix = job[Job(w)].prefix
         /\ row.version = job[Job(w)].version /\ row.format = job[Job(w)].format /\ row.progress = g
         /\ row.url = job[Job(w)].url
    BY <1>2, <1>8 DEF Row
  <1>11. worker' = [worker EXCEPT ![w] = r] /\ job' = [job EXCEPT ![Job(w)] = row]
    BY <1>2, <1>3, <1>4, <1>5, <1>6, <1>7 DEF UpdateJobProgress
  <1> HIDE DEF r, row
  <1>12. Done(r) = k /\ Done(worker[w]) = k
    BY <1>1, <1>4, <1>5, <1>6, <1>9 DEF Done
  <1>13. pc = "upload" => k + 1 \in 1 .. n
    BY <1>6
  <1>14. Handled(r, row.version, row.format, row.progress, row.url, episodes)
    <2>1. row.progress * Len(r.shards) <= 100 * Done(r)
      BY <1>4, <1>8, <1>9, <1>10, <1>12
    <2>2. /\ PackedUpTo(s, row.version, row.format, r.found, r.at) /\ ToSet(row.version) \cap episodes \subseteq r.found
          /\ r.at = Len(row.version) + 1 /\ ~row.url
      BY <1>1, <1>2, <1>3, <1>9, <1>10 DEF Handled, Early, Row
    <2> QED BY <1>4, <1>6, <1>9, <1>10, <1>13, <2>1, <2>2 DEF Handled, Early, Row
  <1>15. Step(w, r, row) /\ UNCHANGED target
    BY <1>6, <1>9, <1>10, <1>11, <1>14 DEF Step, UpdateJobProgress, Executing
  <1>16. /\ \A i \in 1 .. Done(r) : r.shards[i] = worker[w].shards[i]
         /\ r.pc \in {"complete", "ack"} =>
              worker[w].pc \in {"complete", "ack"} /\ r.shards = worker[w].shards
    BY <1>3, <1>6, <1>9
  <1>17. Done(r) = Done(worker[w])
    BY <1>12
  <1> QED BY <1>1, <1>15, <1>16, <1>17, QuietStepInv

LEMMA CompleteJobInv ==
    ASSUME ExportInv, NEW w \in Workers, CompleteJob(w)
    PROVE  ExportInv'
  <1>1. worker[w].pc = "complete" /\ worker[w].pc \in Executing \ {"ack"}
    BY DEF CompleteJob, At, Executing
  <1>2. /\ worker[w] \in Process /\ Job(w) \in Jobs /\ job[Job(w)] \in Row
        /\ Handled(worker[w], job[Job(w)].version, job[Job(w)].format, job[Job(w)].progress, job[Job(w)].url, episodes)
    BY <1>1, Records
  <1>3. PICK s \in Seq(Shard) : s = worker[w].shards
    BY <1>2 DEF Process
  <1>4. Len(s) \in Nat
    OBVIOUS
  <1> DEFINE r == [worker[w] EXCEPT !.pc = "ack"]
             row == [job[Job(w)] EXCEPT !.status = "completed", !.progress = 100, !.url = TRUE]
  <1>5. /\ r \in Process /\ r.pc = "ack" /\ r.entry = worker[w].entry /\ r.at = worker[w].at
        /\ r.shards = s /\ r.next = worker[w].next /\ r.found = worker[w].found
    BY <1>2, <1>3 DEF Process, Handling, Executing
  <1>6. /\ row \in Row /\ row.status = "completed" /\ row.prefix = job[Job(w)].prefix
        /\ row.version = job[Job(w)].version /\ row.format = job[Job(w)].format /\ row.progress = 100 /\ row.url = TRUE
    <2>1. 100 \in 0 .. 100 /\ TRUE \in BOOLEAN /\ "completed" \in Statuses
      BY DEF Statuses
    <2> QED BY <1>2, <2>1 DEF Row
  <1>7. worker' = [worker EXCEPT ![w] = r] /\ job' = [job EXCEPT ![Job(w)] = row]
    BY <1>2 DEF CompleteJob, GoTo
  <1> HIDE DEF r, row
  <1>8. Done(r) = Len(s) /\ Done(worker[w]) = Len(s)
    BY <1>1, <1>3, <1>5 DEF Done
  <1>9. Handled(r, row.version, row.format, row.progress, row.url, episodes)
    <2>1. row.progress * Len(r.shards) <= 100 * Done(r)
      BY <1>4, <1>5, <1>6, <1>8
    <2>2. /\ PackedUpTo(s, row.version, row.format, r.found, r.at) /\ ToSet(row.version) \cap episodes \subseteq r.found
          /\ r.at = Len(row.version) + 1
      BY <1>1, <1>2, <1>3, <1>5, <1>6 DEF Handled, Early
    <2> QED BY <1>5, <1>6, <2>1, <2>2 DEF Handled, Early
  <1>10. Step(w, r, row) /\ UNCHANGED target
    BY <1>5, <1>6, <1>7, <1>9 DEF Step, CompleteJob, Executing
  <1>11. /\ \A i \in 1 .. Done(r) : r.shards[i] = worker[w].shards[i]
         /\ r.pc \in {"complete", "ack"} =>
              worker[w].pc \in {"complete", "ack"} /\ r.shards = worker[w].shards
    BY <1>1, <1>3, <1>5
  <1>12. Done(r) = Done(worker[w])
    BY <1>8
  <1> QED BY <1>1, <1>10, <1>11, <1>12, QuietStepInv

LEMMA UploadShardInv ==
    ASSUME ExportInv, NEW w \in Workers, UploadShard(w)
    PROVE  ExportInv'
  <1>1. worker[w].pc = "upload" /\ worker[w].pc \in Executing \ {"ack"}
    BY DEF UploadShard, At, Executing
  <1>2. /\ worker[w] \in Process /\ job[Job(w)] \in Row /\ job \in [Jobs -> Row]
        /\ job[Job(w)].status # "none"
        /\ Handled(worker[w], job[Job(w)].version, job[Job(w)].format, job[Job(w)].progress, job[Job(w)].url, episodes)
    BY <1>1, Records
  <1>3. PICK j \in Jobs : j = Job(w)
    BY <1>1, Records
  <1>4. PICK p : p = job[j].prefix
    OBVIOUS
  <1>5. PICK s \in Seq(Shard) : s = worker[w].shards
    BY <1>2 DEF Process
  <1>6. PICK n \in Nat : n = Len(s)
    OBVIOUS
  <1>7. PICK k \in 1 .. n : k = worker[w].next
    BY <1>1, <1>2, <1>5, <1>6 DEF Handled
  <1>8. s[k] \in Shard /\ k \in Nat /\ k \in DOMAIN s
    BY <1>6
  <1> DEFINE r == [worker[w] EXCEPT !.pc = "progress"]
             row == job[Job(w)]
  <1>9. /\ r \in Process /\ r.pc = "progress" /\ r.entry = worker[w].entry /\ r.at = worker[w].at
        /\ r.shards = s /\ r.next = k /\ r.found = worker[w].found
    BY <1>2, <1>5, <1>7 DEF Process, Handling, Executing
  <1>10. worker' = [worker EXCEPT ![w] = r] /\ job' = [job EXCEPT ![Job(w)] = row]
    BY <1>2 DEF UploadShard, GoTo
  <1> HIDE DEF r, row
  <1>11. Done(worker[w]) = k - 1 /\ Done(r) = k
    BY <1>1, <1>7, <1>9 DEF Done
  <1>12. Handled(r, row.version, row.format, row.progress, row.url, episodes)
    <2>1. PICK g \in Nat : g = row.progress
      <3>1. row.progress \in 0 .. 100
        BY <1>2 DEF row, Row
      <3>2. \A x \in 0 .. 100 : x \in Nat
        OBVIOUS
      <3> QED BY <3>1, <3>2, Zenon
    <2>2. g * n <= 100 * (k - 1)
      BY <1>2, <1>5, <1>6, <1>11, <2>1 DEF Handled, row
    <2>3. g * n <= 100 * k
      <3>1. g * n \in Nat
        BY <2>1
      <3>2. 100 * (k - 1) <= 100 * k
        BY <1>8
      <3> QED BY <1>8, <2>2, <3>1, <3>2
    <2>4. row.progress * Len(r.shards) <= 100 * Done(r)
      BY <1>6, <1>9, <1>11, <2>1, <2>3
    <2>5. /\ PackedUpTo(s, row.version, row.format, r.found, r.at) /\ ToSet(row.version) \cap episodes \subseteq r.found
          /\ r.at = Len(row.version) + 1 /\ ~row.url
      BY <1>1, <1>2, <1>5, <1>9 DEF Handled, Early, row, Row
    <2> QED BY <1>6, <1>9, <2>4, <2>5 DEF Handled, Early, row, Row
  <1>13. Step(w, r, row)
    BY <1>2, <1>9, <1>10, <1>12 DEF Step, UploadShard, Executing, row
  <1>14. shards' = Put(shards, <<p, k>>, s[k]) /\ manifest' = manifest
    BY <1>3, <1>4, <1>5, <1>7 DEF UploadShard
  <1>15. /\ DOMAIN shards' = DOMAIN shards \cup {<<p, k>>}
         /\ shards'[<<p, k>>] = s[k]
         /\ \A key \in DOMAIN shards : key # <<p, k>> => shards'[key] = shards[key]
    BY <1>14 DEF Put
  <1>16. TypeOK /\ ShardsFit
    BY DEF ExportInv
  <1>17. p \in TargetPrefixes
    BY <1>2, <1>3, <1>4 DEF Row
  <1>18. BucketOK'
    <2>1. DOMAIN shards' \subseteq TargetPrefixes \X Nat
      BY <1>8, <1>15, <1>16, <1>17 DEF TypeOK
    <2>2. \A key \in DOMAIN shards' : shards'[key] \in Shard
      BY <1>8, <1>15, <1>16 DEF TypeOK
    <2> QED BY <1>14, <1>16, <2>1, <2>2 DEF BucketOK, TypeOK, Shard
  <1>19. OnlyUnder(p)
    <2>1. ASSUME NEW key, key[1] # p
          PROVE  /\ key \in DOMAIN shards' <=> key \in DOMAIN shards
                 /\ key \in DOMAIN shards => shards'[key] = shards[key]
      <3>1. key # <<p, k>>
        BY <2>1
      <3> QED BY <1>15, <3>1
    <2> QED BY <1>14, <2>1 DEF OnlyUnder
  <1>22. TypeOK' /\ OwnStep(w)
    BY <1>1, <1>3, <1>4, <1>13, <1>18, <1>19, StepType
  <1>20. ShardsFit'
    <2>1. Fit(s)
      BY <1>1, <1>2, <1>5 DEF Handled, PackedUpTo
    <2>2. Len(s[k].samples) > 1 => s[k].size <= ShardSize + SidecarSize
      BY <1>8, <2>1 DEF Fit
    <2> QED BY <1>15, <1>16, <2>2 DEF ShardsFit
  <1>21. Alone(j) =>
           /\ Numbers(p)' = 1 .. k
           /\ \A i \in 1 .. k : shards'[<<p, i>>] = s[i]
    <2> SUFFICES ASSUME Alone(j)
                 PROVE  /\ Numbers(p)' = 1 .. k
                        /\ \A i \in 1 .. k : shards'[<<p, i>>] = s[i]
      OBVIOUS
    <2>1. /\ Numbers(p) = 1 .. Done(worker[w])
          /\ \A i \in 1 .. Done(worker[w]) : shards[<<p, i>>] = worker[w].shards[i]
      BY <1>1, <1>3, <1>4, ExecutingFacts
    <2>2. /\ Numbers(p) = 1 .. k - 1
          /\ \A i \in 1 .. k - 1 : shards[<<p, i>>] = s[i]
      BY <1>5, <1>11, <2>1
    <2>3. \A i : i \in Numbers(p) <=> i \in Nat /\ <<p, i>> \in DOMAIN shards
      BY <1>16, NumbersFacts
    <2>4. Numbers(p)' = Numbers(p) \cup {k}
      <3>1. \A i : i \in Numbers(p)' <=> i \in Nat /\ <<p, i>> \in DOMAIN shards'
        BY <1>22, NumbersNext
      <3>2. \A i : <<p, i>> \in DOMAIN shards' <=> <<p, i>> \in DOMAIN shards \/ i = k
        BY <1>15
      <3> QED BY <1>8, <2>3, <3>1, <3>2
    <2>5. 1 .. k = (1 .. k - 1) \cup {k}
      BY <1>8, <1>7
    <2>6. ASSUME NEW i \in 1 .. k PROVE shards'[<<p, i>>] = s[i]
      <3>1. CASE i = k
        BY <1>15, <3>1
      <3>2. CASE i # k
        <4>1. i \in 1 .. k - 1
          BY <2>5, <3>2
        <4>2. <<p, i>> \in DOMAIN shards /\ <<p, i>> # <<p, k>>
          BY <2>2, <2>3, <3>2, <4>1
        <4> QED BY <1>15, <2>2, <4>1, <4>2
      <3> QED BY <3>1, <3>2
    <2> QED BY <2>2, <2>4, <2>5, <2>6
  <1>23. /\ r = worker'[w] /\ job'[j] = row /\ row.version = job[j].version
         /\ row.format = job[j].format /\ pending' = pending
    BY <1>2, <1>3, <1>13, <1>16 DEF Step, TypeOK, groupVars
  <1>24. Handled(r, job[j].version, job[j].format, job'[j].progress, job'[j].url, episodes)
    BY <1>12, <1>23
  <1>25. Alone(j) =>
           /\ Numbers(p)' = 1 .. Done(r)
           /\ \A i \in 1 .. Done(r) : shards'[<<p, i>>] = r.shards[i]
    BY <1>9, <1>11, <1>21
  <1>26. r.pc \in Executing /\ r.pc \notin {"complete", "ack"}
    BY <1>9 DEF Executing
  <1> QED BY <1>1, <1>3, <1>4, <1>20, <1>22, <1>23, <1>24, <1>25, <1>26, StayInv

LEMMA UploadManifestInv ==
    ASSUME ExportInv, NEW w \in Workers, UploadManifest(w)
    PROVE  ExportInv'
  <1>1. worker[w].pc = "manifest" /\ worker[w].pc \in Executing \ {"ack"}
    BY DEF UploadManifest, At, Executing
  <1>2. /\ worker[w] \in Process /\ job[Job(w)] \in Row /\ job \in [Jobs -> Row]
        /\ job[Job(w)].status # "none"
        /\ Handled(worker[w], job[Job(w)].version, job[Job(w)].format, job[Job(w)].progress, job[Job(w)].url, episodes)
    BY <1>1, Records
  <1>3. PICK j \in Jobs : j = Job(w)
    BY <1>1, Records
  <1>4. PICK p : p = job[j].prefix
    OBVIOUS
  <1>5. PICK s \in Seq(Shard) : s = worker[w].shards
    BY <1>2 DEF Process
  <1> DEFINE r == [worker[w] EXCEPT !.pc = "complete"]
             row == job[Job(w)]
  <1>6. /\ r \in Process /\ r.pc = "complete" /\ r.entry = worker[w].entry /\ r.at = worker[w].at
        /\ r.shards = s /\ r.next = worker[w].next /\ r.found = worker[w].found
    BY <1>2, <1>5 DEF Process, Handling, Executing
  <1>7. worker' = [worker EXCEPT ![w] = r] /\ job' = [job EXCEPT ![Job(w)] = row]
    BY <1>2 DEF UploadManifest, GoTo
  <1> HIDE DEF r, row
  <1>8. Done(worker[w]) = Len(s) /\ Done(r) = Len(s)
    BY <1>1, <1>5, <1>6 DEF Done
  <1>9. Handled(r, row.version, row.format, row.progress, row.url, episodes)
    <2>1. row.progress * Len(r.shards) <= 100 * Done(r)
      BY <1>2, <1>5, <1>6, <1>8 DEF Handled, row
    <2>2. /\ PackedUpTo(s, row.version, row.format, r.found, r.at) /\ ToSet(row.version) \cap episodes \subseteq r.found
          /\ r.at = Len(row.version) + 1 /\ ~row.url
      BY <1>1, <1>2, <1>5, <1>6 DEF Handled, Early, row, Row
    <2> QED BY <1>6, <2>1, <2>2 DEF Handled, Early, row, Row
  <1>10. Step(w, r, row)
    BY <1>2, <1>6, <1>7, <1>9 DEF Step, UploadManifest, Executing, row
  <1>11. manifest' = Put(manifest, p, SampleCounts(s)) /\ shards' = shards
    BY <1>3, <1>4, <1>5 DEF UploadManifest
  <1>12. /\ DOMAIN manifest' = DOMAIN manifest \cup {p}
         /\ manifest'[p] = SampleCounts(s)
         /\ \A q \in DOMAIN manifest : q # p => manifest'[q] = manifest[q]
    BY <1>11 DEF Put
  <1>13. TypeOK /\ ShardsFit /\ p \in TargetPrefixes
    BY <1>2, <1>3, <1>4 DEF ExportInv, Row
  <1>14. SampleCounts(s) \in Seq(Nat)
    <2>1. \A a \in 1 .. Len(s) : Len(s[a].samples) \in Nat
      BY DEF Shard
    <2>2. Len(s) \in Nat /\ DOMAIN s = 1 .. Len(s)
      OBVIOUS
    <2>3. SampleCounts(s) \in [1 .. Len(s) -> Nat]
      BY <2>1, <2>2 DEF SampleCounts
    <2> QED BY <2>2, <2>3
  <1>15. BucketOK'
    <2>1. \A q \in DOMAIN manifest' : manifest'[q] \in Seq(Nat)
      BY <1>12, <1>13, <1>14 DEF TypeOK
    <2> QED BY <1>11, <1>12, <1>13, <2>1 DEF BucketOK, TypeOK, Shard
  <1>16. OnlyUnder(p)
    BY <1>11, <1>12 DEF OnlyUnder
  <1>17. ShardsFit'
    BY <1>11, <1>13 DEF ShardsFit
  <1>18. Alone(j) =>
           /\ Numbers(p)' = 1 .. Done(r)
           /\ \A i \in 1 .. Done(r) : shards'[<<p, i>>] = r.shards[i]
    <2>1. Alone(j) => /\ Numbers(p) = 1 .. Done(worker[w])
                      /\ \A i \in 1 .. Done(worker[w]) : shards[<<p, i>>] = worker[w].shards[i]
      <3>1. worker[w].pc \in Executing
        BY <1>1
      <3> QED BY <1>3, <1>4, <3>1, ExecutingFacts
    <2>2. Numbers(p)' = Numbers(p)
      BY <1>11 DEF Numbers
    <2> QED BY <1>5, <1>6, <1>8, <1>11, <2>1, <2>2
  <1>19. TypeOK' /\ OwnStep(w)
    BY <1>1, <1>3, <1>4, <1>10, <1>15, <1>16, StepType
  <1>20. /\ r = worker'[w] /\ job'[j] = row /\ row.version = job[j].version
         /\ row.format = job[j].format /\ pending' = pending
    BY <1>2, <1>3, <1>10, <1>13 DEF Step, TypeOK, groupVars
  <1>21. Handled(r, job[j].version, job[j].format, job'[j].progress, job'[j].url, episodes)
    BY <1>9, <1>20
  <1>22. p \in DOMAIN manifest' /\ manifest'[p] = SampleCounts(r.shards)
    BY <1>6, <1>12
  <1>23. r.pc \in Executing
    BY <1>6 DEF Executing
  <1> QED BY <1>1, <1>3, <1>4, <1>17, <1>18, <1>19, <1>20, <1>21, <1>22, <1>23, StayInv

-----------------------------------------------------------------------------
(* The steps that end an execution                                         *)

LEMMA LeaveInv ==
    ASSUME ExportInv, NEW w \in Workers, worker[w].pc \in Handling,
           NEW r \in Process, worker' = [worker EXCEPT ![w] = r], r.pc \notin Executing,
           r.pc \in Handling => r.entry = worker[w].entry,
           r.pc \notin Handling => r = Free(r.pc),
           job' = job \/ job' = [job EXCEPT ![Job(w)].status = "failed"],
           UNCHANGED <<stream, group, cursor, target, episodes>>, faults' \in 0 .. MaxFaults,
           \/ UNCHANGED pending
           \/ worker[w].pc = "ack" /\ pending' = pending \ {worker[w].entry}
    PROVE  ExportInv'
  <1>1. TypeOK /\ StreamOrder /\ HandlerOrder /\ ShardsFit /\ CompletedIsWhole /\ AckedIsCompleted
    BY DEF ExportInv
  <1>2. PICK j \in Jobs : j = Job(w)
    BY <1>1, JobFacts
  <1>3. worker[w].entry \in 1 .. cursor /\ Created(j)
    BY <1>1, <1>2, JobFacts
  <1>4. /\ stream' = stream /\ group' = group /\ cursor' = cursor /\ episodes' = episodes
        /\ shards' = shards /\ manifest' = manifest
    BY DEF target
  <1>5. worker' \in [Workers -> Process] /\ worker'[w] = r /\ \A x \in Workers \ {w} : worker'[x] = worker[x]
    BY <1>1 DEF TypeOK, Process
  <1>6. job' \in [Jobs -> Row]
    <2>1. job \in [Jobs -> Row]
      BY <1>1 DEF TypeOK, Row
    <2>2. CASE job' = [job EXCEPT ![Job(w)].status = "failed"]
      <3>1. [job[Job(w)] EXCEPT !.status = "failed"] \in Row
        BY <1>2, <2>1 DEF Row, Statuses
      <3> QED BY <2>1, <2>2, <3>1
    <2> QED BY <2>1, <2>2
  <1>7. /\ \A k \in Jobs \ {j} : job'[k] = job[k]
        /\ SameRow(j) /\ job'[j].prefix = job[j].prefix /\ job'[j].version = job[j].version
        /\ job'[j].format = job[j].format /\ job'[j].url = job[j].url /\ job'[j].status # "none"
    <2>1. job \in [Jobs -> Row]
      BY <1>1 DEF TypeOK, Row
    <2>2. CASE job' = job
      BY <1>3, <2>2 DEF SameRow, Created
    <2>3. CASE job' = [job EXCEPT ![Job(w)].status = "failed"]
      BY <1>2, <2>1, <2>3 DEF SameRow, Row
    <2> QED BY <2>2, <2>3
  <1>8. pending' \subseteq 1 .. cursor /\ \A i \in 1 .. cursor : i # worker[w].entry /\ i \in pending => i \in pending'
    BY <1>1 DEF TypeOK
  <1>9. TypeOK'
    <2>1. (Process)' = Process /\ (Row)' = Row
      BY <1>4 DEF Process, Row, Shard, Handling, Executing, Statuses
    <2> QED BY <1>1, <1>4, <1>5, <1>6, <1>8, <2>1 DEF TypeOK, Process, Row, Shard
  <1>10. OwnStep(w)
    BY <1>2, <1>4, <1>5, <1>7, <1>8 DEF OwnStep
  <1>11. (job[j].url /\ Alone(j) => Whole(j))'
    <2>1. Alone(j)' <=> Alone(j)
      BY <1>1, <1>9, <1>10, AloneKept
    <2>2. Kept(j)
      BY <1>4, <1>7, <2>1 DEF Kept
    <2> QED BY <1>1, <1>4, <1>9, <2>2, WholeKept DEF CompletedIsWhole
  <1>12. worker[w].entry \in pending' \/ job'[j].url
    <2>1. CASE UNCHANGED pending
      BY <1>1, <1>2, <1>3, <1>7, <2>1 DEF AckedIsCompleted, Job
    <2>2. CASE worker[w].pc = "ack"
      <3>1. worker[w].pc \in Executing
        BY <2>2 DEF Executing
      <3>2. Handled(worker[w], job[j].version, job[j].format, job[j].progress, job[j].url, episodes)
        BY <1>2, <3>1, Records
      <3> QED BY <1>7, <2>2, <3>2 DEF Handled
    <2> QED BY <2>1, <2>2
  <1>13. ShardsFit'
    BY <1>1, <1>4 DEF ShardsFit
  <1>14. (worker[w].pc \in Executing => Running(w))'
    BY <1>5 DEF Executing
  <1>15. worker'[w].pc \notin Handling => worker'[w] = Free(worker'[w].pc)
    BY <1>5
  <1> QED BY <1>2, <1>9, <1>10, <1>11, <1>12, <1>13, <1>14, <1>15, OwnStepInv

LEMMA FreeType ==
    ASSUME TypeOK, NEW pc \in {"down", "boot", "idle"}
    PROVE  Free(pc) \in Process /\ Free(pc).pc = pc /\ pc \notin Handling /\ pc \notin Executing
  <1>1. cursor \in Nat
    <2>1. Len(stream) \in Nat /\ cursor \in 0 .. Len(stream)
      BY DEF TypeOK
    <2> QED BY <2>1
  <1>2. 0 \in 0 .. cursor /\ {} \in SUBSET Episodes /\ <<>> \in Seq(Shard)
    BY <1>1
  <1>3. pc \notin Handling /\ pc \notin Executing
    BY DEF Handling, Executing
  <1> QED BY <1>2, <1>3 DEF Free, Process

\* Release in whatever step.
LEMMA ReleaseInv ==
    ASSUME ExportInv, NEW w \in Workers, worker[w].pc \in Handling,
           NEW pc \in {"down", "boot", "idle"}, Release(w, pc),
           job' = job \/ job' = [job EXCEPT ![Job(w)].status = "failed"],
           UNCHANGED <<stream, group, cursor, target, episodes>>, faults' \in 0 .. MaxFaults,
           \/ UNCHANGED pending
           \/ worker[w].pc = "ack" /\ pending' = pending \ {worker[w].entry}
    PROVE  ExportInv'
  <1>1. TypeOK
    BY DEF ExportInv
  <1>2. Free(pc) \in Process /\ Free(pc).pc = pc /\ pc \notin Handling /\ pc \notin Executing
    BY <1>1, FreeType
  <1>3. PICK r \in Process : r = Free(pc)
    BY <1>2
  <1>4. worker' = [worker EXCEPT ![w] = r]
    BY <1>3 DEF Release
  <1>5. r.pc \notin Executing /\ r.pc \notin Handling /\ r = Free(r.pc)
    BY <1>2, <1>3
  <1> QED BY <1>4, <1>5, LeaveInv

\* The job is given up, but not yet marked as failed.
LEMMA GiveUpInv ==
    ASSUME ExportInv, NEW w \in Workers, worker[w].pc \in Executing, GoTo(w, "fail"),
           UNCHANGED <<job, stream, group, cursor, target, episodes, faults>>,
           \/ UNCHANGED pending
           \/ worker[w].pc = "ack" /\ pending' = pending \ {worker[w].entry}
    PROVE  ExportInv'
  <1>1. worker[w] \in Process /\ worker[w].pc \in Handling
    BY Records DEF Handling
  <1>2. PICK r : r = [worker[w] EXCEPT !.pc = "fail"]
    OBVIOUS
  <1>3. r \in Process /\ r.pc = "fail" /\ r.entry = worker[w].entry
    BY <1>1, <1>2 DEF Process, Handling
  <1>4. worker' = [worker EXCEPT ![w] = r]
    BY <1>2 DEF GoTo
  <1>5. r.pc \notin Executing /\ r.pc \in Handling
    BY <1>3 DEF Executing, Handling
  <1>6. faults' \in 0 .. MaxFaults /\ job' = job
    BY DEF ExportInv, TypeOK
  <1> QED BY <1>1, <1>3, <1>4, <1>5, <1>6, LeaveInv

LEMMA AckInv ==
    ASSUME ExportInv, NEW w \in Workers, Ack(w)
    PROVE  ExportInv'
  <1>1. worker[w].pc = "ack" /\ worker[w].pc \in Handling
    BY DEF Ack, At, Handling, Executing
  <1>2. faults' \in 0 .. MaxFaults
    BY DEF ExportInv, TypeOK, Ack
  <1> QED BY <1>1, <1>2, ReleaseInv DEF Ack

LEMMA RaiseInv ==
    ASSUME ExportInv, NEW w \in Workers, Raise(w)
    PROVE  ExportInv'
  BY GiveUpInv DEF Raise, At

LEMMA ExportMissingInv ==
    ASSUME ExportInv, NEW w \in Workers, ExportMissing(w)
    PROVE  ExportInv'
  <1>1. worker[w].pc \in Executing
    BY DEF ExportMissing, At, Executing
  <1> QED BY <1>1, GiveUpInv DEF ExportMissing, groupVars

LEMMA FailJobInv ==
    ASSUME ExportInv, NEW w \in Workers, FailJob(w) \/ FailJobRaises(w)
    PROVE  ExportInv'
  <1>1. worker[w].pc \in Handling
    BY DEF FailJob, FailJobRaises, At, Handling
  <1>2. faults' \in 0 .. MaxFaults
    BY DEF ExportInv, TypeOK, FailJob, FailJobRaises
  <1>3. /\ Release(w, "idle")
        /\ job' = job \/ job' = [job EXCEPT ![Job(w)].status = "failed"]
        /\ UNCHANGED <<stream, group, cursor, pending, target, episodes>>
    BY DEF FailJob, FailJobRaises, groupVars
  <1> QED BY <1>1, <1>2, <1>3, ReleaseInv

-----------------------------------------------------------------------------
(* The steps of the workers that have no entry                             *)

\* Nothing that the invariant says of the jobs and the handlers changes.
LEMMA IdleStepInv ==
    ASSUME ExportInv, NEW w \in Workers, worker[w].pc \notin Handling,
           NEW pc \in {"down", "boot", "idle"}, worker' = [worker EXCEPT ![w] = Free(pc)],
           UNCHANGED <<job, stream, cursor, pending, target, episodes>>,
           group' \in BOOLEAN, faults' \in 0 .. MaxFaults
    PROVE  ExportInv'
  <1>1. /\ TypeOK /\ StreamOrder /\ HandlerOrder /\ IdleFree /\ BucketOrder /\ NotYet
        /\ ShardsFit /\ AckedIsCompleted
        /\ Others(Jobs, Workers \ {w})
    BY DEF ExportInv, CompletedIsWhole, Others
  <1>2. Free(pc) \in Process /\ Free(pc).pc = pc /\ pc \notin Handling /\ pc \notin Executing
    BY <1>1, FreeType
  <1>3. /\ job' = job /\ stream' = stream /\ cursor' = cursor /\ pending' = pending
        /\ episodes' = episodes /\ shards' = shards /\ manifest' = manifest
    BY DEF target
  <1>4. PICK r \in Process : r = Free(pc)
    BY <1>2
  <1>5. worker' \in [Workers -> Process] /\ worker'[w] = r /\ \A x \in Workers \ {w} : worker'[x] = worker[x]
    BY <1>1, <1>4 DEF TypeOK, Process
  <1>6. TypeOK'
    <2>1. (Process)' = Process
      BY <1>3 DEF Process, Shard, Handling, Executing
    <2> QED BY <1>1, <1>3, <1>5, <2>1 DEF TypeOK, Process, Shard
  <1>7. (Handling)' = Handling /\ (Executing)' = Executing /\ Executing \subseteq Handling
    BY DEF Handling, Executing
  <1>8. r.pc = pc
    BY <1>2, <1>4
  <1>9. StreamOrder' /\ BucketOrder' /\ NotYet' /\ ShardsFit' /\ AckedIsCompleted'
    <2>1. StreamOrder' /\ BucketOrder'
      BY <1>1, <1>3 DEF StreamOrder, BucketOrder, Created, IsInjective
    <2>2. NotYet'
      <3>1. Delivered' = Delivered
        BY <1>3 DEF Delivered
      <3>2. ASSUME NEW j \in Jobs \ Delivered
            PROVE  /\ job'[j].progress = 0
                   /\ ~job'[j].url
                   /\ Created(j)' /\ Alone(j)' => Numbers(job[j].prefix)' = {}
        <4>1. Created(j)' = Created(j) /\ Alone(j)' = Alone(j)
          BY <1>3 DEF Created, Alone
        <4>2. Numbers(job[j].prefix)' = Numbers(job[j].prefix)
          BY <1>3 DEF Numbers
        <4> QED BY <1>1, <1>3, <4>1, <4>2 DEF NotYet
      <3> QED BY <3>1, <3>2 DEF NotYet
    <2>3. ShardsFit' /\ AckedIsCompleted'
      BY <1>1, <1>3 DEF ShardsFit, AckedIsCompleted
    <2> QED BY <2>1, <2>2, <2>3
  <1>10. HandlerOrder'
    <2>1. ASSUME NEW y \in Workers, worker'[y].pc \in Handling
          PROVE  worker[y].pc \in Handling /\ worker'[y].entry = worker[y].entry
      BY <1>2, <1>5, <1>8, <2>1
    <2> QED BY <1>1, <1>3, <1>7, <2>1 DEF HandlerOrder
  <1>11. IdleFree'
    <2>1. worker'[w] = Free(worker'[w].pc)
      BY <1>4, <1>5, <1>8
    <2> QED BY <1>1, <1>5, <1>7, <2>1 DEF IdleFree, Free
  <1>12. Others(Jobs, Workers \ {w})'
    <2>1. \A k \in Jobs : Kept(k)
      BY <1>3 DEF Kept, SameRow, Alone
    <2>2. \A x \in Workers \ {w} :
            /\ worker'[x] = worker[x]
            /\ worker[x].pc \in Executing =>
                 /\ stream'[worker[x].entry] = stream[worker[x].entry]
                 /\ Job(x) \in Jobs
      BY <1>1, <1>3, <1>5, <1>7, JobFacts
    <2>3. PICK W \in SUBSET Workers : W = Workers \ {w}
      OBVIOUS
    <2>4. Others(Jobs, W)'
      BY <1>1, <1>3, <1>6, <2>1, <2>2, <2>3, OthersKept
    <2> QED BY <2>3, <2>4 DEF Others
  <1>13. /\ \A x \in Workers : (worker[x].pc \in Executing => Running(x))'
         /\ CompletedIsWhole'
    <2>1. worker'[w].pc \notin Executing
      BY <1>2, <1>5, <1>8
    <2> QED BY <1>7, <1>12, <2>1 DEF Others, CompletedIsWhole
  <1> QED BY <1>6, <1>9, <1>10, <1>11, <1>13 DEF ExportInv

LEMMA EnsureGroupInv ==
    ASSUME ExportInv, NEW w \in Workers, EnsureGroup(w) \/ Restart(w)
    PROVE  ExportInv'
  <1>1. worker[w].pc \in {"boot", "down"} /\ worker[w].pc \notin Handling
    BY DEF EnsureGroup, Restart, At, Handling, Executing
  <1>2. worker[w] = Free(worker[w].pc)
    BY <1>1 DEF ExportInv, IdleFree
  <1>3. faults' \in 0 .. MaxFaults /\ group' \in BOOLEAN
    BY DEF ExportInv, TypeOK, EnsureGroup, Restart, groupVars
  <1>4. UNCHANGED <<job, stream, cursor, pending, target, episodes>>
    BY DEF EnsureGroup, Restart, groupVars
  <1>5. PICK pc \in {"boot", "idle"} : worker' = [worker EXCEPT ![w].pc = pc]
    BY DEF EnsureGroup, Restart, GoTo
  <1>6. worker' = [worker EXCEPT ![w] = Free(pc)]
    <2>1. [worker[w] EXCEPT !.pc = pc] = Free(pc)
      BY <1>2 DEF Free
    <2>2. worker' = [worker EXCEPT ![w] = [worker[w] EXCEPT !.pc = pc]]
      BY <1>5
    <2> QED BY <2>1, <2>2
  <1> QED BY <1>1, <1>3, <1>4, <1>6, IdleStepInv

LEMMA DieInv ==
    ASSUME ExportInv, NEW w \in Workers, Die(w)
    PROVE  ExportInv'
  <1>1. /\ Release(w, "down")
        /\ UNCHANGED <<job, stream, group, cursor, pending, target, episodes>>
    BY DEF Die, groupVars
  <1>2. faults' \in 0 .. MaxFaults /\ group' \in BOOLEAN
    <2>1. MaxFaults \in Nat /\ faults \in 0 .. MaxFaults /\ faults < MaxFaults /\ faults' = faults + 1
      BY ExportAssumption DEF ExportInv, TypeOK, Die
    <2>2. group \in BOOLEAN
      BY DEF ExportInv, TypeOK
    <2>3. faults' \in 0 .. MaxFaults
      BY <2>1
    <2> QED BY <1>1, <2>2, <2>3, Zenon
  <1>3. CASE worker[w].pc \in Handling
    BY <1>1, <1>2, <1>3, ReleaseInv
  <1>4. CASE worker[w].pc \notin Handling
    BY <1>1, <1>2, <1>4, IdleStepInv DEF Release
  <1> QED BY <1>3, <1>4

LEMMA ReadNewInv ==
    ASSUME ExportInv, NEW w \in Workers, ReadNew(w)
    PROVE  ExportInv'
  <1>1. /\ TypeOK /\ StreamOrder /\ HandlerOrder /\ IdleFree /\ BucketOrder /\ NotYet
        /\ ShardsFit /\ AckedIsCompleted
        /\ Others(Jobs, Workers \ {w})
    BY DEF ExportInv, CompletedIsWhole, Others
  <1>2. /\ job' = job /\ stream' = stream /\ group' = group /\ episodes' = episodes
        /\ shards' = shards /\ manifest' = manifest /\ faults' = faults
        /\ cursor' = cursor + 1 /\ pending' = pending \cup {cursor + 1}
        /\ cursor < Len(stream)
    BY DEF ReadNew, target
  <1>3. worker[w].pc = "idle" /\ worker[w].pc \notin Handling /\ worker[w] = Free("idle")
    <2>1. worker[w].pc = "idle"
      BY DEF ReadNew, At
    <2> QED BY <1>1, <2>1 DEF Handling, Executing, IdleFree
  <1>4. /\ Len(stream) \in Nat /\ cursor \in Nat /\ DOMAIN stream = 1 .. Len(stream)
        /\ cursor + 1 \in DOMAIN stream /\ cursor + 1 \in 0 .. Len(stream)
        /\ 1 .. cursor + 1 = 1 .. cursor \cup {cursor + 1}
    <2>1. Len(stream) \in Nat /\ cursor \in 0 .. Len(stream) /\ DOMAIN stream = 1 .. Len(stream)
      BY <1>1 DEF TypeOK
    <2> QED BY <1>2, <2>1
  <1>5. PICK j \in Jobs : j = stream[cursor + 1]
    BY <1>1, <1>4 DEF TypeOK
  <1>6. Created(j) /\ j \notin Delivered
    BY <1>1, <1>4, <1>5 DEF StreamOrder, IsInjective, Delivered
  <1>7. PICK r : r = [worker[w] EXCEPT !.pc = "start", !.entry = cursor + 1]
    OBVIOUS
  <1>8. /\ r.pc = "start" /\ r.entry = cursor + 1 /\ r.found = {} /\ r.at = 1
        /\ r.shards = <<>> /\ r.next = 1
    BY <1>3, <1>7 DEF Free
  <1>9. worker' = [worker EXCEPT ![w] = r]
    BY <1>7 DEF ReadNew
  <1>10. worker'[w] = r /\ \A x \in Workers \ {w} : worker'[x] = worker[x]
    BY <1>1, <1>9 DEF TypeOK
  <1>11. (Handling)' = Handling /\ (Executing)' = Executing /\ Executing \subseteq Handling
         /\ "start" \in Executing
    BY DEF Handling, Executing
  <1>12. TypeOK'
    <2>1. worker' \in [Workers -> [pc : Handling \cup {"down", "boot", "idle"},
                                   entry : 0 .. cursor + 1, found : SUBSET Episodes,
                                   at : Nat, shards : Seq(Shard), next : Nat]]
      <3>2. 0 .. cursor \subseteq 0 .. cursor + 1
        BY <1>4
      <3>3. \A x \in Workers : worker[x] \in
                  [pc : Handling \cup {"down", "boot", "idle"},
                   entry : 0 .. cursor + 1, found : SUBSET Episodes,
                   at : Nat, shards : Seq(Shard), next : Nat]
        BY <1>1, <3>2 DEF TypeOK
      <3>1. r \in [pc : Handling \cup {"down", "boot", "idle"},
                   entry : 0 .. cursor + 1, found : SUBSET Episodes,
                   at : Nat, shards : Seq(Shard), next : Nat]
        <4>1. cursor + 1 \in 0 .. cursor + 1 /\ "start" \in Handling
          BY <1>4, <1>11
        <4> QED BY <1>7, <3>3, <4>1
      <3>4. worker' = [x \in Workers |-> IF x = w THEN r ELSE worker[x]]
        BY <1>1, <1>9 DEF TypeOK
      <3> QED BY <3>1, <3>3, <3>4
    <2>2. pending' \subseteq 1 .. cursor'
      <3>1. pending \subseteq 1 .. cursor
        BY <1>1 DEF TypeOK
      <3> QED BY <1>2, <1>4, <3>1
    <2> QED BY <1>1, <1>2, <1>4, <1>11, <2>1, <2>2 DEF TypeOK, Shard, Statuses
  <1>13. StreamOrder' /\ BucketOrder' /\ ShardsFit'
    BY <1>1, <1>2 DEF StreamOrder, BucketOrder, Created, IsInjective, ShardsFit
  <1>14. HandlerOrder'
    <2>1. \A x \in Workers \ {w} : worker[x].pc \in Handling =>
            worker[x].entry \in 1 .. cursor /\ worker[x].entry # cursor + 1
      BY <1>1, <1>4 DEF HandlerOrder
    <2>2. ASSUME NEW y \in Workers, worker'[y].pc \in Handling
          PROVE  /\ worker'[y].entry \in 1 .. cursor'
                 /\ \A x \in Workers :
                      worker'[x].pc \in Handling /\ worker'[x].entry = worker'[y].entry => x = y
      <3>1. CASE y = w
        BY <1>2, <1>4, <1>8, <1>10, <2>1, <3>1
      <3>2. CASE y # w
        <4>1. worker'[y] = worker[y] /\ worker[y].pc \in Handling
          BY <1>10, <2>2, <3>2
        <4>2. worker[y].entry \in 1 .. cursor'
          BY <1>2, <1>4, <2>1, <3>2, <4>1
        <4>3. ASSUME NEW x \in Workers, worker'[x].pc \in Handling, worker'[x].entry = worker[y].entry
              PROVE  x = y
          <5>1. x # w
            BY <1>8, <1>10, <2>1, <3>2, <4>1, <4>3
          <5> QED BY <1>1, <1>10, <4>1, <4>3, <5>1 DEF HandlerOrder
        <4> QED BY <4>1, <4>2, <4>3
      <3> QED BY <3>1, <3>2
    <2> QED BY <1>11, <2>2 DEF HandlerOrder
  <1>15. IdleFree'
    BY <1>1, <1>8, <1>10, <1>11 DEF IdleFree, Free
  <1>16. NotYet'
    <2>1. Jobs \ Delivered' \subseteq Jobs \ Delivered
      BY <1>2, <1>4 DEF Delivered
    <2>2. ASSUME NEW k \in Jobs \ Delivered
          PROVE  /\ job'[k].progress = 0
                 /\ ~job'[k].url
                 /\ Created(k)' /\ Alone(k)' => Numbers(job[k].prefix)' = {}
      <3>1. Created(k)' = Created(k) /\ Alone(k)' = Alone(k)
        BY <1>2 DEF Created, Alone
      <3>2. Numbers(job[k].prefix)' = Numbers(job[k].prefix)
        BY <1>2 DEF Numbers
      <3> QED BY <1>1, <1>2, <3>1, <3>2 DEF NotYet
    <2> QED BY <2>1, <2>2 DEF NotYet
  <1>17. AckedIsCompleted'
    BY <1>1, <1>2, <1>4 DEF AckedIsCompleted
  <1>18. Others(Jobs, Workers \ {w})'
    <2>1. \A k \in Jobs : Kept(k)
      BY <1>2 DEF Kept, SameRow, Alone
    <2>2. \A x \in Workers \ {w} :
            /\ worker'[x] = worker[x]
            /\ worker[x].pc \in Executing =>
                 /\ stream'[worker[x].entry] = stream[worker[x].entry]
                 /\ Job(x) \in Jobs
      BY <1>1, <1>2, <1>10, <1>11, JobFacts
    <2>3. PICK W \in SUBSET Workers : W = Workers \ {w}
      OBVIOUS
    <2>4. Others(Jobs, W)'
      BY <1>1, <1>2, <1>12, <2>1, <2>2, <2>3, OthersKept
    <2> QED BY <2>3, <2>4 DEF Others
  <1>19. Running(w)'
    <2>1. (Job(w))' = j
      BY <1>2, <1>5, <1>8, <1>10 DEF Job
    <2>2. /\ job[j].progress = 0 /\ ~job[j].url
          /\ Alone(j) => Numbers(job[j].prefix) = {}
      BY <1>1, <1>6 DEF NotYet
    <2>3. Done(r) = 0 /\ 1 .. 0 = {} /\ Len(<<>>) = 0
      BY <1>8 DEF Done
    <2>4. PICK u \in BOOLEAN : u = job[j].url
      BY <1>1 DEF TypeOK
    <2>5. Handled(r, job[j].version, job[j].format, 0, u, episodes)
      BY <1>8, <2>2, <2>3, <2>4 DEF Handled, Early
    <2>6. InBucket(w)'
      BY <1>2, <1>10, <2>1, <2>2, <2>3 DEF InBucket, Numbers, Alone
    <2> QED BY <1>2, <1>8, <1>10, <2>1, <2>2, <2>4, <2>5, <2>6 DEF Running
  <1>20. /\ \A x \in Workers : (worker[x].pc \in Executing => Running(x))'
         /\ CompletedIsWhole'
    BY <1>18, <1>19 DEF Others, CompletedIsWhole
  <1> QED BY <1>12, <1>13, <1>14, <1>15, <1>16, <1>17, <1>20 DEF ExportInv

-----------------------------------------------------------------------------
(* The steps of the dataset service                                        *)

LEMMA EnqueueInv ==
    ASSUME ExportInv, NEW j \in Jobs, Enqueue(j)
    PROVE  ExportInv'
  <1>1. /\ TypeOK /\ StreamOrder /\ HandlerOrder /\ IdleFree /\ BucketOrder /\ NotYet
        /\ ShardsFit /\ AckedIsCompleted
        /\ Others(Jobs, Workers)
    BY DEF ExportInv, CompletedIsWhole, Others
  <1>2. /\ job' = job /\ worker' = worker /\ group' = group /\ episodes' = episodes
        /\ shards' = shards /\ manifest' = manifest /\ faults' = faults
        /\ cursor' = cursor /\ pending' = pending
        /\ stream' = Append(stream, j) /\ j \notin ToSet(stream) /\ Created(j)
    BY DEF Enqueue, target, groupVars, Created
  <1>3. /\ Len(stream) \in Nat /\ cursor \in Nat /\ DOMAIN stream = 1 .. Len(stream)
        /\ cursor \in 0 .. Len(stream) /\ 1 .. cursor \subseteq 1 .. Len(stream)
    <2>1. Len(stream) \in Nat /\ cursor \in 0 .. Len(stream) /\ DOMAIN stream = 1 .. Len(stream)
      BY <1>1 DEF TypeOK
    <2> QED BY <2>1
  <1>4. stream \in Seq(Jobs)
    BY <1>1 DEF TypeOK
  <1>5. /\ stream' \in Seq(Jobs) /\ Len(stream') = Len(stream) + 1
        /\ DOMAIN stream' = 1 .. Len(stream) + 1
        /\ \A i \in 1 .. Len(stream) : stream'[i] = stream[i]
        /\ stream'[Len(stream) + 1] = j
    BY <1>2, <1>4
  <1>6. (Handling)' = Handling /\ (Executing)' = Executing /\ Executing \subseteq Handling
    BY DEF Handling, Executing
  <1>7. TypeOK'
    <2>1. cursor \in 0 .. Len(stream')
      BY <1>3, <1>5
    <2> QED BY <1>1, <1>2, <1>5, <1>6, <2>1 DEF TypeOK, Shard, Statuses
  <1>8. StreamOrder'
    <2>1. \A i \in 1 .. Len(stream) : stream[i] # j
      BY <1>2, <1>3 DEF ToSet
    <2>2. 1 .. Len(stream) + 1 = 1 .. Len(stream) \cup {Len(stream) + 1}
      BY <1>3
    <2>3. \A a, b \in 1 .. Len(stream) : stream[a] = stream[b] => a = b
      BY <1>1, <1>3 DEF StreamOrder, IsInjective
    <2>4. \A a, b \in DOMAIN stream' : stream'[a] = stream'[b] => a = b
      BY <1>5, <2>1, <2>2, <2>3
    <2>5. \A i \in DOMAIN stream' : Created(stream'[i])
      BY <1>1, <1>2, <1>3, <1>5, <2>2 DEF StreamOrder
    <2>6. \A i \in DOMAIN stream' : job'[stream'[i]].status # "none"
      BY <1>2, <2>5 DEF Created
    <2> QED BY <2>4, <2>6 DEF StreamOrder, IsInjective, Created
  <1>9. \A i \in 1 .. cursor : stream'[i] = stream[i]
    BY <1>3, <1>5
  <1>10. HandlerOrder' /\ IdleFree' /\ BucketOrder' /\ ShardsFit'
    <2>1. HandlerOrder' /\ IdleFree'
      BY <1>1, <1>2, <1>6 DEF HandlerOrder, IdleFree, Free
    <2>2. BucketOrder' /\ ShardsFit'
      BY <1>1, <1>2 DEF BucketOrder, ShardsFit, Created
    <2> QED BY <2>1, <2>2
  <1>11. NotYet'
    <2>1. (Delivered)' = Delivered
      BY <1>2, <1>9 DEF Delivered
    <2>2. ASSUME NEW k \in Jobs \ Delivered
          PROVE  /\ job'[k].progress = 0
                 /\ ~job'[k].url
                 /\ Created(k)' /\ Alone(k)' => Numbers(job[k].prefix)' = {}
      <3>1. Created(k)' = Created(k) /\ Alone(k)' = Alone(k)
        BY <1>2 DEF Created, Alone
      <3>2. Numbers(job[k].prefix)' = Numbers(job[k].prefix)
        BY <1>2 DEF Numbers
      <3> QED BY <1>1, <1>2, <3>1, <3>2 DEF NotYet
    <2> QED BY <2>1, <2>2 DEF NotYet
  <1>12. AckedIsCompleted'
    BY <1>1, <1>2, <1>9 DEF AckedIsCompleted
  <1>13. Others(Jobs, Workers)'
    <2>1. \A k \in Jobs : Kept(k)
      BY <1>2 DEF Kept, SameRow, Alone
    <2>2. \A x \in Workers :
            /\ worker'[x] = worker[x]
            /\ worker[x].pc \in Executing =>
                 /\ stream'[worker[x].entry] = stream[worker[x].entry]
                 /\ Job(x) \in Jobs
      BY <1>1, <1>2, <1>6, <1>9, JobFacts
    <2> QED BY <1>1, <1>2, <1>7, <2>1, <2>2, OthersKept
  <1>14. /\ \A x \in Workers : (worker[x].pc \in Executing => Running(x))'
         /\ CompletedIsWhole'
    BY <1>13 DEF Others, CompletedIsWhole
  <1> QED BY <1>7, <1>8, <1>10, <1>11, <1>12, <1>14 DEF ExportInv

\* DeleteEpisode, and no step.
LEMMA DeleteEpisodeInv ==
    ASSUME ExportInv, UNCHANGED <<job, stream, groupVars, worker, target, faults>>,
           episodes' \subseteq episodes
    PROVE  ExportInv'
  <1>1. /\ TypeOK /\ StreamOrder /\ HandlerOrder /\ IdleFree /\ BucketOrder /\ NotYet
        /\ ShardsFit /\ AckedIsCompleted
        /\ Others(Jobs, Workers)
    BY DEF ExportInv, CompletedIsWhole, Others
  <1>2. /\ job' = job /\ worker' = worker /\ group' = group /\ stream' = stream
        /\ shards' = shards /\ manifest' = manifest /\ faults' = faults
        /\ cursor' = cursor /\ pending' = pending
        /\ episodes' \subseteq episodes
    BY DEF target, groupVars
  <1>3. (Handling)' = Handling /\ (Executing)' = Executing /\ Executing \subseteq Handling
    BY DEF Handling, Executing
  <1>4. TypeOK'
    BY <1>1, <1>2, <1>3 DEF TypeOK, Shard, Statuses
  <1>5. StreamOrder' /\ HandlerOrder' /\ IdleFree' /\ BucketOrder' /\ ShardsFit' /\ AckedIsCompleted'
    <2>1. StreamOrder'
      BY <1>1, <1>2 DEF StreamOrder, Created, IsInjective
    <2>2. HandlerOrder' /\ IdleFree'
      BY <1>1, <1>2, <1>3 DEF HandlerOrder, IdleFree, Free
    <2>3. BucketOrder' /\ ShardsFit' /\ AckedIsCompleted'
      BY <1>1, <1>2 DEF BucketOrder, ShardsFit, Created, AckedIsCompleted
    <2> QED BY <2>1, <2>2, <2>3
  <1>6. NotYet'
    <2>1. (Delivered)' = Delivered
      BY <1>2 DEF Delivered
    <2>2. ASSUME NEW k \in Jobs \ Delivered
          PROVE  /\ job'[k].progress = 0
                 /\ ~job'[k].url
                 /\ Created(k)' /\ Alone(k)' => Numbers(job[k].prefix)' = {}
      <3>1. Created(k)' = Created(k) /\ Alone(k)' = Alone(k)
        BY <1>2 DEF Created, Alone
      <3>2. Numbers(job[k].prefix)' = Numbers(job[k].prefix)
        BY <1>2 DEF Numbers
      <3> QED BY <1>1, <1>2, <3>1, <3>2 DEF NotYet
    <2> QED BY <2>1, <2>2 DEF NotYet
  <1>7. Others(Jobs, Workers)'
    <2>1. \A k \in Jobs : Kept(k)
      BY <1>2 DEF Kept, SameRow, Alone
    <2>2. \A x \in Workers :
            /\ worker'[x] = worker[x]
            /\ worker[x].pc \in Executing =>
                 /\ stream'[worker[x].entry] = stream[worker[x].entry]
                 /\ Job(x) \in Jobs
      BY <1>1, <1>2, <1>3, JobFacts
    <2> QED BY <1>1, <1>2, <1>4, <2>1, <2>2, OthersKept
  <1>8. /\ \A x \in Workers : (worker[x].pc \in Executing => Running(x))'
        /\ CompletedIsWhole'
    BY <1>7 DEF Others, CompletedIsWhole
  <1> QED BY <1>4, <1>5, <1>6, <1>8 DEF ExportInv

LEMMA CreateJobInv ==
    ASSUME ExportInv, NEW j \in Jobs, CreateJob(j)
    PROVE  ExportInv'
  <1>1. /\ TypeOK /\ StreamOrder /\ HandlerOrder /\ IdleFree /\ BucketOrder /\ NotYet
        /\ ShardsFit /\ AckedIsCompleted
        /\ Others(Jobs \ {j}, Workers)
    BY DEF ExportInv, CompletedIsWhole, Others
  <1>2. PICK o \in Orders, p \in (TargetPrefixes \ {DefaultPrefix[k] : k \in Jobs}) \cup {DefaultPrefix[j]} :
          job' = [job EXCEPT ![j] = [status |-> "pending", version |-> o.version,
                                     format |-> o.format, prefix |-> p,
                                     progress |-> 0, url |-> FALSE]]
    BY Zenon DEF CreateJob
  <1>3. /\ stream' = stream /\ worker' = worker /\ group' = group /\ episodes' = episodes
        /\ shards' = shards /\ manifest' = manifest /\ faults' = faults
        /\ cursor' = cursor /\ pending' = pending /\ ~Created(j)
    BY DEF CreateJob, target, groupVars, Created
  <1>4. PICK row : row = [status |-> "pending", version |-> o.version, format |-> o.format,
                          prefix |-> p, progress |-> 0, url |-> FALSE]
    OBVIOUS
  <1>5. row \in Row
    <2>1. o.version \in Versions /\ o.format \in {"webdataset", "raw"}
      <3>1. Orders \subseteq [version : Seq(Refs), format : {"webdataset", "raw"}]
        BY ExportAssumption
      <3> QED BY <3>1 DEF Versions
    <2>2. p \in TargetPrefixes
      BY ExportAssumption
    <2>3. 0 \in 0 .. 100 /\ FALSE \in BOOLEAN /\ "pending" \in Statuses
      BY DEF Statuses
    <2> QED BY <1>4, <2>1, <2>2, <2>3 DEF Row
  <1>6. job' \in [Jobs -> Row] /\ job'[j] = row /\ \A k \in Jobs \ {j} : job'[k] = job[k]
    BY <1>1, <1>2, <1>4, <1>5 DEF TypeOK, Row
  <1>7. row.progress = 0 /\ row.url = FALSE /\ row.status = "pending"
    BY <1>4
  <1>8. (Handling)' = Handling /\ (Executing)' = Executing /\ Executing \subseteq Handling
    BY DEF Handling, Executing
  <1>9. TypeOK'
    BY <1>1, <1>3, <1>6, <1>8 DEF TypeOK, Row, Shard, Statuses
  <1>10. /\ \A i \in DOMAIN stream : stream[i] \in Jobs \ {j} /\ Created(stream[i])
         /\ 1 .. cursor \subseteq DOMAIN stream
    <2>1. 1 .. cursor \subseteq DOMAIN stream
      <3>1. Len(stream) \in Nat /\ cursor \in 0 .. Len(stream) /\ DOMAIN stream = 1 .. Len(stream)
        BY <1>1 DEF TypeOK
      <3> QED BY <3>1
    <2> QED BY <1>1, <1>3, <2>1 DEF TypeOK, StreamOrder
  <1>11. \A k \in Jobs : Created(k) => Created(k)'
    BY <1>3, <1>6 DEF Created
  <1>12. \A k \in Jobs \ {j} : Created(k)' = Created(k) /\ (Alone(k)' => Alone(k)) /\ Kept(k)
    <2>1. ASSUME NEW k \in Jobs \ {j}, Alone(k)' PROVE Alone(k)
      <3> SUFFICES ASSUME NEW x \in Jobs \ {k}, job[x].status # "none"
                   PROVE  job[x].prefix # job[k].prefix
        BY DEF Alone
      <3>1. x # j
        BY <1>3 DEF Created
      <3> QED BY <1>6, <2>1, <3>1 DEF Alone
    <2> QED BY <1>3, <1>6, <2>1 DEF Kept, SameRow, Created
  <1>13. StreamOrder'
    <2>1. \A i \in DOMAIN stream : job'[stream[i]].status # "none"
      BY <1>6, <1>10 DEF Created
    <2> QED BY <1>1, <1>3, <2>1 DEF StreamOrder, Created, IsInjective
  <1>14. HandlerOrder' /\ IdleFree' /\ ShardsFit'
    BY <1>1, <1>3, <1>8 DEF HandlerOrder, IdleFree, Free, ShardsFit
  <1>15. BucketOrder'
    <2> SUFFICES ASSUME NEW key \in DOMAIN shards
                 PROVE  \E k \in Jobs : job'[k].status # "none" /\ job'[k].prefix = key[1]
      BY <1>3 DEF BucketOrder, Created
    <2>1. PICK k \in Jobs : Created(k) /\ job[k].prefix = key[1]
      BY <1>1 DEF BucketOrder
    <2>2. k # j
      BY <1>3, <2>1
    <2> QED BY <1>6, <2>1, <2>2 DEF Created
  <1>16. NotYet'
    <2>1. (Delivered)' = Delivered
      BY <1>3 DEF Delivered
    <2>2. ASSUME NEW k \in Jobs \ Delivered
          PROVE  /\ job'[k].progress = 0
                 /\ ~job'[k].url
                 /\ Created(k)' /\ Alone(k)' => Numbers(job[k].prefix)' = {}
      <3>1. CASE k = j
        <4>1. ASSUME Alone(j)', NEW key \in DOMAIN shards PROVE key[1] # job'[j].prefix
          <5>1. PICK x \in Jobs : Created(x) /\ job[x].prefix = key[1]
            BY <1>1 DEF BucketOrder
          <5>2. x # j
            BY <1>3, <5>1
          <5> QED BY <1>6, <4>1, <5>1, <5>2 DEF Alone, Created
        <4>2. Alone(j)' => Numbers(job[j].prefix)' = {}
          BY <1>3, <4>1 DEF Numbers
        <4> QED BY <1>6, <1>7, <3>1, <4>2
      <3>2. CASE k # j
        <4>1. Created(k)' = Created(k) /\ (Alone(k)' => Alone(k)) /\ job'[k] = job[k]
          BY <1>6, <1>12, <3>2
        <4>2. Numbers(job[k].prefix)' = Numbers(job[k].prefix)
          BY <1>3, <4>1 DEF Numbers
        <4> QED BY <1>1, <4>1, <4>2 DEF NotYet
      <3> QED BY <3>1, <3>2
    <2> QED BY <2>1, <2>2 DEF NotYet
  <1>17. AckedIsCompleted'
    BY <1>1, <1>3, <1>6, <1>10 DEF AckedIsCompleted
  <1>18. Others(Jobs \ {j}, Workers)'
    <2>1. \A x \in Workers :
            /\ worker'[x] = worker[x]
            /\ worker[x].pc \in Executing =>
                 /\ stream'[worker[x].entry] = stream[worker[x].entry]
                 /\ Job(x) \in Jobs \ {j}
      <3>1. ASSUME NEW x \in Workers, worker[x].pc \in Handling PROVE Job(x) \in Jobs \ {j}
        BY <1>1, <1>3, <3>1, JobFacts
      <3> QED BY <1>3, <1>8, <3>1
    <2>2. PICK J \in SUBSET Jobs : J = Jobs \ {j}
      OBVIOUS
    <2>3. Others(J, Workers)'
      BY <1>1, <1>3, <1>9, <1>12, <2>1, <2>2, OthersKept
    <2> QED BY <2>2, <2>3 DEF Others
  <1>19. /\ \A x \in Workers : (worker[x].pc \in Executing => Running(x))'
         /\ CompletedIsWhole'
    <2>1. ~job'[j].url
      BY <1>6, <1>7
    <2> QED BY <1>18, <2>1 DEF Others, CompletedIsWhole
  <1> QED BY <1>9, <1>13, <1>14, <1>15, <1>16, <1>17, <1>19 DEF ExportInv

-----------------------------------------------------------------------------
(* The inductive invariant holds                                           *)

LEMMA ExportInit == Init => ExportInv
  <1> SUFFICES ASSUME Init PROVE ExportInv
    OBVIOUS
  <1>1. /\ stream = <<>> /\ group = FALSE /\ cursor = 0 /\ pending = {}
        /\ shards = <<>> /\ manifest = <<>> /\ episodes = Episodes /\ faults = 0
        /\ worker = [w \in Workers |-> Free("boot")]
    BY DEF Init
  <1>2. Len(stream) = 0 /\ 1 .. cursor = {} /\ DOMAIN stream = {} /\ 0 \in 0 .. 0
        /\ DOMAIN shards = {} /\ DOMAIN manifest = {} /\ stream \in Seq(Jobs)
    BY <1>1
  <1>3. "boot" \notin Handling /\ "boot" \notin Executing
    BY DEF Handling, Executing
  <1>4. \A w \in Workers : worker[w] = Free("boot") /\ worker[w].pc = "boot"
    BY <1>1 DEF Free
  <1>5. \A j \in Jobs : /\ job[j].status = "none" /\ job[j].progress = 0 /\ job[j].url = FALSE
    BY DEF Init
  <1>6. job \in [Jobs -> Row]
    <2>1. PICK v : v = CHOOSE x \in Versions : TRUE
      OBVIOUS
    <2>2. v \in Versions
      <3>1. Versions # {}
        BY ExportAssumption DEF Versions
      <3> QED BY <2>1, <3>1
    <2>3. \A j \in Jobs : DefaultPrefix[j] \in TargetPrefixes
      BY ExportAssumption
    <2>4. 0 \in 0 .. 100 /\ FALSE \in BOOLEAN /\ "none" \in Statuses
      BY DEF Statuses
    <2>5. job = [j \in Jobs |->
                   [status |-> "none", version |-> v, format |-> "raw", prefix |-> DefaultPrefix[j],
                    progress |-> 0, url |-> FALSE]]
      BY <2>1 DEF Init
    <2> QED BY <2>2, <2>3, <2>4, <2>5 DEF Row
  <1>7. worker \in [Workers -> Process]
    <2>1. 0 \in 0 .. cursor /\ {} \in SUBSET Episodes /\ <<>> \in Seq(Shard) /\ 1 \in Nat
      BY <1>1
    <2>2. Free("boot") \in Process
      BY <2>1 DEF Free, Process
    <2> QED BY <1>1, <2>2
  <1>8. TypeOK
    <2>1. 0 \in 0 .. MaxFaults
      BY ExportAssumption
    <2>2. cursor \in 0 .. Len(stream) /\ pending \subseteq 1 .. cursor /\ group \in BOOLEAN
      BY <1>1, <1>2
    <2> QED BY <1>1, <1>2, <1>6, <1>7, <2>1, <2>2 DEF TypeOK, Process, Row
  <1>9. StreamOrder /\ HandlerOrder /\ IdleFree /\ BucketOrder
    BY <1>2, <1>3, <1>4 DEF StreamOrder, HandlerOrder, IdleFree, BucketOrder, IsInjective
  <1>10. NotYet
    BY <1>2, <1>5 DEF NotYet, Created
  <1>11. (\A w \in Workers : worker[w].pc \in Executing => Running(w)) /\ CompletedIsWhole
    BY <1>3, <1>4, <1>5 DEF CompletedIsWhole
  <1>12. ShardsFit /\ AckedIsCompleted
    BY <1>2 DEF ShardsFit, AckedIsCompleted
  <1> QED BY <1>8, <1>9, <1>10, <1>11, <1>12 DEF ExportInv

LEMMA ExportNext == ExportInv /\ [Next]_vars => ExportInv'
  <1> SUFFICES ASSUME ExportInv, [Next]_vars PROVE ExportInv'
    OBVIOUS
  <1>1. ASSUME NEW j \in Jobs, CreateJob(j) PROVE ExportInv'
    BY <1>1, CreateJobInv
  <1>2. ASSUME NEW j \in Jobs, Enqueue(j) PROVE ExportInv'
    BY <1>2, EnqueueInv
  <1>3. ASSUME NEW e \in Episodes, DeleteEpisode(e) PROVE ExportInv'
    BY <1>3, DeleteEpisodeInv DEF DeleteEpisode
  <1>4. ASSUME NEW w \in Workers, Work(w) PROVE ExportInv'
    <2>1. CASE EnsureGroup(w)
      BY <2>1, EnsureGroupInv
    <2>2. CASE ReadNew(w)
      BY <2>2, ReadNewInv
    <2>3. CASE StartJob(w)
      BY <2>3, StartJobInv
    <2>4. CASE ResolveEpisodeRefs(w)
      BY <2>4, ResolveInv
    <2>5. CASE ExportSample(w)
      BY <2>5, ExportSampleInv
    <2>6. CASE ExportMissing(w)
      BY <2>6, ExportMissingInv
    <2>7. CASE ExportDone(w)
      BY <2>7, ExportDoneInv
    <2>8. CASE UploadShard(w)
      BY <2>8, UploadShardInv
    <2>9. CASE UpdateJobProgress(w)
      BY <2>9, UpdateProgressInv
    <2>10. CASE UploadManifest(w)
      BY <2>10, UploadManifestInv
    <2>11. CASE CompleteJob(w)
      BY <2>11, CompleteJobInv
    <2>12. CASE Ack(w)
      BY <2>12, AckInv
    <2>13. CASE FailJob(w)
      BY <2>13, FailJobInv
    <2> QED BY <1>4, <2>1, <2>2, <2>3, <2>4, <2>5, <2>6, <2>7, <2>8, <2>9, <2>10, <2>11,
               <2>12, <2>13 DEF Work
  <1>5. ASSUME NEW w \in Workers, Disturb(w) PROVE ExportInv'
    <2>1. CASE Raise(w)
      BY <2>1, RaiseInv
    <2>2. CASE FailJobRaises(w)
      BY <2>2, FailJobInv
    <2>3. CASE Die(w)
      BY <2>3, DieInv
    <2>4. CASE Restart(w)
      BY <2>4, EnsureGroupInv
    <2> QED BY <1>5, <2>1, <2>2, <2>3, <2>4 DEF Disturb
  <1>6. CASE UNCHANGED vars
    BY <1>6, DeleteEpisodeInv DEF vars
  <1> QED BY <1>1, <1>2, <1>3, <1>4, <1>5, <1>6 DEF Next

\* In every reachable state of any number of jobs and workers, whatever calls
\* fail and whichever workers die, the inductive invariant holds.
THEOREM ExportJobsSafe == Spec => []ExportInv
  <1> QED BY ExportInit, ExportNext, PTL DEF Spec

\* CompletedIsWhole and ShardsFit: a job whose manifest_url a caller can read has
\* left a whole export in its target bucket, the version's episodes in their
\* order and in shards that fit, and keeps it there while no other job is given
\* its prefix.
THEOREM ExportJobsExportIsWhole == Spec => []ExportIsWhole
  <1>1. ExportInv => ExportIsWhole
    BY DEF ExportInv, ExportIsWhole
  <1> QED BY <1>1, ExportJobsSafe, PTL

\* AckedIsCompleted: no entry leaves the pending list of the consumer group, by
\* _handle_message's XACK, unless its job was completed.
THEOREM ExportJobsAckedIsCompleted == Spec => []AckedIsCompleted
  <1>1. ExportInv => AckedIsCompleted
    BY DEF ExportInv
  <1> QED BY <1>1, ExportJobsSafe, PTL

\* ProgressIsHonest: the percentage that _update_job_progress writes never runs
\* ahead of the shards in the target bucket.
THEOREM ExportJobsProgressIsHonest == Spec => []ProgressIsHonest
  <1>1. ExportInv => ProgressIsHonest
    <2> SUFFICES ASSUME ExportInv, NEW j \in Jobs, NEW w \in Workers,
                        Alone(j), worker[w].pc \in Executing, Job(w) = j
                 PROVE  job[j].progress * Len(worker[w].shards) <=
                          100 * Cardinality(Numbers(job[j].prefix))
      BY DEF ProgressIsHonest
    <2>1. PICK p : p = job[j].prefix
      OBVIOUS
    <2>2. /\ Handled(worker[w], job[j].version, job[j].format, job[j].progress, job[j].url, episodes)
          /\ Numbers(p) = 1 .. Done(worker[w])
          /\ worker[w].shards \in Seq(Shard)
      BY <2>1, ExecutingFacts
    <2>3. Done(worker[w]) \in Nat
      <3>1. worker[w].next \in Nat /\ Len(worker[w].shards) \in Nat
        BY <2>2 DEF ExportInv, TypeOK
      <3>2. worker[w].pc = "upload" => worker[w].next - 1 \in Nat
        <4>1. worker[w].pc = "upload" => worker[w].next \in 1 .. Len(worker[w].shards)
          BY <2>2 DEF Handled
        <4> QED BY <3>1, <4>1
      <3> QED BY <3>1, <3>2 DEF Done
    <2>4. Cardinality(1 .. Done(worker[w])) = Done(worker[w])
      <3>1. PICK d \in Nat : d = Done(worker[w])
        BY <2>3
      <3>2. Cardinality(1 .. d) = d - 1 + 1
        BY FS_Interval
      <3> QED BY <3>1, <3>2
    <2> QED BY <2>1, <2>2, <2>4 DEF Handled
  <1> QED BY <1>1, ExportJobsSafe, PTL
================================================================================
