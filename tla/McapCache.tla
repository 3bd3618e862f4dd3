------------------------------- MODULE McapCache -------------------------------
(***************************************************************************)
(* The disk cache of downloaded MCAP files that the frame endpoint reads   *)
(* (services/dataset-service/app/services/mcap_cache.py, its registry, and *)
(* get_frame in routers/episodes.py).                                      *)
(*                                                                         *)
(* All requests run on one event loop, so a step is what a coroutine does  *)
(* between two suspensions.  No suspension happens under _global_lock and  *)
(* none happens between the fast path and an episode lock that is free; a  *)
(* coroutine suspends on a lock that is taken and in the download.         *)
(* The lock objects matter: the registry forgets an episode's lock on      *)
(* eviction, expiry and failure while coroutines still wait on it.         *)
(***************************************************************************)
EXTENDS Naturals, Sequences, FiniteSets, SequencesExt

CONSTANTS
    Episodes,
    Requests,      \* concurrent GET /episodes/:id/frame requests
    Locks,         \* asyncio.Lock objects
    MaxSize,       \* max_size
    MaxFailures,   \* bound on failing downloads
    None           \* no lock, no request, no episode

ASSUME CacheAssumption ==
    /\ MaxSize \in Nat \ {0}
    /\ MaxFailures \in Nat
    /\ None \notin Episodes \cup Requests \cup Locks

VARIABLES
    cache,      \* _cache: its episodes, least recently used first
    lockOf,     \* _episode_locks
    holder,     \* who holds each lock object
    waiters,    \* the FIFO of each lock object
    file,       \* what is at the episode's path: "none", "partial", "whole"
    writer,     \* the download whose bytes the file still misses
    leftover,   \* files an unlink failed to remove since their last download
    req,        \* the requests
    up,         \* whether the service still runs
    failures

lockVars == <<lockOf, holder, waiters>>
diskVars == <<file, writer, leftover>>
vars == <<cache, lockVars, diskVars, req, up, failures>>

PCs == {"idle", "wait", "download", "write", "install", "use"}
Free == [pc |-> "idle", ep |-> None, lock |-> None]

TypeOK ==
    /\ cache \in Seq(Episodes)
    /\ lockOf \in [Episodes -> Locks \cup {None}]
    /\ holder \in [Locks -> Requests \cup {None}]
    /\ waiters \in [Locks -> Seq(Requests)]
    /\ file \in [Episodes -> {"none", "partial", "whole"}]
    /\ writer \in [Episodes -> Requests \cup {None}]
    /\ leftover \in SUBSET Episodes
    /\ req \in [Requests -> [pc : PCs, ep : Episodes \cup {None}, lock : Locks \cup {None}]]
    /\ up \in BOOLEAN
    /\ failures \in 0 .. MaxFailures

Init ==
    /\ cache = <<>>
    /\ lockOf = [e \in Episodes |-> None]
    /\ holder = [l \in Locks |-> None]
    /\ waiters = [l \in Locks |-> <<>>]
    /\ file = [e \in Episodes |-> "none"]
    /\ writer = [e \in Episodes |-> None]
    /\ leftover = {}
    /\ req = [r \in Requests |-> Free]
    /\ up = TRUE
    /\ failures = 0

At(r, pc) == req[r].pc = pc
Ep(r) == req[r].ep
Cached == ToSet(cache)

\* s without the elements of S, in the order of s: the one member of the set.
\* It is SelectSeq without its recursion.
Without(s, S) ==
    LET kept == {i \in DOMAIN s : s[i] \notin S}
        n == Cardinality(kept)
        orders == {f \in [1 .. n -> kept] : \A i, j \in 1 .. n : i < j => f[i] < f[j]}
    IN  {[i \in 1 .. n |-> s[f[i]]] : f \in orders}

\* move_to_end
Touch(e) == {Append(s, e) : s \in Without(cache, {e})}

\* A lock object that nothing else refers to is as good as a new one.
Unused(l, e) ==
    /\ \A f \in Episodes \ {e} : lockOf[f] # l
    /\ \A r \in Requests : req[r].lock # l

\* Leaving "async with ep_lock": the first waiter may go on (Wake).
ReleaseLock(r) == holder' = [holder EXCEPT ![req[r].lock] = None]

\* _remove_file on the paths of S: an unlink may fail, which is only logged, and
\* then the file stays though the caller has given up its entry.
Removed(S) ==
    \E stays \in SUBSET {e \in S : file[e] # "none"} :
        LET gone == S \ stays
        IN  /\ file' = [e \in Episodes |-> IF e \in gone THEN "none" ELSE file[e]]
            /\ writer' = [e \in Episodes |-> IF e \in gone THEN None ELSE writer[e]]
            /\ leftover' = (leftover \ gone) \cup stays

Forget(S) == lockOf' = [e \in Episodes |-> IF e \in S THEN None ELSE lockOf[e]]

-----------------------------------------------------------------------------
(* get_or_download                                                         *)

\* Fast path: the entry is there and so is its file.
Hit(r, e) ==
    /\ At(r, "idle")
    /\ e \in Cached
    /\ file[e] # "none"
    /\ cache' \in Touch(e)
    /\ req' = [req EXCEPT ![r] = [pc |-> "use", ep |-> e, lock |-> None]]
    /\ UNCHANGED <<lockVars, diskVars, up, failures>>

\* Otherwise drop a stale entry with its lock, take the registered lock or
\* register a new one, and either go on to the download or queue up.
Miss(r, e) ==
    LET known == IF e \in Cached THEN None ELSE lockOf[e]
    IN  /\ At(r, "idle")
        /\ e \notin Cached \/ file[e] = "none"
        /\ cache' \in Without(cache, {e})
        /\ \E l \in IF known # None
                    THEN {known}
                    ELSE {x \in Locks : Unused(x, e)} :
             /\ lockOf' = [lockOf EXCEPT ![e] = l]
             /\ IF holder[l] = None /\ waiters[l] = <<>>
                THEN /\ holder' = [holder EXCEPT ![l] = r]
                     /\ req' = [req EXCEPT ![r] = [pc |-> "download", ep |-> e, lock |-> l]]
                     /\ UNCHANGED waiters
                ELSE /\ waiters' = [waiters EXCEPT ![l] = Append(@, r)]
                     /\ req' = [req EXCEPT ![r] = [pc |-> "wait", ep |-> e, lock |-> l]]
                     /\ UNCHANGED holder
        /\ UNCHANGED <<diskVars, up, failures>>

\* The first waiter gets the lock it queued on, which need not be the
\* registered one any more, and looks again.
Wake(r) ==
    LET e == Ep(r)
        l == req[r].lock
    IN  /\ At(r, "wait")
        /\ holder[l] = None
        /\ Head(waiters[l]) = r
        /\ waiters' = [waiters EXCEPT ![l] = Tail(@)]
        /\ IF e \in Cached /\ file[e] # "none"
           THEN /\ cache' \in Touch(e)
                /\ req' = [req EXCEPT ![r] = [pc |-> "use", ep |-> e, lock |-> None]]
                /\ UNCHANGED holder
           ELSE /\ holder' = [holder EXCEPT ![l] = r]
                /\ req' = [req EXCEPT ![r].pc = "download"]
                /\ UNCHANGED cache
        /\ UNCHANGED <<lockOf, diskVars, up, failures>>

\* External (aioboto3 download_file): the local file is created or truncated
\* when the transfer starts and filled in place.
OpenLocalFile(r) ==
    /\ At(r, "download")
    /\ file' = [file EXCEPT ![Ep(r)] = "partial"]
    /\ writer' = [writer EXCEPT ![Ep(r)] = r]
    /\ leftover' = leftover \ {Ep(r)}
    /\ req' = [req EXCEPT ![r].pc = "write"]
    /\ UNCHANGED <<cache, lockVars, up, failures>>

\* The transfer ends.  If the path was unlinked, or truncated by a later
\* download, the bytes are not (all) at the path.
Downloaded(r) ==
    /\ At(r, "write")
    /\ IF writer[Ep(r)] = r
       THEN /\ file' = [file EXCEPT ![Ep(r)] = "whole"]
            /\ writer' = [writer EXCEPT ![Ep(r)] = None]
            /\ UNCHANGED leftover
       ELSE UNCHANGED diskVars
    /\ req' = [req EXCEPT ![r].pc = "install"]
    /\ UNCHANGED <<cache, lockVars, up, failures>>

\* Mutants of DownloadFails: the lock is not released, the partial file stays
\* on the disk.
FailsHolding(r) ==
    /\ At(r, "download") \/ At(r, "write")
    /\ failures < MaxFailures
    /\ failures' = failures + 1
    /\ Removed({Ep(r)})
    /\ Forget({Ep(r)})
    /\ req' = [req EXCEPT ![r] = Free]
    /\ UNCHANGED <<cache, holder, waiters, up>>

FailsKeepingFile(r) ==
    /\ At(r, "download") \/ At(r, "write")
    /\ failures < MaxFailures
    /\ failures' = failures + 1
    /\ Forget({Ep(r)})
    /\ ReleaseLock(r)
    /\ req' = [req EXCEPT ![r] = Free]
    /\ UNCHANGED <<cache, diskVars, waiters, up>>

\* The handler of the exception removes the file at the path and the lock in
\* the registry, whoever they belong to by now.
DownloadFails(r) ==
    /\ At(r, "download") \/ At(r, "write")
    /\ failures < MaxFailures
    /\ failures' = failures + 1
    /\ Removed({Ep(r)})
    /\ Forget({Ep(r)})
    /\ ReleaseLock(r)
    /\ req' = [req EXCEPT ![r] = Free]
    /\ UNCHANGED <<cache, waiters, up>>

\* Evict from the least recently used end until there is room, then insert.
\* Mutant: ">" for ">=".
EvictedLate == IF Len(cache) <= MaxSize THEN 0 ELSE Len(cache) - MaxSize

Evicted == IF Len(cache) < MaxSize THEN 0 ELSE Len(cache) - MaxSize + 1

Install(r) ==
    LET e == Ep(r)
        out == ToSet(SubSeq(cache, 1, Evicted))
        kept == SubSeq(cache, Evicted + 1, Len(cache))
    IN  /\ At(r, "install")
        /\ Removed(out)
        /\ Forget(out)
        /\ cache' = IF e \in ToSet(kept) THEN kept ELSE Append(kept, e)
        /\ ReleaseLock(r)
        /\ req' = [req EXCEPT ![r] = [pc |-> "use", ep |-> e, lock |-> None]]
        /\ UNCHANGED <<waiters, up, failures>>

-----------------------------------------------------------------------------
\* get_frame opens the path in a worker thread; without a whole file the
\* reader raises and the answer is a 500.
ExtractFrame(r) ==
    /\ At(r, "use")
    /\ req' = [req EXCEPT ![r] = Free]
    /\ UNCHANGED <<cache, lockVars, diskVars, up, failures>>

\* The sweep every 60 s.  When an entry was last used is not modelled, so
\* any entries may have passed the TTL.
CleanupExpired ==
    \E expired \in (SUBSET Cached) \ {{}} :
        /\ up
        /\ cache' \in Without(cache, expired)
        /\ Forget(expired)
        /\ Removed(expired)
        /\ UNCHANGED <<holder, waiters, req, up, failures>>

\* Shutdown, when the server has drained its requests.
Clear ==
    /\ up
    /\ \A r \in Requests : At(r, "idle")
    /\ Removed(Cached)
    /\ cache' = <<>>
    /\ Forget(Episodes)
    /\ up' = FALSE
    /\ UNCHANGED <<holder, waiters, req, failures>>

Transfer(r) == OpenLocalFile(r) \/ Downloaded(r)

Resume(r) == Wake(r) \/ Install(r) \/ ExtractFrame(r)

Next ==
    \/ \E r \in Requests :
         \/ Transfer(r) \/ Resume(r) \/ DownloadFails(r)
         \/ \E e \in Episodes : up /\ (Hit(r, e) \/ Miss(r, e))
    \/ CleanupExpired
    \/ Clear

Spec == Init /\ [][Next]_vars

-----------------------------------------------------------------------------
(* Safety                                                                  *)

\* The cache holds each episode once and at most max_size of them, also when
\* two downloads of one episode end one after the other.
SizeBounded == Len(cache) <= MaxSize /\ IsInjective(cache)

\* A lock object belongs to one episode, is held by one working request, and
\* whoever waits on it waits for somebody: no wake-up is lost when the
\* registry forgets the lock.
LocksConsistent ==
    /\ \A r \in Requests :
         At(r, "wait") => r \in ToSet(waiters[req[r].lock])
    /\ \A l \in Locks :
         /\ holder[l] # None =>
              /\ req[holder[l]].lock = l
              /\ req[holder[l]].pc \in {"download", "write", "install"}
         /\ \A i \in DOMAIN waiters[l] :
              /\ req[waiters[l][i]].lock = l
              /\ At(waiters[l][i], "wait")
         /\ \A r, q \in Requests :
              req[r].lock = l /\ req[q].lock = l => req[r].ep = req[q].ep

\* _episode_locks does not grow: a registered lock belongs to an entry of the
\* cache or to a request that is at work on the episode.
NoLockLeak ==
    \A e \in Episodes :
        lockOf[e] # None =>
            \/ e \in Cached
            \/ \E r \in Requests : Ep(r) = e /\ req[r].lock # None

\* Every file on the disk is in the cache or about to be, unless removing it
\* has failed since it was last downloaded: what is evicted, expired or failed
\* is unlinked, also when two requests share the path.
NoOrphanFile ==
    \A e \in Episodes :
        file[e] # "none" =>
            \/ e \in Cached
            \/ e \in leftover
            \/ \E r \in Requests : Ep(r) = e /\ req[r].pc \in {"write", "install"}

\* After the shutdown nothing is left on the disk but what could not be removed.
ClearedIsEmpty == ~up => \A e \in Episodes : file[e] = "none" \/ e \in leftover

\* A leftover is a file nobody could remove: neither a download that begins
\* nor an unlink that works leaves one behind.
LeftoverIsThere == \A e \in leftover : file[e] # "none"

\* The registry of locks stays in order and as small as what it serves.
LockSafety == TypeOK /\ LocksConsistent /\ NoLockLeak

\* The disk holds what the cache accounts for and what could not be removed, and
\* only the latter after the shutdown.
DiskMatchesCache == NoOrphanFile /\ ClearedIsEmpty /\ LeftoverIsThere
=============================================================================
