----------------------------- MODULE MCMcapCache ------------------------------
(* Two episodes for a cache of one, and three requests: an eviction happens  *)
(* at every other download, while requests wait on the evicted lock.  Four   *)
(* locks are enough: two other requests and the other episode refer to three. *)
EXTENDS McapCache, TLC

CONSTANTS e1, e2, r1, r2, r3, l1, l2, l3, l4

MCEpisodes == {e1, e2}
MCRequests == {r1, r2, r3}
MCLocks == {l1, l2, l3, l4}
Symmetry == Permutations(MCRequests) \cup Permutations(MCLocks)

\* Without is SelectSeq on every sequence of up to four elements.
ASSUME WithoutIsSelectSeq ==
    \A n \in 0 .. 4 : \A s \in [1 .. n -> 1 .. 3], S \in SUBSET (1 .. 3) :
        Without(s, S) = {SelectSeq(s, LAMBDA x : x \notin S)}
=============================================================================
