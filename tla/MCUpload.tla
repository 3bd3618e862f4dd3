------------------------------- MODULE MCUpload -------------------------------
(* Two episodes, of two chunks (the second one partial) and of one full    *)
(* chunk, and three requests at a time.                                    *)
EXTENDS Upload, TLC

CONSTANTS e1, e2, r1, r2, r3

MCEpisodes == {e1, e2}
MCRequests == {r1, r2, r3}
MCSizeBytes == (e1 :> 3) @@ (e2 :> 2)
Symmetry == Permutations(MCRequests)
=============================================================================
