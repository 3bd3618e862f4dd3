----------------------------- MODULE MCIngestion ------------------------------
(* One upload of two chunks, two requests (so that completions race), two   *)
(* workers and one fault.                                                   *)
EXTENDS Ingestion, TLC

CONSTANTS e1, r1, r2, w1, w2

MCEpisodes == {e1}
MCRequests == {r1, r2}
MCWorkers == {w1, w2}
MCSizeBytes == (e1 :> 3)
=============================================================================
