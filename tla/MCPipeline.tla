------------------------------ MODULE MCPipeline ------------------------------
(* Two replicas, two events of one episode or of two, and up to two faults.  *)
EXTENDS Pipeline

CONSTANTS e1, e2, w1, w2

MCEpisodes == {e1, e2}
MCWorkers == {w1, w2}
=============================================================================
