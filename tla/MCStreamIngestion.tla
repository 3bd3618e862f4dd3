--------------------------- MODULE MCStreamIngestion --------------------------
(* Three frames in any order, without a timestamp or at times that lie within *)
(* the window of the next one, on its border, or beyond it.                   *)
EXTENDS StreamIngestion

MCTimes == {0, 1, 3, 4}
=============================================================================
