-------------------------- MODULE MCAnnotationTasks ---------------------------
(* One task, so that all requests meet on it, one annotation of it in Label *)
(* Studio, an annotator and a manager it may be assigned to, and three      *)
(* requests at a time.                                                      *)
EXTENDS AnnotationTasks, TLC

CONSTANTS t1, m1, a1, k1, r1, r2, r3

MCTasks == {t1}
MCManagers == {m1}
MCAnnotators == {a1}
MCMarks == {k1}
MCRequests == {r1, r2, r3}
Symmetry == Permutations(MCRequests)
=============================================================================
