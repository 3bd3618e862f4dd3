--------------------------- MODULE EpisodeLifecycle ---------------------------
(***************************************************************************)
(* What ingestion promises of an episode, without requests, chunks, events *)
(* or workers: it is registered, it gets its whole file once, it may then  *)
(* be submitted to the pipeline any number of times, and each submission   *)
(* that ends well leaves it ready and indexed.                             *)
(***************************************************************************)
CONSTANT Episodes

VARIABLES
    phase,    \* the status readers see
    file,     \* whether the whole file is in the object store
    indexed   \* whether topic rows exist

vars == <<phase, file, indexed>>

Init ==
    /\ phase = [e \in Episodes |-> "none"]
    /\ file = [e \in Episodes |-> FALSE]
    /\ indexed = [e \in Episodes |-> FALSE]

Register(e) ==
    /\ phase[e] = "none"
    /\ phase' = [phase EXCEPT ![e] = "uploading"]
    /\ UNCHANGED <<file, indexed>>

Store(e) ==
    /\ phase[e] = "uploading"
    /\ file' = [file EXCEPT ![e] = TRUE]
    /\ UNCHANGED <<phase, indexed>>

Submit(e) ==
    /\ file[e]
    /\ phase[e] # "none"
    /\ phase' = [phase EXCEPT ![e] = "processing"]
    /\ UNCHANGED <<file, indexed>>

Finish(e) ==
    /\ phase[e] = "processing"
    /\ phase' = [phase EXCEPT ![e] = "ready"]
    /\ indexed' = [indexed EXCEPT ![e] = TRUE]
    /\ UNCHANGED file

Next == \E e \in Episodes : Register(e) \/ Store(e) \/ Submit(e) \/ Finish(e)

Spec == Init /\ [][Next]_vars
=============================================================================
