------------------------------ MODULE Ingestion -------------------------------
(***************************************************************************)
(* The gateway's uploads and the pipeline's workers over the state they    *)
(* share: the episode rows, the object store and the stream                *)
(* episodes:ingested.  A step of the system is a step of one of them.      *)
(***************************************************************************)
EXTENDS Upload

CONSTANTS Workers, MaxStream, MaxFaults

VARIABLES
    group, cursor, pending, worker, topics, temp, thumbs,  \* of the pipeline,
    thumbUrl, faults,       \* which shares status and stream with the gateway
    lost    \* history: episodes of which a step after CompleteSession failed

P == INSTANCE Pipeline WITH file <- [e \in Episodes |-> HasFile(e)]

ASSUME IngestionAssumption == MaxStream \in Nat /\ MaxFaults \in Nat

uploadOnly == <<path, session, received, chunks, object, req>>
pipelineOnly == <<group, cursor, pending, worker, topics, temp, thumbs, thumbUrl, faults>>
allVars == <<status, stream, uploadOnly, pipelineOnly, lost>>

IngestionInit == Init /\ P!PipelineInit /\ lost = {}

\* Steps after which nobody goes on with the episode by itself.
Loses(r) == PublishLost(r) \/ (Abandon(r) /\ req[r].pc \in {"status", "publish"})

GatewayStep ==
    /\ UNCHANGED pipelineOnly
    /\ \E r \in Requests :
         \/ (Arrive(r) \/ Serve(r)) /\ UNCHANGED lost
         \/ Abandon(r) /\ req[r].pc \notin {"status", "publish"} /\ UNCHANGED lost
         \/ Loses(r) /\ lost' = lost \cup {req[r].ep}

PipelineStep ==
    /\ UNCHANGED uploadOnly
    /\ \E w \in Workers :
         \/ P!Work(w) /\ UNCHANGED lost
         \/ P!Disturb(w) /\ lost' = IF worker[w].pc \in P!Handling
                                    THEN lost \cup {P!Episode(w)}
                                    ELSE lost

IngestionNext == GatewayStep \/ PipelineStep

IngestionSpec == IngestionInit /\ [][IngestionNext]_allVars

\* net/http and the event loop run what can run; clients, failures and
\* restarts are under no obligation.
FairIngestionSpec ==
    /\ IngestionSpec
    /\ \A r \in Requests : WF_allVars(UNCHANGED <<pipelineOnly, lost>> /\ Serve(r))
    /\ \A w \in Workers : WF_allVars(UNCHANGED <<uploadOnly, lost>> /\ P!Work(w))

-----------------------------------------------------------------------------
(* Safety                                                                  *)

\* A worker that is about to download finds the whole file, however the
\* requests that completed the upload interleaved with the worker.
DownloadFindsFile ==
    \A w \in Workers : P!At(w, "download") => HasFile(P!Episode(w)) /\ path[P!Episode(w)]

\* A ready episode has a stored path, a whole file, a closed session and
\* topic rows.
ReadyIsComplete ==
    \A e \in Episodes :
        status[e] = "ready" =>
            /\ path[e] /\ HasFile(e) /\ session[e] = "completed"
            /\ \E i \in topics : stream[i] = e

\* What a status says of an episode is there, while it is processed and after.
StatusIsFounded == DownloadFindsFile /\ ReadyIsComplete

\* The system is an episode lifecycle.
Lifecycle == INSTANCE EpisodeLifecycle WITH
    phase <- status,
    file <- [e \in Episodes |-> HasFile(e)],
    indexed <- [e \in Episodes |-> \E i \in topics : stream[i] = e]

LifecycleSpec == Lifecycle!Spec

-----------------------------------------------------------------------------
(* Liveness                                                                *)

\* An upload whose session is closed becomes a ready episode, unless a call
\* after the closing failed or no worker process is left.
CompletedBecomesReady ==
    \A e \in Episodes :
        session[e] = "completed" ~>
            \/ status[e] = "ready"
            \/ e \in lost
            \/ \A w \in Workers : P!At(w, "down")
=============================================================================
