-------------------------------- MODULE Upload --------------------------------
(***************************************************************************)
(* The chunked upload of an episode through the gateway                    *)
(* (services/gateway/internal/handler/upload.go, repo/episode.go,          *)
(* storage/minio.go, events/publisher.go).                                 *)
(*                                                                         *)
(* A request slot r runs one HTTP request at a time.  Every SQL statement, *)
(* every object-store call and the XADD is one action, because any other   *)
(* request may run between two of them.  A request that is answered with   *)
(* an error before its first write changes nothing and is not a step.      *)
(* One episode has one upload session, so a session is named by its        *)
(* episode; chunk n is the object tmp/<session>/chunk_<n>, and a file is   *)
(* the set of chunk numbers composed into it.                              *)
(***************************************************************************)
EXTENDS Naturals, Sequences, FiniteSets

CONSTANTS
    Episodes,     \* the episode ids that uuid.New() hands out
    Requests,     \* request slots: the number of requests served at a time
    SizeBytes,    \* the size_bytes the client declares for each episode
    ChunkSize,    \* uploadChunkSize (64 MB)
    MaxReceived,  \* bound on received_chunks
    NoEpisode     \* the episode of an idle slot

ASSUME UploadAssumption ==
    /\ SizeBytes \in [Episodes -> Nat \ {0}]
    /\ ChunkSize \in Nat \ {0}
    /\ MaxReceived \in Nat
    /\ NoEpisode \notin Episodes

VARIABLES
    status,     \* episodes.status, "none" before the row exists
    path,       \* whether episodes.storage_path is set
    session,    \* upload_sessions.status, "none" before the row exists
    received,   \* upload_sessions.received_chunks
    chunks,     \* the temporary chunk objects in the store
    object,     \* the chunks composed into the episode's file, {} if none
    stream,     \* the entries of the Redis stream episodes:ingested
    req         \* the request slots

rows == <<status, path, session, received>>
vars == <<status, path, session, received, chunks, object, stream, req>>

TotalChunks(e) == (SizeBytes[e] + ChunkSize - 1) \div ChunkSize
AllChunks(e) == 0 .. TotalChunks(e) - 1

Idle == [pc |-> "idle", ep |-> NoEpisode, n |-> 0]

PCs == {"idle", "session", "put", "count", "assemble", "close", "status",
        "publish", "sweep"}

RequestsOK ==
    /\ req \in [Requests -> [pc : PCs, ep : Episodes \cup {NoEpisode}, n : Nat]]
    /\ \A r \in Requests : req[r].pc # "idle" => req[r].ep \in Episodes

TypeOK ==
    /\ status \in [Episodes -> {"none", "uploading", "processing", "ready"}]
    /\ path \in [Episodes -> BOOLEAN]
    /\ session \in [Episodes -> {"none", "in_progress", "completed"}]
    /\ received \in [Episodes -> Nat]
    /\ chunks \in [Episodes -> SUBSET Nat]
    /\ object \in [Episodes -> SUBSET Nat]
    /\ stream \in Seq(Episodes)
    /\ RequestsOK

Init ==
    /\ status = [e \in Episodes |-> "none"]
    /\ path = [e \in Episodes |-> FALSE]
    /\ session = [e \in Episodes |-> "none"]
    /\ received = [e \in Episodes |-> 0]
    /\ chunks = [e \in Episodes |-> {}]
    /\ object = [e \in Episodes |-> {}]
    /\ stream = <<>>
    /\ req = [r \in Requests |-> Idle]

At(r, pc) == req[r].pc = pc
Start(r, pc, e, n) == req' = [req EXCEPT ![r] = [pc |-> pc, ep |-> e, n |-> n]]
GoTo(r, pc) == req' = [req EXCEPT ![r].pc = pc]
Done(r) == req' = [req EXCEPT ![r] = Idle]

-----------------------------------------------------------------------------
(* Faulty variants of the steps below: each breaks one of the properties.  *)

\* The session row is closed with a word the readers do not know.
CloseMisspelt(r) ==
    /\ At(r, "close")
    /\ session' = [session EXCEPT ![req[r].ep] = "complete"]
    /\ GoTo(r, "status")
    /\ UNCHANGED <<status, path, received, chunks, object, stream>>

\* AssembleChunks composes one source too few.
AssembleOneShort(r) ==
    LET e == req[r].ep
        sources == 0 .. TotalChunks(e) - 2
    IN  /\ At(r, "assemble")
        /\ sources \subseteq chunks[e]
        /\ object' = [object EXCEPT ![e] = sources]
        /\ GoTo(r, "close")
        /\ UNCHANGED <<rows, chunks, stream>>

\* Complete updates the episode before it composes the file.
StatusFirst(r, e) ==
    /\ At(r, "idle")
    /\ session[e] = "in_progress"
    /\ received[e] = TotalChunks(e)
    /\ Start(r, "status", e, 0)
    /\ UNCHANGED <<rows, chunks, object, stream>>

\* The event is emitted before the path is stored.
PublishFirst(r) ==
    /\ At(r, "close")
    /\ session' = [session EXCEPT ![req[r].ep] = "completed"]
    /\ GoTo(r, "publish")
    /\ UNCHANGED <<status, path, received, chunks, object, stream>>

\* The chunks are removed as soon as the session is closed.
SweepFirst(r) ==
    /\ At(r, "close")
    /\ session' = [session EXCEPT ![req[r].ep] = "completed"]
    /\ GoTo(r, "sweep")
    /\ UNCHANGED <<status, path, received, chunks, object, stream>>

-----------------------------------------------------------------------------
(* POST /episodes/upload/init: the episode row, then the session row.      *)

CreateEpisode(r, e) ==
    /\ At(r, "idle")
    /\ status[e] = "none"
    /\ status' = [status EXCEPT ![e] = "uploading"]
    /\ Start(r, "session", e, 0)
    /\ UNCHANGED <<path, session, received, chunks, object, stream>>

CreateUploadSession(r) ==
    /\ At(r, "session")
    /\ session' = [session EXCEPT ![req[r].ep] = "in_progress"]
    /\ Done(r)
    /\ UNCHANGED <<status, path, received, chunks, object, stream>>

-----------------------------------------------------------------------------
(* PUT /episodes/upload/:session/chunk/:n: check the session, store the    *)
(* chunk, count it.  The session is not looked at again after the check.   *)

BeginChunk(r, e, n) ==
    /\ At(r, "idle")
    /\ session[e] = "in_progress"
    /\ n < TotalChunks(e)
    /\ Start(r, "put", e, n)
    /\ UNCHANGED <<rows, chunks, object, stream>>

StoreChunk(r) ==
    /\ At(r, "put")
    /\ chunks' = [chunks EXCEPT ![req[r].ep] = @ \cup {req[r].n}]
    /\ GoTo(r, "count")
    /\ UNCHANGED <<rows, object, stream>>

IncrementReceivedChunks(r) ==
    /\ At(r, "count")
    /\ received[req[r].ep] < MaxReceived
    /\ received' = [received EXCEPT ![req[r].ep] = @ + 1]
    /\ Done(r)
    /\ UNCHANGED <<status, path, session, chunks, object, stream>>

-----------------------------------------------------------------------------
(* POST /episodes/upload/:session/complete: check the session and the      *)
(* count, compose the file, close the session, publish the path, emit the  *)
(* event, and remove the chunks in a goroutine that outlives the request.  *)

BeginComplete(r, e) ==
    /\ At(r, "idle")
    /\ session[e] = "in_progress"
    /\ received[e] = TotalChunks(e)
    /\ Start(r, "assemble", e, 0)
    /\ UNCHANGED <<rows, chunks, object, stream>>

\* ComposeObject is atomic and refuses a list with a missing source.
AssembleChunks(r) ==
    LET e == req[r].ep
        sources == AllChunks(e)
    IN  /\ At(r, "assemble")
        /\ sources \subseteq chunks[e]
        /\ object' = [object EXCEPT ![e] = sources]
        /\ GoTo(r, "close")
        /\ UNCHANGED <<rows, chunks, stream>>

CompleteSession(r) ==
    /\ At(r, "close")
    /\ session' = [session EXCEPT ![req[r].ep] = "completed"]
    /\ GoTo(r, "status")
    /\ UNCHANGED <<status, path, received, chunks, object, stream>>

\* The UPDATE has no condition on the status the row has.
UpdateEpisodeStatus(r) ==
    LET e == req[r].ep
    IN  /\ At(r, "status")
        /\ status' = [status EXCEPT ![e] = "processing"]
        /\ path' = [path EXCEPT ![e] = TRUE]
        /\ GoTo(r, "publish")
        /\ UNCHANGED <<session, received, chunks, object, stream>>

PublishEpisodeIngested(r) ==
    /\ At(r, "publish")
    /\ stream' = Append(stream, req[r].ep)
    /\ GoTo(r, "sweep")
    /\ UNCHANGED <<rows, chunks, object>>

\* The XADD failed: its error is dropped and the request goes on.
PublishLost(r) ==
    /\ At(r, "publish")
    /\ GoTo(r, "sweep")
    /\ UNCHANGED <<rows, chunks, object, stream>>

\* One round of DeleteChunks; a failing RemoveObject is ignored.
DeleteChunk(r) ==
    LET e == req[r].ep
        n == req[r].n
    IN  /\ At(r, "sweep")
        /\ \/ chunks' = [chunks EXCEPT ![e] = @ \ {n}]
           \/ UNCHANGED chunks
        /\ IF n + 1 < TotalChunks(e)
           THEN req' = [req EXCEPT ![r].n = n + 1]
           ELSE Done(r)
        /\ UNCHANGED <<rows, object, stream>>

-----------------------------------------------------------------------------
\* The next call of r returns an error and the handler answers with it, the
\* client's disconnection cancels the request's context, or the gateway
\* stops.  What the request has written stays.
Abandon(r) ==
    /\ ~At(r, "idle")
    /\ Done(r)
    /\ UNCHANGED <<rows, chunks, object, stream>>

Serve(r) ==
    \/ CreateUploadSession(r)
    \/ StoreChunk(r)
    \/ IncrementReceivedChunks(r)
    \/ AssembleChunks(r)
    \/ CompleteSession(r)
    \/ UpdateEpisodeStatus(r)
    \/ PublishEpisodeIngested(r)
    \/ DeleteChunk(r)

Arrive(r) ==
    \E e \in Episodes :
        \/ CreateEpisode(r, e)
        \/ BeginComplete(r, e)
        \/ \E n \in AllChunks(e) : BeginChunk(r, e, n)

Next == \E r \in Requests : Arrive(r) \/ Serve(r) \/ PublishLost(r) \/ Abandon(r)

Spec == Init /\ [][Next]_vars

-----------------------------------------------------------------------------
(* Safety                                                                  *)

HasFile(e) == object[e] = AllChunks(e)

\* A session is closed only over a file made of every chunk the client
\* announced, although the handler itself only compares two counters
\* (upload.go:157) and duplicates are counted too.
CompletedHasFile ==
    \A e \in Episodes : session[e] = "completed" => HasFile(e)

\* An episode that readers see as past 'uploading' has its storage_path and
\* the whole file, whatever requests ran at once or died half-way.
ProcessingHasFile ==
    \A e \in Episodes :
        status[e] \notin {"none", "uploading"} => path[e] /\ HasFile(e)

\* An event on episodes:ingested names an episode whose session is closed,
\* whose path is stored and whose file can be downloaded.
PublishedIsReadable ==
    \A i \in DOMAIN stream :
        LET e == stream[i]
        IN  session[e] = "completed" /\ path[e] /\ HasFile(e)

\* DeleteChunks never takes a chunk away before the file made of it is the
\* episode's file: an upload that fails half-way can still be completed.
ChunkRemovalIsSafe ==
    [][\A e \in Episodes :
         chunks[e] \ chunks'[e] # {} => path[e] /\ HasFile(e)]_vars

\* A request that is past a step of Complete relies on what the step wrote.
\* Nothing takes it back: no step empties a file, reopens a session or
\* clears a path.
ProgressInv ==
    \A r \in Requests :
        LET e == req[r].ep
        IN  /\ req[r].pc \in {"assemble", "close"} => session[e] # "none"
            /\ req[r].pc \in {"close", "status", "publish", "sweep"} => HasFile(e)
            /\ req[r].pc \in {"status", "publish", "sweep"} => session[e] = "completed"
            /\ req[r].pc \in {"publish", "sweep"}
                 => path[e] /\ status[e] \notin {"none", "uploading"}

\* A session row is inserted at most once, by the one request that inserted
\* the episode's row; otherwise CreateUploadSession could reopen a session.
SessionInv ==
    /\ \A r \in Requests :
         At(r, "session") => /\ status[req[r].ep] # "none"
                             /\ session[req[r].ep] = "none"
    /\ \A r, q \in Requests :
         At(r, "session") /\ At(q, "session") /\ req[r].ep = req[q].ep => r = q
    /\ \A e \in Episodes : status[e] = "none" => session[e] = "none"

SafeInv ==
    /\ ProgressInv
    /\ SessionInv
    /\ CompletedHasFile
    /\ ProcessingHasFile
    /\ PublishedIsReadable

=============================================================================
