--------------------------- MODULE IngestionProofs ---------------------------
(***************************************************************************)
(* Theorems about the gateway's uploads, first alone (UploadX) and then    *)
(* with the pipeline over their shared state (IngestionX), for any         *)
(* episodes, requests, workers, sizes and faults: the inductive            *)
(* invariants, what a status promises, and that the system implements      *)
(* EpisodeLifecycle.                                                       *)
(*                                                                         *)
(* What holds of the gateway alone still does when workers write to the    *)
(* episodes' rows, because they do so only for episodes that have been     *)
(* announced on the stream.                                                *)
(***************************************************************************)
EXTENDS Ingestion, SequenceTheorems, TLAPS

-----------------------------------------------------------------------------
(* The gateway alone                                                       *)

\* The number of chunks announced to the client is a natural number.
LEMMA TotalChunksNat == \A e \in Episodes : TotalChunks(e) \in Nat
  BY UploadAssumption DEF TotalChunks

\* So every chunk number is one.
LEMMA AllChunksNat == \A e \in Episodes : AllChunks(e) \subseteq Nat
  BY TotalChunksNat DEF AllChunks

\* A step that takes a free slot for a request keeps the slots well-formed.
LEMMA StartOK ==
  ASSUME RequestsOK, NEW r \in Requests, NEW pc \in PCs, NEW e \in Episodes,
         NEW n \in Nat, Start(r, pc, e, n)
  PROVE  RequestsOK'
  BY DEF RequestsOK, Start

\* A step that only moves a busy slot on.
LEMMA GoToOK ==
  ASSUME RequestsOK, NEW r \in Requests, NEW pc \in PCs, ~At(r, "idle"), GoTo(r, pc)
  PROVE  RequestsOK'
  BY DEF RequestsOK, GoTo, At

\* A step that frees a slot.
LEMMA DoneOK ==
  ASSUME RequestsOK, NEW r \in Requests, Done(r)
  PROVE  RequestsOK'
  BY DEF RequestsOK, Done, Idle, PCs

\* The sweep's loop counter is a natural number too.
LEMMA NextChunkOK ==
  ASSUME RequestsOK, NEW r \in Requests, ~At(r, "idle"),
         req' = [req EXCEPT ![r].n = req[r].n + 1]
  PROVE  RequestsOK'
  BY DEF RequestsOK, At

\* A slot that is not idle serves some episode.
LEMMA BusyEpisode ==
  ASSUME RequestsOK, NEW r \in Requests, ~At(r, "idle")
  PROVE  req[r].ep \in Episodes /\ req[r].n \in Nat
  BY DEF RequestsOK, At

\* The handlers keep the rows, the objects, the stream and the slots
\* well-typed.
LEMMA TypeStep == TypeOK /\ [Next]_vars => TypeOK'
<1> SUFFICES ASSUME TypeOK, [Next]_vars PROVE TypeOK'
  OBVIOUS
<1> USE DEF TypeOK, rows
<1>1. ASSUME NEW r \in Requests, NEW e \in Episodes, CreateEpisode(r, e)
      PROVE  TypeOK'
  <2>1. RequestsOK'
    BY <1>1, StartOK DEF CreateEpisode, PCs
  <2>2. QED
    BY <1>1, <2>1 DEF CreateEpisode
<1>2. ASSUME NEW r \in Requests, NEW e \in Episodes, BeginComplete(r, e)
      PROVE  TypeOK'
  <2>1. RequestsOK'
    BY <1>2, StartOK DEF BeginComplete, PCs
  <2>2. QED
    BY <1>2, <2>1 DEF BeginComplete
<1>3. ASSUME NEW r \in Requests, NEW e \in Episodes, NEW n \in AllChunks(e),
             BeginChunk(r, e, n)
      PROVE  TypeOK'
  <2>1. n \in Nat
    BY AllChunksNat
  <2>2. RequestsOK'
    BY <1>3, <2>1, StartOK DEF BeginChunk, PCs
  <2>3. QED
    BY <1>3, <2>2 DEF BeginChunk
<1>4. ASSUME NEW r \in Requests, CreateUploadSession(r) PROVE TypeOK'
  <2>1. RequestsOK'
    BY <1>4, DoneOK DEF CreateUploadSession
  <2>2. QED
    BY <1>4, <2>1 DEF CreateUploadSession
<1>5. ASSUME NEW r \in Requests, StoreChunk(r) PROVE TypeOK'
  <2>1. ~At(r, "idle")
    BY <1>5 DEF StoreChunk, At
  <2>2. RequestsOK'
    BY <1>5, <2>1, GoToOK DEF StoreChunk, PCs
  <2>3. chunks' \in [Episodes -> SUBSET Nat]
    <3>1. chunks[req[r].ep] \cup {req[r].n} \in SUBSET Nat
      BY <2>1, BusyEpisode
    <3>2. QED
      BY <1>5, <3>1 DEF StoreChunk
  <2>4. QED
    BY <1>5, <2>2, <2>3 DEF StoreChunk
<1>6. ASSUME NEW r \in Requests, IncrementReceivedChunks(r) PROVE TypeOK'
  <2>1. RequestsOK'
    BY <1>6, DoneOK DEF IncrementReceivedChunks
  <2>2. QED
    <3>1. req[r].ep \in Episodes
      BY <1>6, BusyEpisode DEF IncrementReceivedChunks, At
    <3>2. received' \in [Episodes -> Nat]
      BY <1>6, <3>1 DEF IncrementReceivedChunks
    <3>3. QED
      BY <1>6, <2>1, <3>2 DEF IncrementReceivedChunks
<1>7. ASSUME NEW r \in Requests, AssembleChunks(r) PROVE TypeOK'
  <2>1. ~At(r, "idle")
    BY <1>7 DEF AssembleChunks, At
  <2>2. RequestsOK'
    BY <1>7, <2>1, GoToOK DEF AssembleChunks, PCs
  <2>3. AllChunks(req[r].ep) \in SUBSET Nat
    BY <2>1, BusyEpisode, AllChunksNat
  <2>4. object' \in [Episodes -> SUBSET Nat]
    BY <1>7, <2>3 DEF AssembleChunks
  <2>5. QED
    BY <1>7, <2>2, <2>4 DEF AssembleChunks
<1>8. ASSUME NEW r \in Requests, CompleteSession(r) PROVE TypeOK'
  <2>1. RequestsOK'
    BY <1>8, GoToOK DEF CompleteSession, PCs, At
  <2>2. QED
    BY <1>8, <2>1 DEF CompleteSession
<1>9. ASSUME NEW r \in Requests, UpdateEpisodeStatus(r) PROVE TypeOK'
  <2>1. RequestsOK'
    BY <1>9, GoToOK DEF UpdateEpisodeStatus, PCs, At
  <2>2. QED
    BY <1>9, <2>1 DEF UpdateEpisodeStatus
<1>10. ASSUME NEW r \in Requests, PublishEpisodeIngested(r) PROVE TypeOK'
  <2>1. ~At(r, "idle")
    BY <1>10 DEF PublishEpisodeIngested, At
  <2>2. RequestsOK'
    BY <1>10, <2>1, GoToOK DEF PublishEpisodeIngested, PCs
  <2>3. stream' \in Seq(Episodes)
    BY <1>10, <2>1, BusyEpisode, AppendProperties DEF PublishEpisodeIngested
  <2>4. QED
    BY <1>10, <2>2, <2>3 DEF PublishEpisodeIngested
<1>11. ASSUME NEW r \in Requests, PublishLost(r) PROVE TypeOK'
  <2>1. RequestsOK'
    BY <1>11, GoToOK DEF PublishLost, PCs, At
  <2>2. QED
    BY <1>11, <2>1 DEF PublishLost
<1>12. ASSUME NEW r \in Requests, DeleteChunk(r) PROVE TypeOK'
  <2>1. ~At(r, "idle")
    BY <1>12 DEF DeleteChunk, At
  <2>2. RequestsOK'
    BY <1>12, <2>1, NextChunkOK, DoneOK DEF DeleteChunk
  <2>3. chunks' \in [Episodes -> SUBSET Nat]
    <3>1. chunks[req[r].ep] \ {req[r].n} \in SUBSET Nat
      BY <2>1, BusyEpisode
    <3>2. QED
      BY <1>12, <3>1 DEF DeleteChunk
  <2>4. QED
    BY <1>12, <2>2, <2>3 DEF DeleteChunk
<1>13. ASSUME NEW r \in Requests, Abandon(r) PROVE TypeOK'
  <2>1. RequestsOK'
    BY <1>13, DoneOK DEF Abandon
  <2>2. QED
    BY <1>13, <2>1 DEF Abandon
<1>14. CASE UNCHANGED vars
  BY <1>14 DEF vars, RequestsOK
<1>15. QED
  BY <1>1, <1>2, <1>3, <1>4, <1>5, <1>6, <1>7, <1>8, <1>9, <1>10, <1>11, <1>12,
     <1>13, <1>14 DEF Next, Arrive, Serve

\* Before anything is uploaded every variable has its type.
LEMMA UploadTypeInit == Init => TypeOK
<1>1. ASSUME Init PROVE RequestsOK
  BY <1>1, UploadAssumption DEF Init, RequestsOK, Idle, PCs
<1>2. QED
  BY <1>1 DEF Init, TypeOK

\* The slots, rows, objects and the stream have their types in every state.
THEOREM UploadTypeOK == Spec => []TypeOK
  BY UploadTypeInit, TypeStep, PTL DEF Spec

-----------------------------------------------------------------------------
(* The inductive step of SafeInv, action by action.                        *)

\* No step before a request's first write to a row, a file or the stream
\* can disturb the invariant: it only moves the request's own slot to a
\* place of which nothing is claimed.
LEMMA QuietStep ==
  ASSUME TypeOK, SafeInv, UNCHANGED <<status, path, session, object, stream>>,
         NEW r \in Requests,
         \A q \in Requests : q # r => req'[q] = req[q],
         \/ req'[r].pc \in {"idle", "put", "count"}
         \/ req'[r].pc = "assemble" /\ session[req'[r].ep] # "none"
  PROVE  SafeInv'
<1>1. ProgressInv'
  BY DEF SafeInv, ProgressInv, HasFile, AllChunks, TotalChunks
<1>2. SessionInv'
  BY DEF SafeInv, SessionInv, At
<1>3. CompletedHasFile' /\ ProcessingHasFile' /\ PublishedIsReadable'
  BY DEF SafeInv, CompletedHasFile, ProcessingHasFile, PublishedIsReadable,
         HasFile, AllChunks, TotalChunks
<1>4. QED
  BY <1>1, <1>2, <1>3 DEF SafeInv

\* The episode row appears: nothing was claimed of an episode without one.
LEMMA CreateEpisodeSafe ==
  ASSUME TypeOK, SafeInv, NEW r \in Requests, NEW e \in Episodes, CreateEpisode(r, e)
  PROVE  SafeInv'
<1> USE DEF CreateEpisode, At, Start
<1>1. /\ req[r].pc = "idle" /\ status[e] = "none" /\ session[e] = "none"
      /\ req'[r] = [pc |-> "session", ep |-> e, n |-> 0]
      /\ \A q \in Requests : q # r => req'[q] = req[q]
      /\ \A f \in Episodes : f # e => status'[f] = status[f]
      /\ status'[e] = "uploading"
  BY DEF TypeOK, RequestsOK, SafeInv, SessionInv
<1>2. \A q \in Requests : req[q].pc # "idle" => req[q].ep \in Episodes
  BY DEF TypeOK, RequestsOK
<1>3. ProgressInv'
  BY <1>1, <1>2 DEF SafeInv, ProgressInv, HasFile, AllChunks, TotalChunks
<1>4. SessionInv'
  BY <1>1, <1>2 DEF SafeInv, SessionInv
<1>5. CompletedHasFile' /\ ProcessingHasFile' /\ PublishedIsReadable'
  BY <1>1 DEF SafeInv, CompletedHasFile, ProcessingHasFile, PublishedIsReadable,
              HasFile, AllChunks, TotalChunks
<1>6. QED
  BY <1>3, <1>4, <1>5 DEF SafeInv

\* The session row appears: by SessionInv it was not there, so no session
\* that something relies on is reopened.
LEMMA CreateUploadSessionSafe ==
  ASSUME TypeOK, SafeInv, NEW r \in Requests, CreateUploadSession(r)
  PROVE  SafeInv'
<1> DEFINE e == req[r].ep
<1> USE DEF CreateUploadSession, At, Done, Idle
<1>1. /\ e \in Episodes /\ status[e] # "none" /\ session[e] = "none"
      /\ req'[r].pc = "idle"
      /\ \A q \in Requests : q # r => req'[q] = req[q]
      /\ \A f \in Episodes : f # e => session'[f] = session[f]
      /\ session'[e] = "in_progress"
  BY DEF TypeOK, RequestsOK, SafeInv, SessionInv
<1>2. \A q \in Requests : req[q].pc # "idle" => req[q].ep \in Episodes
  BY DEF TypeOK, RequestsOK
<1>3. ProgressInv'
  BY <1>1, <1>2 DEF SafeInv, ProgressInv, HasFile, AllChunks, TotalChunks
<1>4. SessionInv'
  BY <1>1, <1>2 DEF SafeInv, SessionInv
<1>5. CompletedHasFile' /\ ProcessingHasFile'
  BY <1>1 DEF SafeInv, CompletedHasFile, ProcessingHasFile, HasFile, AllChunks, TotalChunks
<1>6. PublishedIsReadable'
  <2>1. \A i \in DOMAIN stream : stream[i] \in Episodes
    BY DEF TypeOK
  <2>2. QED
    BY <1>1, <2>1 DEF SafeInv, PublishedIsReadable, HasFile, AllChunks, TotalChunks
<1>7. QED
  BY <1>3, <1>4, <1>5, <1>6 DEF SafeInv

\* The composition is all or nothing, so every file that was whole still is.
LEMMA AssembleChunksSafe ==
  ASSUME TypeOK, SafeInv, NEW r \in Requests, AssembleChunks(r)
  PROVE  SafeInv'
<1> DEFINE e == req[r].ep
<1> USE DEF AssembleChunks, At, GoTo, rows
<1>1. /\ e \in Episodes
      /\ req'[r].pc = "close" /\ req'[r].ep = e
      /\ \A q \in Requests : q # r => req'[q] = req[q]
      /\ object' = [object EXCEPT ![e] = AllChunks(e)]
  BY DEF TypeOK, RequestsOK
<1>2. /\ HasFile(e)'
      /\ \A f \in Episodes : HasFile(f) => HasFile(f)'
  BY <1>1 DEF TypeOK, HasFile, AllChunks, TotalChunks
<1>3. \A q \in Requests : req[q].pc # "idle" => req[q].ep \in Episodes
  BY DEF TypeOK, RequestsOK
<1>4. ProgressInv'
  BY <1>1, <1>2, <1>3 DEF SafeInv, ProgressInv
<1>5. SessionInv'
  BY <1>1 DEF SafeInv, SessionInv
<1>6. CompletedHasFile' /\ ProcessingHasFile'
  BY <1>2 DEF SafeInv, CompletedHasFile, ProcessingHasFile
<1>7. PublishedIsReadable'
  <2>1. \A i \in DOMAIN stream : stream[i] \in Episodes
    BY DEF TypeOK
  <2>2. QED
    BY <1>2, <2>1 DEF SafeInv, PublishedIsReadable
<1>8. QED
  BY <1>4, <1>5, <1>6, <1>7 DEF SafeInv

\* The session is closed by a request that has composed the file.
LEMMA CompleteSessionSafe ==
  ASSUME TypeOK, SafeInv, NEW r \in Requests, CompleteSession(r)
  PROVE  SafeInv'
<1> DEFINE e == req[r].ep
<1> USE DEF CompleteSession, At, GoTo
<1>1. /\ e \in Episodes /\ HasFile(e)
      /\ req'[r].pc = "status" /\ req'[r].ep = e
      /\ \A q \in Requests : q # r => req'[q] = req[q]
      /\ \A f \in Episodes : f # e => session'[f] = session[f]
      /\ session'[e] = "completed"
  BY DEF TypeOK, RequestsOK, SafeInv, ProgressInv
<1>2. \A q \in Requests : req[q].pc # "idle" => req[q].ep \in Episodes
  BY DEF TypeOK, RequestsOK
<1>3. \A f : HasFile(f)' <=> HasFile(f)
  BY DEF HasFile, AllChunks, TotalChunks
<1>4. ProgressInv'
  BY <1>1, <1>2, <1>3 DEF SafeInv, ProgressInv
<1>5. SessionInv'
  <2>1. \A q \in Requests : req[q].pc = "session" => req[q].ep # e
    BY DEF SafeInv, SessionInv, ProgressInv
  <2>2. status[e] # "none"
    BY <1>1 DEF SafeInv, SessionInv, ProgressInv
  <2>3. QED
    BY <1>1, <1>2, <2>1, <2>2 DEF SafeInv, SessionInv
<1>6. CompletedHasFile' /\ ProcessingHasFile'
  BY <1>1, <1>3 DEF SafeInv, CompletedHasFile, ProcessingHasFile
<1>7. PublishedIsReadable'
  <2>1. \A i \in DOMAIN stream : stream[i] \in Episodes
    BY DEF TypeOK
  <2>2. QED
    BY <1>1, <1>3, <2>1 DEF SafeInv, PublishedIsReadable
<1>8. QED
  BY <1>4, <1>5, <1>6, <1>7 DEF SafeInv

\* The path is stored by a request that has composed the file and closed the
\* session.
LEMMA UpdateEpisodeStatusSafe ==
  ASSUME TypeOK, SafeInv, NEW r \in Requests, UpdateEpisodeStatus(r)
  PROVE  SafeInv'
<1> DEFINE e == req[r].ep
<1> USE DEF UpdateEpisodeStatus, At, GoTo
<1>1. /\ e \in Episodes /\ HasFile(e) /\ session[e] = "completed"
      /\ req'[r].pc = "publish" /\ req'[r].ep = e
      /\ \A q \in Requests : q # r => req'[q] = req[q]
      /\ \A f \in Episodes : f # e => status'[f] = status[f] /\ path'[f] = path[f]
      /\ status'[e] = "processing" /\ path'[e] = TRUE
  BY DEF TypeOK, RequestsOK, SafeInv, ProgressInv
<1>2. \A q \in Requests : req[q].pc # "idle" => req[q].ep \in Episodes
  BY DEF TypeOK, RequestsOK
<1>3. \A f : HasFile(f)' <=> HasFile(f)
  BY DEF HasFile, AllChunks, TotalChunks
<1>4. ProgressInv'
  BY <1>1, <1>2, <1>3 DEF SafeInv, ProgressInv
<1>5. SessionInv'
  BY <1>1, <1>2 DEF SafeInv, SessionInv
<1>6. CompletedHasFile' /\ ProcessingHasFile'
  BY <1>1, <1>3 DEF SafeInv, CompletedHasFile, ProcessingHasFile
<1>7. PublishedIsReadable'
  <2>1. \A i \in DOMAIN stream : stream[i] \in Episodes
    BY DEF TypeOK
  <2>2. QED
    BY <1>1, <1>3, <2>1 DEF SafeInv, PublishedIsReadable
<1>8. QED
  BY <1>4, <1>5, <1>6, <1>7 DEF SafeInv

\* The event is emitted by a request that has done all of that.
LEMMA PublishEpisodeIngestedSafe ==
  ASSUME TypeOK, SafeInv, NEW r \in Requests, PublishEpisodeIngested(r)
  PROVE  SafeInv'
<1> DEFINE e == req[r].ep
<1> USE DEF PublishEpisodeIngested, At, GoTo, rows
<1>1. /\ e \in Episodes /\ HasFile(e) /\ session[e] = "completed" /\ path[e]
      /\ status[e] \notin {"none", "uploading"}
      /\ req'[r].pc = "sweep" /\ req'[r].ep = e
      /\ \A q \in Requests : q # r => req'[q] = req[q]
  BY DEF TypeOK, RequestsOK, SafeInv, ProgressInv
<1>2. \A f : HasFile(f)' <=> HasFile(f)
  BY DEF HasFile, AllChunks, TotalChunks
<1>3. ProgressInv'
  BY <1>1, <1>2 DEF SafeInv, ProgressInv
<1>4. SessionInv'
  BY <1>1 DEF SafeInv, SessionInv
<1>5. CompletedHasFile' /\ ProcessingHasFile'
  BY <1>2 DEF SafeInv, CompletedHasFile, ProcessingHasFile
<1>6. PublishedIsReadable'
  <2>1. stream \in Seq(Episodes) /\ stream' = Append(stream, e)
    BY DEF TypeOK
  <2>2. /\ DOMAIN stream' = 1 .. Len(stream) + 1
        /\ DOMAIN stream = 1 .. Len(stream)
        /\ \A i \in DOMAIN stream : stream'[i] = stream[i]
        /\ stream'[Len(stream) + 1] = e
    BY <1>1, <2>1, AppendProperties, LenProperties
  <2>3. \A i \in DOMAIN stream' : i \in DOMAIN stream \/ stream'[i] = e
    BY <2>1, <2>2, LenProperties
  <2>4. QED
    BY <1>1, <1>2, <2>2, <2>3 DEF SafeInv, PublishedIsReadable
<1>7. QED
  BY <1>3, <1>4, <1>5, <1>6 DEF SafeInv

\* The goroutine that removes chunks touches no row and no file.
LEMMA SweepSafe ==
  ASSUME TypeOK, SafeInv, NEW r \in Requests, PublishLost(r) \/ DeleteChunk(r)
  PROVE  SafeInv'
<1> USE DEF PublishLost, DeleteChunk, At, GoTo, Done, Idle, rows
<1>1. /\ req'[r].pc = "idle" \/ (req'[r].pc = "sweep" /\ req'[r].ep = req[r].ep)
      /\ req[r].pc \in {"publish", "sweep"}
      /\ \A q \in Requests : q # r => req'[q] = req[q]
      /\ UNCHANGED <<status, path, session, object, stream>>
  BY DEF TypeOK, RequestsOK
<1>2. \A f : HasFile(f)' <=> HasFile(f)
  BY <1>1 DEF HasFile, AllChunks, TotalChunks
<1> HIDE DEF PublishLost, DeleteChunk, GoTo, Done, Idle, rows
<1>3. ProgressInv'
  BY <1>1, <1>2 DEF SafeInv, ProgressInv
<1>4. SessionInv'
  BY <1>1 DEF SafeInv, SessionInv
<1>5. CompletedHasFile' /\ ProcessingHasFile' /\ PublishedIsReadable'
  BY <1>1, <1>2 DEF SafeInv, CompletedHasFile, ProcessingHasFile, PublishedIsReadable
<1>6. QED
  BY <1>3, <1>4, <1>5 DEF SafeInv

\* Every step of every handler keeps the invariant.
LEMMA SafeStep == TypeOK /\ SafeInv /\ [Next]_vars => SafeInv'
<1> SUFFICES ASSUME TypeOK, SafeInv, [Next]_vars PROVE SafeInv'
  OBVIOUS
<1>1. ASSUME NEW r \in Requests, NEW e \in Episodes, NEW n \in AllChunks(e),
             BeginChunk(r, e, n)
      PROVE  SafeInv'
  BY <1>1, QuietStep DEF BeginChunk, Start, rows, TypeOK, RequestsOK
<1>2. ASSUME NEW r \in Requests, NEW e \in Episodes, BeginComplete(r, e)
      PROVE  SafeInv'
  BY <1>2, QuietStep DEF BeginComplete, Start, rows, TypeOK, RequestsOK
<1>3. ASSUME NEW r \in Requests, StoreChunk(r) PROVE SafeInv'
  BY <1>3, QuietStep DEF StoreChunk, GoTo, rows, TypeOK, RequestsOK
<1>4. ASSUME NEW r \in Requests, IncrementReceivedChunks(r) PROVE SafeInv'
  BY <1>4, QuietStep DEF IncrementReceivedChunks, Done, Idle, TypeOK, RequestsOK
<1>5. ASSUME NEW r \in Requests, Abandon(r) PROVE SafeInv'
  BY <1>5, QuietStep DEF Abandon, Done, Idle, rows, TypeOK, RequestsOK
<1>6. CASE UNCHANGED vars
  BY <1>6 DEF vars, SafeInv, ProgressInv, SessionInv, CompletedHasFile, ProcessingHasFile,
              PublishedIsReadable, HasFile, AllChunks, TotalChunks, At
<1>7. QED
  BY <1>1, <1>2, <1>3, <1>4, <1>5, <1>6, CreateEpisodeSafe, CreateUploadSessionSafe,
     AssembleChunksSafe, CompleteSessionSafe, UpdateEpisodeStatusSafe,
     PublishEpisodeIngestedSafe, SweepSafe DEF Next, Arrive, Serve

\* The strengthened invariant holds in every state.
THEOREM UploadSafe == Spec => [](TypeOK /\ SafeInv)
<1>1. Init => TypeOK /\ SafeInv
  <2>1. Init => SafeInv
    BY DEF Init, SafeInv, ProgressInv, SessionInv, CompletedHasFile, ProcessingHasFile,
           PublishedIsReadable, Idle, At
  <2>2. QED
    BY <2>1, UploadTypeInit
<1>2. TypeOK /\ SafeInv /\ [Next]_vars => (TypeOK /\ SafeInv)'
  BY TypeStep, SafeStep
<1>3. QED
  BY <1>1, <1>2, PTL DEF Spec

\* A closed session always has a file of all its chunks.
THEOREM UploadCompletedHasFile == Spec => []CompletedHasFile
  BY UploadSafe, PTL DEF SafeInv

\* An episode past 'uploading' always has its path and its whole file.
THEOREM UploadProcessingHasFile == Spec => []ProcessingHasFile
  BY UploadSafe, PTL DEF SafeInv

\* Whoever reads an event can download the file it names.
THEOREM UploadPublishedIsReadable == Spec => []PublishedIsReadable
  BY UploadSafe, PTL DEF SafeInv

\* No step removes a chunk of an episode whose file is not whole.
THEOREM UploadChunkRemovalIsSafe == Spec => ChunkRemovalIsSafe
<1>1. TypeOK /\ SafeInv /\ [Next]_vars =>
        [\A e \in Episodes : chunks[e] \ chunks'[e] # {} => path[e] /\ HasFile(e)]_vars
  <2> SUFFICES ASSUME TypeOK, SafeInv, Next, NEW e \in Episodes, chunks[e] \ chunks'[e] # {}
               PROVE  path[e] /\ HasFile(e)
    OBVIOUS
  <2>1. ASSUME NEW r \in Requests, StoreChunk(r) PROVE FALSE
    <3>1. chunks[e] \subseteq chunks'[e]
      BY <2>1 DEF StoreChunk, TypeOK
    <3>2. QED
      BY <3>1
  <2>2. chunks' # chunks
    OBVIOUS
  <2>3. PICK r \in Requests : DeleteChunk(r)
    BY <2>1, <2>2 DEF Next, Arrive, Serve, CreateEpisode, BeginComplete, BeginChunk,
       CreateUploadSession, IncrementReceivedChunks, AssembleChunks, CompleteSession,
       UpdateEpisodeStatus, PublishEpisodeIngested, PublishLost, Abandon
  <2>4. At(r, "sweep") /\ req[r].ep = e
    BY <2>3 DEF DeleteChunk, TypeOK, RequestsOK, At
  <2>5. QED
    BY <2>4 DEF SafeInv, ProgressInv, At
<1>2. QED
  BY <1>1, UploadSafe, PTL DEF Spec, ChunkRemovalIsSafe

-----------------------------------------------------------------------------
(* The gateway and the pipeline                                            *)

Submitted == {"processing", "ready"}

\* What a worker holds is an entry of the stream.
WorkersOK ==
    /\ cursor \in Nat
    /\ worker \in [Workers -> [pc : P!PCs, event : Nat, thumb : BOOLEAN]]
    /\ \A w \in Workers : worker[w].pc \in P!Handling => worker[w].event \in DOMAIN stream

\* Topic rows belong to entries, and only episodes that the gateway has
\* submitted are announced: for the refinement, a worker that marks or
\* finishes an episode never touches one that is still being uploaded.
EntriesOK ==
    /\ topics \subseteq DOMAIN stream
    /\ \A i \in DOMAIN stream : status[stream[i]] \in Submitted

ReadyInv ==
    \A e \in Episodes :
        status[e] = "ready" => /\ session[e] = "completed"
                               /\ \E i \in topics : stream[i] = e

IngestionInv == TypeOK /\ SafeInv /\ WorkersOK /\ EntriesOK /\ ReadyInv

-----------------------------------------------------------------------------
(* The invariant                                                           *)

\* Nothing has been uploaded and no worker holds an entry.
LEMMA IngestionInvInit == IngestionInit => IngestionInv
<1> SUFFICES ASSUME IngestionInit PROVE IngestionInv
  OBVIOUS
<1>1. TypeOK
  BY UploadTypeInit DEF IngestionInit
<1>2. SafeInv
  BY DEF IngestionInit, Init, SafeInv, ProgressInv, SessionInv, CompletedHasFile,
         ProcessingHasFile, PublishedIsReadable, Idle, At
<1>3. WorkersOK
  BY DEF IngestionInit, P!PipelineInit, P!Free, WorkersOK, P!PCs, P!Handling
<1>4. EntriesOK /\ ReadyInv
  BY DEF IngestionInit, Init, P!PipelineInit, EntriesOK, ReadyInv
<1> QED
  BY <1>1, <1>2, <1>3, <1>4 DEF IngestionInv

\* Every entry of the stream names an episode.
LEMMA EntryEpisode ==
  ASSUME TypeOK, NEW i \in DOMAIN stream
  PROVE  stream[i] \in Episodes /\ DOMAIN stream = 1 .. Len(stream) /\ Len(stream) \in Nat
  BY ElementOfSeq, LenProperties DEF TypeOK

\* A step of the gateway is a step of Upload that leaves the pipeline alone.
LEMMA GatewayIsUpload ==
  ASSUME GatewayStep
  PROVE  Next /\ UNCHANGED pipelineOnly
  BY DEF GatewayStep, Loses, Next

\* What a request does to an episode's status: it appears, or it is submitted
\* with its session closed and its file there.  The stream grows by an episode
\* that has been submitted.
LEMMA GatewayEffect ==
  ASSUME TypeOK, SafeInv, Next
  PROVE  /\ \/ UNCHANGED status
            \/ \E e \in Episodes : /\ status[e] = "none"
                                   /\ status' = [status EXCEPT ![e] = "uploading"]
                                   /\ UNCHANGED object
            \/ \E e \in Episodes : /\ HasFile(e) /\ session[e] = "completed"
                                   /\ status' = [status EXCEPT ![e] = "processing"]
                                   /\ UNCHANGED object
         /\ \/ UNCHANGED stream
            \/ \E e \in Episodes : /\ status[e] \in Submitted
                                   /\ stream' = Append(stream, e)
                                   /\ UNCHANGED <<status, object>>
         /\ \A e \in Episodes : session[e] = "completed" => session'[e] = "completed"
<1>1. PICK r \in Requests : Arrive(r) \/ Serve(r) \/ PublishLost(r) \/ Abandon(r)
  BY DEF Next
<1>2. ~At(r, "idle") => req[r].ep \in Episodes
  BY BusyEpisode DEF TypeOK
<1>3. CASE CreateUploadSession(r)
  <2>1. session[req[r].ep] = "none" /\ req[r].ep \in Episodes
    BY <1>2, <1>3 DEF CreateUploadSession, SafeInv, SessionInv, At
  <2> QED
    BY <1>3, <2>1 DEF CreateUploadSession, TypeOK
<1>4. CASE CompleteSession(r)
  BY <1>2, <1>4 DEF CompleteSession, TypeOK
<1>5. CASE UpdateEpisodeStatus(r)
  <2>1. HasFile(req[r].ep) /\ session[req[r].ep] = "completed" /\ req[r].ep \in Episodes
    BY <1>2, <1>5 DEF UpdateEpisodeStatus, SafeInv, ProgressInv, At
  <2> QED
    BY <1>5, <2>1 DEF UpdateEpisodeStatus
<1>6. CASE PublishEpisodeIngested(r)
  <2>1. status[req[r].ep] \in Submitted /\ req[r].ep \in Episodes
    BY <1>2, <1>6 DEF PublishEpisodeIngested, SafeInv, ProgressInv, At, TypeOK, Submitted
  <2> QED
    BY <1>6, <2>1 DEF PublishEpisodeIngested, rows
<1>7. CASE \E e \in Episodes : CreateEpisode(r, e)
  BY <1>7 DEF CreateEpisode
<1>8. CASE \/ \E e \in Episodes : BeginComplete(r, e)
           \/ \E e \in Episodes : \E n \in AllChunks(e) : BeginChunk(r, e, n)
           \/ StoreChunk(r) \/ IncrementReceivedChunks(r) \/ AssembleChunks(r)
           \/ DeleteChunk(r) \/ PublishLost(r) \/ Abandon(r)
  BY <1>8 DEF BeginComplete, BeginChunk, StoreChunk, IncrementReceivedChunks,
     AssembleChunks, DeleteChunk, PublishLost, Abandon, rows
<1> QED
  BY <1>1, <1>3, <1>4, <1>5, <1>6, <1>7, <1>8 DEF Arrive, Serve

\* The pipeline's part of the invariant survives what the gateway does.
LEMMA GatewaySafe ==
  ASSUME IngestionInv, GatewayStep
  PROVE  IngestionInv'
<1> USE DEF IngestionInv
<1>1. Next /\ UNCHANGED pipelineOnly
  BY GatewayIsUpload
<1>2. TypeOK' /\ SafeInv'
  BY <1>1, TypeStep, SafeStep
<1>3. /\ Len(stream') \in Nat /\ DOMAIN stream = 1 .. Len(stream)
      /\ DOMAIN stream \subseteq DOMAIN stream'
      /\ \A i \in DOMAIN stream : stream'[i] = stream[i] /\ stream[i] \in Episodes
      /\ \A i \in DOMAIN stream' :
           i \in DOMAIN stream \/ (status[stream'[i]] \in Submitted /\ UNCHANGED status)
  <2>1. CASE UNCHANGED stream
    BY <2>1, EntryEpisode, LenProperties DEF TypeOK
  <2>2. ASSUME NEW e \in Episodes, status[e] \in Submitted, stream' = Append(stream, e),
               UNCHANGED status
        PROVE  <1>3
    BY <2>2, EntryEpisode, AppendProperties, LenProperties DEF TypeOK
  <2> QED
    BY <1>1, <2>1, <2>2, GatewayEffect
<1>4. \A e \in Episodes : /\ status[e] \in Submitted => status'[e] \in Submitted
                          /\ status'[e] = "ready" => status[e] = "ready"
  BY <1>1, GatewayEffect DEF TypeOK, Submitted
<1>5. WorkersOK'
  BY <1>1, <1>3 DEF WorkersOK, pipelineOnly
<1>6. EntriesOK'
  BY <1>1, <1>3, <1>4 DEF EntriesOK, pipelineOnly
<1>7. ReadyInv'
  <2> SUFFICES ASSUME NEW e \in Episodes, status'[e] = "ready"
               PROVE  session'[e] = "completed" /\ \E i \in topics' : stream'[i] = e
    BY DEF ReadyInv
  <2>1. session[e] = "completed" /\ \E i \in topics : stream[i] = e
    BY <1>4 DEF ReadyInv
  <2> QED
    BY <1>1, <1>3, <2>1, GatewayEffect DEF EntriesOK, pipelineOnly
<1> QED
  BY <1>2, <1>5, <1>6, <1>7

-----------------------------------------------------------------------------

\* A worker only marks an announced episode processing, or makes it ready
\* together with topic rows of its own entry; nothing else that readers see
\* changes.
WorkerEffect(w) ==
    \/ UNCHANGED <<status, topics>>
    \/ /\ worker[w].pc \in P!Handling
       /\ status' = [status EXCEPT ![P!Episode(w)] = "processing"]
       /\ UNCHANGED topics
    \/ /\ worker[w].pc \in P!Handling
       /\ status' = [status EXCEPT ![P!Episode(w)] = "ready"]
       /\ topics' = topics \cup {worker[w].event}

\* The shape of every step of a worker.
LEMMA WorkerStep ==
  ASSUME WorkersOK, TypeOK, NEW w \in Workers, P!Work(w) \/ P!Disturb(w)
  PROVE  UNCHANGED stream /\ WorkerEffect(w) /\ WorkersOK'
<1> USE DEF P!GoTo, P!Release, P!Free, P!At, P!Event, P!Episode, P!groupVars, P!resultVars,
            P!PCs, P!Handling, WorkersOK, WorkerEffect
<1>1. CASE P!ReadNew(w)
  <2>1. cursor + 1 \in DOMAIN stream
    BY <1>1, LenProperties DEF P!ReadNew, TypeOK
  <2> QED
    BY <1>1, <2>1 DEF P!ReadNew
<1>2. CASE P!MarkProcessing(w)
  BY <1>2 DEF P!MarkProcessing
<1>3. CASE P!UpdateEpisodeReady(w)
  BY <1>3 DEF P!UpdateEpisodeReady
<1>4. CASE P!GenerateThumbnail(w)
  BY <1>4 DEF P!GenerateThumbnail
<1>5. CASE P!Download(w) \/ P!ExtractAndScore(w)
  BY <1>5 DEF P!Download, P!ExtractAndScore
<1>6. ASSUME NEW pc \in {"idle", "down"}, P!Release(w, pc),
             UNCHANGED <<status, stream, cursor, topics>>
      PROVE  UNCHANGED stream /\ WorkerEffect(w) /\ WorkersOK'
  BY <1>6
<1>8. CASE P!Ack(w)
  BY <1>6, <1>8 DEF P!Ack
<1>9. CASE P!HandlingFails(w)
  BY <1>6, <1>9 DEF P!HandlingFails
<1>10. CASE P!Die(w)
  BY <1>6, <1>10 DEF P!Die
<1>11. CASE P!ReadNoGroup(w)
  BY <1>6, <1>11 DEF P!ReadNoGroup
<1>7. CASE P!EnsureGroup(w) \/ P!EnsureGroupFails(w) \/ P!Restart(w)
  BY <1>7 DEF P!EnsureGroup, P!EnsureGroupFails, P!Restart
<1> QED
  BY <1>1, <1>2, <1>3, <1>4, <1>5, <1>7, <1>8, <1>9, <1>10, <1>11 DEF P!Work, P!Disturb

\* An announced episode has its closed session, its path and its file, so the
\* gateway's invariant does not mind its next status.
LEMMA SubmittedStatusSafe ==
  ASSUME IngestionInv, UNCHANGED <<stream, uploadOnly>>,
         NEW e \in Episodes, session[e] = "completed", path[e], HasFile(e),
         NEW s \in Submitted, status' = [status EXCEPT ![e] = s]
  PROVE  TypeOK' /\ SafeInv'
<1> USE DEF IngestionInv, uploadOnly, Submitted
<1>1. TypeOK'
  BY DEF TypeOK, RequestsOK
<1>2. \A f : HasFile(f)' <=> HasFile(f)
  BY DEF HasFile, AllChunks, TotalChunks
<1>3. \A f \in Episodes : f # e => status'[f] = status[f]
  BY DEF TypeOK
<1>4. status'[e] = s
  BY DEF TypeOK
<1>5. \A r \in Requests : req[r].pc # "idle" => req[r].ep \in Episodes
  BY DEF TypeOK, RequestsOK
<1>6. ProgressInv'
  BY <1>2, <1>3, <1>4, <1>5 DEF SafeInv, ProgressInv
<1>7. SessionInv'
  BY <1>3, <1>4, <1>5 DEF SafeInv, SessionInv, At
<1>8. CompletedHasFile' /\ ProcessingHasFile'
  BY <1>2, <1>3, <1>4 DEF SafeInv, CompletedHasFile, ProcessingHasFile
<1>9. PublishedIsReadable'
  BY <1>2 DEF SafeInv, PublishedIsReadable
<1> QED
  BY <1>1, <1>6, <1>7, <1>8, <1>9 DEF SafeInv

\* The entry a worker holds names an episode that can be read.
LEMMA HeldEpisode ==
  ASSUME IngestionInv, NEW w \in Workers, worker[w].pc \in P!Handling
  PROVE  /\ P!Episode(w) \in Episodes /\ worker[w].event \in DOMAIN stream
         /\ session[P!Episode(w)] = "completed" /\ path[P!Episode(w)]
         /\ HasFile(P!Episode(w)) /\ status[P!Episode(w)] \in Submitted
<1>1. worker[w].event \in DOMAIN stream
  BY DEF IngestionInv, WorkersOK
<1> QED
  BY <1>1, EntryEpisode DEF IngestionInv, SafeInv, PublishedIsReadable, EntriesOK, P!Episode

\* The invariant survives what the workers do.
LEMMA WorkersSafe ==
  ASSUME IngestionInv, PipelineStep
  PROVE  IngestionInv'
<1> USE DEF IngestionInv
<1>1. PICK w \in Workers : P!Work(w) \/ P!Disturb(w)
  BY DEF PipelineStep
<1>2. UNCHANGED <<stream, uploadOnly>> /\ WorkerEffect(w) /\ WorkersOK'
  BY <1>1, WorkerStep DEF PipelineStep
<1>3. CASE UNCHANGED <<status, topics>>
  <2>1. TypeOK'
    BY <1>2, <1>3 DEF TypeOK, RequestsOK, uploadOnly
  <2>2. SafeInv'
    <3>1. UNCHANGED vars
      BY <1>2, <1>3 DEF vars, uploadOnly
    <3> QED
      BY <3>1, SafeStep
  <2> QED
    BY <1>2, <1>3, <2>1, <2>2 DEF EntriesOK, ReadyInv, uploadOnly
<1>4. ASSUME NEW s \in Submitted, worker[w].pc \in P!Handling,
             status' = [status EXCEPT ![P!Episode(w)] = s],
             \/ s = "processing" /\ UNCHANGED topics
             \/ s = "ready" /\ topics' = topics \cup {worker[w].event}
      PROVE  IngestionInv'
  <2> DEFINE e == P!Episode(w)
  <2>1. /\ e \in Episodes /\ worker[w].event \in DOMAIN stream
        /\ session[e] = "completed" /\ path[e] /\ HasFile(e)
    BY <1>4, HeldEpisode
  <2>2. TypeOK' /\ SafeInv'
    BY <1>2, <1>4, <2>1, SubmittedStatusSafe
  <2>3. EntriesOK'
    BY <1>2, <1>4, <2>1, EntryEpisode DEF EntriesOK, TypeOK
  <2>4. ReadyInv'
    BY <1>2, <1>4, <2>1 DEF ReadyInv, TypeOK, uploadOnly, P!Episode
  <2> QED
    BY <1>2, <2>2, <2>3, <2>4
<1> QED
  BY <1>2, <1>3, <1>4 DEF WorkerEffect, Submitted

\* Every step of the system keeps the invariant.
LEMMA IngestionInvStep == IngestionInv /\ [IngestionNext]_allVars => IngestionInv'
<1> SUFFICES ASSUME IngestionInv, [IngestionNext]_allVars PROVE IngestionInv'
  OBVIOUS
<1>1. CASE UNCHANGED allVars
  <2>1. UNCHANGED vars
    BY <1>1 DEF allVars, vars, uploadOnly
  <2>2. TypeOK' /\ SafeInv'
    BY <2>1, TypeStep, SafeStep DEF IngestionInv
  <2> QED
    BY <1>1, <2>2 DEF IngestionInv, WorkersOK, EntriesOK, ReadyInv, allVars, uploadOnly,
       pipelineOnly
<1> QED
  BY <1>1, GatewaySafe, WorkersSafe DEF IngestionNext

\* The inductive invariant holds in every state.
THEOREM IngestionSafe == IngestionSpec => []IngestionInv
  BY IngestionInvInit, IngestionInvStep, PTL DEF IngestionSpec

-----------------------------------------------------------------------------
(* What a status promises                                                  *)

\* While an episode is processed its file and its path are there, and a ready
\* one also has its closed session and its topic rows, however completions,
\* workers and failures interleave (upload.go, Complete; processor.py).
THEOREM IngestionStatusIsFounded == IngestionSpec => []StatusIsFounded
<1>1. IngestionInv => StatusIsFounded
  <2> SUFFICES ASSUME IngestionInv PROVE DownloadFindsFile /\ ReadyIsComplete
    BY DEF StatusIsFounded
  <2>1. DownloadFindsFile
    BY HeldEpisode DEF DownloadFindsFile, P!At, P!Handling, P!PCs
  <2>2. ReadyIsComplete
    BY DEF ReadyIsComplete, IngestionInv, ReadyInv, SafeInv, ProcessingHasFile
  <2> QED
    BY <2>1, <2>2
<1> QED
  BY <1>1, IngestionSafe, PTL

-----------------------------------------------------------------------------
(* The refinement of EpisodeLifecycle                                      *)

FileOf == [e \in Episodes |-> HasFile(e)]
IndexedOf == [e \in Episodes |-> \E i \in topics : stream[i] = e]

\* Initially no episode is registered, stored or indexed.
LEMMA LifecycleInit == IngestionInit => Lifecycle!Init
<1> SUFFICES ASSUME IngestionInit PROVE Lifecycle!Init
  OBVIOUS
<1>1. \A e \in Episodes : ~HasFile(e)
  <2>1. \A e \in Episodes : TotalChunks(e) \in Nat \ {0}
    BY UploadAssumption DEF TotalChunks
  <2> QED
    BY <2>1 DEF IngestionInit, Init, HasFile, AllChunks
<1> QED
  <2>1. status = [e \in Episodes |-> "none"] /\ topics = {}
    BY DEF IngestionInit, Init, P!PipelineInit
  <2>2. [e \in Episodes |-> HasFile(e)] = [e \in Episodes |-> FALSE]
    BY <1>1 DEF HasFile
  <2>3. [e \in Episodes |-> \E i \in topics : stream[i] = e] = [e \in Episodes |-> FALSE]
    BY <2>1
  <2> QED
    BY <2>1, <2>2, <2>3 DEF Lifecycle!Init

\* Growing the stream changes nothing about what is indexed.
LEMMA IndexedStays ==
  ASSUME IngestionInv, UNCHANGED topics,
         \/ UNCHANGED stream
         \/ \E e \in Episodes : stream' = Append(stream, e)
  PROVE  UNCHANGED IndexedOf
<1>1. \A i \in topics : i \in 1 .. Len(stream)
  BY EntryEpisode DEF IngestionInv, EntriesOK
<1>2. \A i \in topics : stream'[i] = stream[i]
  BY <1>1, AppendProperties DEF IngestionInv, TypeOK
<1> QED
  BY <1>2 DEF IndexedOf

\* Files: only AssembleChunks makes one, whole, and for an episode whose
\* session is open; whoever assembles it again finds it there.
LEMMA GatewayFiles ==
  ASSUME TypeOK, SafeInv, Next
  PROVE  \/ UNCHANGED FileOf
         \/ \E e \in Episodes : /\ status[e] # "none"
                                /\ FileOf' = [FileOf EXCEPT ![e] = TRUE]
                                /\ UNCHANGED <<status, stream>>
<1>1. CASE UNCHANGED object
  BY <1>1 DEF FileOf, HasFile, AllChunks, TotalChunks
<1>2. ASSUME NEW r \in Requests, AssembleChunks(r)
      PROVE  \E e \in Episodes : /\ status[e] # "none"
                                 /\ FileOf' = [FileOf EXCEPT ![e] = TRUE]
                                 /\ UNCHANGED <<status, stream>>
  <2> DEFINE e == req[r].ep
  <2>1. e \in Episodes
    BY <1>2, BusyEpisode DEF AssembleChunks, At, TypeOK
  <2>2. status[e] # "none"
    BY <1>2, <2>1 DEF AssembleChunks, At, SafeInv, ProgressInv, SessionInv
  <2>3. object' = [object EXCEPT ![e] = AllChunks(e)]
    BY <1>2 DEF AssembleChunks
  <2>4. \A f \in Episodes : HasFile(f)' <=> f = e \/ HasFile(f)
    BY <2>1, <2>3 DEF TypeOK, HasFile, AllChunks, TotalChunks
  <2>5. FileOf' = [FileOf EXCEPT ![e] = TRUE]
    <3>1. [FileOf EXCEPT ![e] = TRUE] = [f \in Episodes |-> f = e \/ HasFile(f)]
      BY <2>1 DEF FileOf, HasFile
    <3> QED
      BY <2>4, <3>1 DEF FileOf, HasFile, AllChunks, TotalChunks
  <2> QED
    BY <1>2, <2>1, <2>2, <2>5 DEF AssembleChunks, rows
<1>3. UNCHANGED object \/ \E r \in Requests : AssembleChunks(r)
  BY DEF Next, Arrive, Serve, CreateEpisode, BeginComplete, BeginChunk, CreateUploadSession,
     StoreChunk, IncrementReceivedChunks, CompleteSession, UpdateEpisodeStatus,
     PublishEpisodeIngested, PublishLost, DeleteChunk, Abandon
<1> QED
  BY <1>1, <1>2, <1>3

\* A step of the gateway registers, stores or submits an episode, or changes
\* nothing of it.  Assembling an episode that has been submitted stores nothing
\* new, which needs that its file is there.
LEMMA GatewayImplements ==
  ASSUME IngestionInv, GatewayStep
  PROVE  [Lifecycle!Next]_(Lifecycle!vars)
<1> USE DEF IngestionInv
<1>1. Next /\ UNCHANGED topics
  BY GatewayIsUpload DEF pipelineOnly
<1>2. UNCHANGED IndexedOf
  BY <1>1, GatewayEffect, IndexedStays
<1>3. CASE UNCHANGED <<status, FileOf>>
  BY <1>2, <1>3 DEF Lifecycle!vars, FileOf, IndexedOf
<1>4. ASSUME NEW e \in Episodes, status[e] # "none",
             FileOf' = [FileOf EXCEPT ![e] = TRUE], UNCHANGED <<status, stream>>
      PROVE  [Lifecycle!Next]_(Lifecycle!vars)
  <2>1. CASE status[e] = "uploading"
    <3>1. Lifecycle!Store(e)
      BY <1>2, <1>4, <2>1 DEF Lifecycle!Store, FileOf, IndexedOf
    <3> QED
      BY <3>1 DEF Lifecycle!Next
  <2>2. CASE status[e] \in Submitted
    <3>1. HasFile(e)
      BY <2>2 DEF SafeInv, ProcessingHasFile, Submitted
    <3>2. FileOf[e] = TRUE
      BY <3>1 DEF FileOf, HasFile
    <3>3. FileOf' = FileOf
      BY <1>4, <3>2 DEF FileOf
    <3> QED
      BY <1>3, <1>4, <3>3
  <2> QED
    BY <1>4, <2>1, <2>2 DEF TypeOK, Submitted
<1>5. ASSUME NEW e \in Episodes, status[e] = "none",
             status' = [status EXCEPT ![e] = "uploading"], UNCHANGED object
      PROVE  [Lifecycle!Next]_(Lifecycle!vars)
  <2>1. UNCHANGED FileOf
    BY <1>5 DEF FileOf, HasFile, AllChunks, TotalChunks
  <2>2. Lifecycle!Register(e)
    BY <1>2, <1>5, <2>1 DEF Lifecycle!Register, FileOf, IndexedOf
  <2> QED
    BY <2>2 DEF Lifecycle!Next
<1>6. ASSUME NEW e \in Episodes, HasFile(e), session[e] = "completed",
             status' = [status EXCEPT ![e] = "processing"], UNCHANGED object
      PROVE  [Lifecycle!Next]_(Lifecycle!vars)
  <2>1. UNCHANGED FileOf
    BY <1>6 DEF FileOf, HasFile, AllChunks, TotalChunks
  <2>2. status[e] # "none" /\ [f \in Episodes |-> HasFile(f)][e]
    BY <1>6 DEF SafeInv, SessionInv
  <2>3. Lifecycle!Submit(e)
    BY <1>2, <1>6, <2>1, <2>2 DEF Lifecycle!Submit, FileOf, IndexedOf
  <2> QED
    BY <2>3 DEF Lifecycle!Next
<1> QED
  BY <1>1, <1>3, <1>4, <1>5, <1>6, GatewayEffect, GatewayFiles

\* A step of a worker submits an episode again, finishes it, or changes nothing
\* of it; finishing a ready episode again adds no more than topic rows.
LEMMA PipelineImplements ==
  ASSUME IngestionInv, PipelineStep
  PROVE  [Lifecycle!Next]_(Lifecycle!vars)
<1> USE DEF IngestionInv
<1>1. PICK w \in Workers : P!Work(w) \/ P!Disturb(w)
  BY DEF PipelineStep
<1>2. UNCHANGED <<stream, uploadOnly>> /\ WorkerEffect(w)
  BY <1>1, WorkerStep DEF PipelineStep
<1>3. UNCHANGED FileOf
  BY <1>2 DEF uploadOnly, FileOf, HasFile, AllChunks, TotalChunks
<1>4. CASE UNCHANGED <<status, topics>>
  <2>1. UNCHANGED IndexedOf
    BY <1>2, <1>4 DEF IndexedOf
  <2> QED
    BY <1>3, <1>4, <2>1 DEF Lifecycle!vars, FileOf, IndexedOf
<1> DEFINE e == P!Episode(w)
<1>5. CASE /\ worker[w].pc \in P!Handling
           /\ status' = [status EXCEPT ![e] = "processing"]
           /\ UNCHANGED topics
  <2>1. UNCHANGED IndexedOf
    BY <1>2, <1>5 DEF IndexedOf
  <2>2. /\ e \in Episodes /\ status[e] # "none"
        /\ [f \in Episodes |-> HasFile(f)][e]
    BY <1>5, HeldEpisode DEF Submitted
  <2>3. Lifecycle!Submit(e)
    BY <1>3, <1>5, <2>1, <2>2 DEF Lifecycle!Submit, FileOf, IndexedOf
  <2> QED
    BY <2>2, <2>3 DEF Lifecycle!Next
<1>6. CASE /\ worker[w].pc \in P!Handling
           /\ status' = [status EXCEPT ![e] = "ready"]
           /\ topics' = topics \cup {worker[w].event}
  <2>1. e \in Episodes /\ status[e] \in Submitted /\ stream[worker[w].event] = e
    BY <1>6, HeldEpisode DEF P!Episode
  <2>2. IndexedOf' = [IndexedOf EXCEPT ![e] = TRUE]
    BY <1>2, <1>6, <2>1 DEF IndexedOf
  <2>3. CASE status[e] = "processing"
    <3>1. PICK f \in Episodes : f = e
      BY <2>1
    <3>2. Lifecycle!Finish(f)
      BY <1>3, <1>6, <2>2, <2>3, <3>1 DEF Lifecycle!Finish, FileOf, IndexedOf
    <3> QED
      BY <3>2 DEF Lifecycle!Next
  <2>4. CASE status[e] = "ready"
    <3>1. UNCHANGED status
      BY <1>6, <2>1, <2>4 DEF TypeOK
    <3>2. IndexedOf[e] = TRUE
      BY <2>1, <2>4 DEF ReadyInv, IndexedOf
    <3>3. UNCHANGED IndexedOf
      BY <2>2, <3>2 DEF IndexedOf
    <3> QED
      BY <1>3, <3>1, <3>3 DEF Lifecycle!vars, FileOf, IndexedOf
  <2> QED
    BY <2>1, <2>3, <2>4 DEF Submitted
<1> QED
  BY <1>2, <1>4, <1>5, <1>6 DEF WorkerEffect

\* The gateway and the pipeline together are the lifecycle that readers of the
\* episodes table count on: status, file and topics move only as
\* EpisodeLifecycle says.
THEOREM IngestionImplementsLifecycle == IngestionSpec => LifecycleSpec
<1>1. IngestionInv /\ [IngestionNext]_allVars => [Lifecycle!Next]_(Lifecycle!vars)
  <2> SUFFICES ASSUME IngestionInv, [IngestionNext]_allVars
               PROVE  [Lifecycle!Next]_(Lifecycle!vars)
    OBVIOUS
  <2>1. CASE UNCHANGED allVars
    BY <2>1 DEF allVars, uploadOnly, pipelineOnly, Lifecycle!vars, HasFile, AllChunks,
       TotalChunks
  <2> QED
    BY <2>1, GatewayImplements, PipelineImplements DEF IngestionNext
<1> QED
  BY <1>1, LifecycleInit, IngestionSafe, PTL DEF IngestionSpec, LifecycleSpec, Lifecycle!Spec
=============================================================================
