------------------------------- MODULE Pipeline -------------------------------
(***************************************************************************)
(* The pipeline workers: they take the events of episodes:ingested through *)
(* one Redis consumer group and turn an uploaded episode into a ready one  *)
(* (services/pipeline/pipeline: worker.py, processor.py, db.py,            *)
(* storage.py).                                                            *)
(*                                                                         *)
(* Both replicas run as consumer "worker-1" and read only new entries      *)
(* (">"), so an entry is handed out once.  An event is named by its place  *)
(* in the stream.  Each awaited call of the processor is one action.       *)
(***************************************************************************)
EXTENDS Naturals, Sequences, FiniteSets

CONSTANTS
    Episodes,
    Workers,      \* the worker processes
    MaxStream,    \* bound on the events the gateway emits
    MaxFaults     \* bound on process deaths and Redis outages

ASSUME PipelineAssumption ==
    /\ MaxStream \in Nat
    /\ MaxFaults \in Nat

VARIABLES
    status,     \* episodes.status
    file,       \* whether the episode's file is whole in the object store
    stream,     \* the entries of episodes:ingested
    group,      \* whether the consumer group exists
    cursor,     \* last-delivered-id of the group
    pending,    \* pending entries list of the group
    worker,     \* what each worker process is doing, and for which event
    topics,     \* the events whose topic rows have been inserted
    temp,       \* local temporary files: <<kind, event>>
    thumbs,     \* episodes with a thumbnail object in the store
    thumbUrl,   \* whether metadata.thumbnail_url of the row is set
    faults      \* faults so far

groupVars == <<group, cursor, pending>>
resultVars == <<topics, temp, thumbs, thumbUrl>>
vars == <<status, file, stream, groupVars, worker, resultVars, faults>>

PCs == {"down", "boot", "idle", "mark", "download", "score", "thumbnail",
        "persist", "ack"}
Handling == PCs \ {"down", "boot", "idle"}

TypeOK ==
    /\ status \in [Episodes -> {"none", "uploading", "processing", "ready"}]
    /\ file \in [Episodes -> BOOLEAN]
    /\ stream \in Seq(Episodes)
    /\ group \in BOOLEAN
    /\ cursor \in 0 .. Len(stream)
    /\ pending \subseteq 1 .. cursor
    /\ worker \in [Workers -> [pc : PCs, event : 0 .. Len(stream), thumb : BOOLEAN]]
    /\ \A w \in Workers : worker[w].pc \in Handling => worker[w].event # 0
    /\ topics \subseteq 1 .. cursor
    /\ temp \subseteq {"episode", "thumbnail"} \X (1 .. cursor)
    /\ thumbs \subseteq Episodes
    /\ thumbUrl \in [Episodes -> BOOLEAN]
    /\ faults \in 0 .. MaxFaults

Free(pc) == [pc |-> pc, event |-> 0, thumb |-> FALSE]

PipelineInit ==
    /\ group = FALSE
    /\ cursor = 0
    /\ pending = {}
    /\ worker = [w \in Workers |-> Free("boot")]
    /\ topics = {}
    /\ temp = {}
    /\ thumbs = {}
    /\ thumbUrl = [e \in Episodes |-> FALSE]
    /\ faults = 0

Init ==
    /\ status = [e \in Episodes |-> "uploading"]
    /\ file = [e \in Episodes |-> FALSE]
    /\ stream = <<>>
    /\ PipelineInit

At(w, pc) == worker[w].pc = pc
Event(w) == worker[w].event
Episode(w) == stream[worker[w].event]
GoTo(w, pc) == worker' = [worker EXCEPT ![w].pc = pc]
Release(w, pc) == worker' = [worker EXCEPT ![w] = Free(pc)]
Holds(w, i) == worker[w].pc \in Handling /\ worker[w].event = i

-----------------------------------------------------------------------------
(* Faulty variants of the steps below: each breaks one of the properties.  *)

\* The group is created at "$" and misses what is already in the stream.
EnsureGroupAtEnd(w) ==
    /\ At(w, "boot")
    /\ group' = TRUE
    /\ cursor' = IF group THEN cursor ELSE Len(stream)
    /\ GoTo(w, "idle")
    /\ UNCHANGED <<status, file, stream, pending, resultVars, faults>>

\* Two readers may be given the same entry.
ReadWithoutGroup(w) ==
    /\ At(w, "idle")
    /\ group
    /\ cursor < Len(stream)
    /\ \/ cursor' = cursor + 1
       \/ UNCHANGED cursor
    /\ pending' = pending \cup {cursor + 1}
    /\ worker' = [worker EXCEPT ![w] =
                    [pc |-> "mark", event |-> cursor + 1, thumb |-> FALSE]]
    /\ UNCHANGED <<status, file, stream, group, resultVars, faults>>

\* The processor acknowledges although it has not written its results.
SkipPersist(w) ==
    /\ At(w, "persist")
    /\ temp' = temp \ {<<"episode", Event(w)>>}
    /\ GoTo(w, "ack")
    /\ UNCHANGED <<status, file, stream, groupVars, topics, thumbs, thumbUrl, faults>>

\* The first step marks the episode ready instead of processing.
MarkReady(w) ==
    /\ At(w, "mark")
    /\ status' = [status EXCEPT ![Episode(w)] = "ready"]
    /\ temp' = temp \cup {<<"episode", Event(w)>>}
    /\ GoTo(w, "download")
    /\ UNCHANGED <<file, stream, groupVars, topics, thumbs, thumbUrl, faults>>

\* The thumbnail's URL is returned although its upload failed.
ThumbnailUrlAlways(w) ==
    /\ At(w, "thumbnail")
    /\ temp' = temp \cup {<<"thumbnail", Event(w)>>}
    /\ worker' = [worker EXCEPT ![w].pc = "persist", ![w].thumb = TRUE]
    /\ UNCHANGED <<status, file, stream, groupVars, topics, thumbs, thumbUrl, faults>>

-----------------------------------------------------------------------------
(* The gateway (publisher.go) emits the event of an episode it has stored. *)
(* The same episode may be emitted again (module Upload).                  *)

Publish(e) ==
    /\ Len(stream) < MaxStream
    /\ status' = [status EXCEPT ![e] = "processing"]
    /\ file' = [file EXCEPT ![e] = TRUE]
    /\ stream' = Append(stream, e)
    /\ UNCHANGED <<groupVars, worker, resultVars, faults>>

-----------------------------------------------------------------------------
(* PipelineWorker.run                                                      *)

\* _ensure_group: the group starts at id 0; if it exists nothing changes.
EnsureGroup(w) ==
    /\ At(w, "boot")
    /\ group' = TRUE
    /\ GoTo(w, "idle")
    /\ UNCHANGED <<status, file, stream, cursor, pending, resultVars, faults>>

\* Any other error of XGROUP CREATE is taken for "the group exists".
EnsureGroupFails(w) ==
    /\ At(w, "boot")
    /\ faults < MaxFaults
    /\ faults' = faults + 1
    /\ GoTo(w, "idle")
    /\ UNCHANGED <<status, file, stream, groupVars, resultVars>>

\* XREADGROUP with ">" and count 1.
ReadNew(w) ==
    /\ At(w, "idle")
    /\ group
    /\ cursor < Len(stream)
    /\ cursor' = cursor + 1
    /\ pending' = pending \cup {cursor + 1}
    /\ worker' = [worker EXCEPT ![w] =
                    [pc |-> "mark", event |-> cursor + 1, thumb |-> FALSE]]
    /\ UNCHANGED <<status, file, stream, group, resultVars, faults>>

\* The read is outside any try: without the group it ends the process.
ReadNoGroup(w) ==
    /\ At(w, "idle")
    /\ ~group
    /\ Release(w, "down")
    /\ UNCHANGED <<status, file, stream, groupVars, resultVars, faults>>

\* _handle, after process returned.
Ack(w) ==
    /\ At(w, "ack")
    /\ pending' = pending \ {Event(w)}
    /\ Release(w, "idle")
    /\ UNCHANGED <<status, file, stream, group, cursor, resultVars, faults>>

-----------------------------------------------------------------------------
(* EpisodeProcessor.process                                                *)

\* The status, then the temporary file that the download will fill.
MarkProcessing(w) ==
    /\ At(w, "mark")
    /\ status' = [status EXCEPT ![Episode(w)] = "processing"]
    /\ temp' = temp \cup {<<"episode", Event(w)>>}
    /\ GoTo(w, "download")
    /\ UNCHANGED <<file, stream, groupVars, topics, thumbs, thumbUrl, faults>>

Download(w) ==
    /\ At(w, "download")
    /\ file[Episode(w)]
    /\ GoTo(w, "score")
    /\ UNCHANGED <<status, file, stream, groupVars, resultVars, faults>>

\* Metadata, the project's topic schema and the score only read.
ExtractAndScore(w) ==
    /\ At(w, "score")
    /\ GoTo(w, "thumbnail")
    /\ UNCHANGED <<status, file, stream, groupVars, resultVars, faults>>

\* Best effort: uploaded; none to be made; or the upload raises, which
\* leaves the local jpg behind.
GenerateThumbnail(w) ==
    /\ At(w, "thumbnail")
    /\ \/ /\ thumbs' = thumbs \cup {Episode(w)}
          /\ worker' = [worker EXCEPT ![w].pc = "persist", ![w].thumb = TRUE]
          /\ UNCHANGED temp
       \/ /\ GoTo(w, "persist")
          /\ UNCHANGED <<thumbs, temp>>
       \/ /\ GoTo(w, "persist")
          /\ temp' = temp \cup {<<"thumbnail", Event(w)>>}
          /\ UNCHANGED thumbs
    /\ UNCHANGED <<status, file, stream, groupVars, topics, thumbUrl, faults>>

\* One transaction: the row becomes ready and topic rows are inserted, with
\* new ids; then the finally clause unlinks the download.
UpdateEpisodeReady(w) ==
    /\ At(w, "persist")
    /\ status' = [status EXCEPT ![Episode(w)] = "ready"]
    /\ topics' = topics \cup {Event(w)}
    /\ thumbUrl' = [thumbUrl EXCEPT ![Episode(w)] = worker[w].thumb]
    /\ temp' = temp \ {<<"episode", Event(w)>>}
    /\ GoTo(w, "ack")
    /\ UNCHANGED <<file, stream, groupVars, thumbs, faults>>

\* A call raises.  _handle logs it and does not acknowledge.  Up to the
\* download the temporary file is nobody's to remove; after it the finally
\* clause does.
HandlingFails(w) ==
    /\ worker[w].pc \in {"mark", "download", "score", "persist", "ack"}
    /\ temp' = IF At(w, "download") THEN temp ELSE temp \ {<<"episode", Event(w)>>}
    /\ Release(w, "idle")
    /\ UNCHANGED <<status, file, stream, groupVars, topics, thumbs, thumbUrl, faults>>

-----------------------------------------------------------------------------
\* The process dies, or a Redis error escapes from run.
Die(w) ==
    /\ ~At(w, "down")
    /\ faults < MaxFaults
    /\ faults' = faults + 1
    /\ Release(w, "down")
    /\ UNCHANGED <<status, file, stream, groupVars, resultVars>>

\* Somebody starts it again.
Restart(w) ==
    /\ At(w, "down")
    /\ GoTo(w, "boot")
    /\ UNCHANGED <<status, file, stream, groupVars, resultVars, faults>>

Work(w) ==
    \/ EnsureGroup(w)
    \/ ReadNew(w)
    \/ ReadNoGroup(w)
    \/ MarkProcessing(w)
    \/ Download(w)
    \/ ExtractAndScore(w)
    \/ GenerateThumbnail(w)
    \/ UpdateEpisodeReady(w)
    \/ Ack(w)

Disturb(w) ==
    \/ EnsureGroupFails(w)
    \/ HandlingFails(w)
    \/ Die(w)
    \/ Restart(w)

WorkerNext == \E w \in Workers : Work(w) \/ Disturb(w)

Next == WorkerNext \/ \E e \in Episodes : Publish(e)

Spec == Init /\ [][Next]_vars

\* The event loop runs a worker that can go on; nothing promises a restart.
FairSpec == Spec /\ \A w \in Workers : WF_vars(Work(w))

-----------------------------------------------------------------------------
(* Safety                                                                  *)

\* What is acknowledged, or about to be, has been recorded: XACK comes after
\* the commit, so a crash between the two never loses the results.
AckedIsRecorded ==
    /\ \A i \in 1 .. cursor : i \in pending \/ i \in topics
    /\ \A w \in Workers : At(w, "ack") => Event(w) \in topics

\* An event is in the hands of one process at most, although all processes
\* use the same consumer name, and stays pending while it is.
OneHandler ==
    \A w \in Workers, i \in 1 .. Len(stream) :
        Holds(w, i) => /\ i \in pending
                       /\ \A v \in Workers : Holds(v, i) => v = w

\* A ready episode has the topic rows of at least one of its events.
ReadyIsRecorded ==
    \A e \in Episodes :
        status[e] = "ready" => \E i \in topics : stream[i] = e

\* A thumbnail_url in a row, or about to be written there, names an object
\* that exists, best effort or not.
ThumbnailExists ==
    /\ \A e \in Episodes : thumbUrl[e] => e \in thumbs
    /\ \A w \in Workers :
         worker[w].thumb => /\ worker[w].pc \in {"persist", "ack"}
                            /\ Episode(w) \in thumbs

-----------------------------------------------------------------------------
(* Liveness                                                                *)

Orphaned(i) == i \in pending /\ \A w \in Workers : ~Holds(w, i)

\* Unless no process is left, an event that is in the stream is recorded or
\* at least tried: nothing is skipped, also when the group is created late
\* or a reader dies.
EveryEventTried ==
    \A i \in 1 .. MaxStream :
        i <= Len(stream) ~> \/ i \in topics \/ Orphaned(i)
                            \/ \A w \in Workers : At(w, "down")
=============================================================================
