-------------------------------- MODULE Catalog --------------------------------
(***************************************************************************)
(* The rows of the shared database that name one another, and the requests *)
(* that add and remove them: episodes and their upload sessions (gateway), *)
(* topics (pipeline), datasets, versions, export jobs and the deletion of  *)
(* episodes (dataset-service/app: routers/datasets.py, routers/episodes.py,*)
(* routers/exports.py), annotation tasks (task-service).  A request that   *)
(* reads and then commits has a step for each.                             *)
(*                                                                         *)
(* upload_sessions, topics and annotation_tasks have a foreign key to      *)
(* episodes.  The refs of a version are JSON and have none.                *)
(***************************************************************************)
EXTENDS Integers, FiniteSetsExt, SequencesExt

CONSTANTS
    Projects, Episodes, Datasets, Versions, Tasks, Jobs,
    ProjectOf,     \* project_id of an episode
    SizeOf,        \* size_bytes of an episode, announced with the upload
    RefLists,      \* the episode_refs a request may hold, without their clips
    None

ASSUME CatalogAssumption ==
    /\ ProjectOf \in [Episodes -> Projects]
    /\ SizeOf \in [Episodes -> Nat]
    /\ RefLists \subseteq Seq(Episodes)
    /\ None \notin Projects \cup Episodes

VARIABLES
    upload,     \* of an episode: "none", "episode" inserted, "session" too, "failed"
    live,       \* rows of episodes
    topics,     \* episodes with rows in topics
    dataset,    \* project_id of a dataset, or None
    version,    \* a version, from its validation on
    task,       \* an annotation task, from its flush on
    job,        \* an export job, from its commit on
    stream,     \* job ids in the Redis stream
    deleting    \* episodes that a DELETE request has read

vars == <<upload, live, topics, dataset, version, task, job, stream, deleting>>

TotalSize(S) == MapThenSumSet(LAMBDA e : SizeOf[e], S)

VersionType ==
    [stage : {"none", "validated", "stored"}, project : Projects \cup {None},
     refs : Seq(Episodes), episode_count : Nat,
     total_size_bytes : {TotalSize(S) : S \in SUBSET Episodes}]
TaskType == [stage : {"none", "flushed", "stored"}, episode : Episodes \cup {None}]
JobStages == {"none", "committed", "accepted", "failed"}

NoVersion == [stage |-> "none", project |-> None, refs |-> <<>>,
              episode_count |-> 0, total_size_bytes |-> TotalSize({})]
NoTask == [stage |-> "none", episode |-> None]

TypeOK ==
    /\ upload \in [Episodes -> {"none", "episode", "session", "failed"}]
    /\ live \subseteq Episodes
    /\ topics \subseteq Episodes
    /\ dataset \in [Datasets -> Projects \cup {None}]
    /\ version \in [Versions -> VersionType]
    /\ task \in [Tasks -> TaskType]
    /\ job \in [Jobs -> JobStages]
    /\ stream \subseteq Jobs
    /\ deleting \subseteq Episodes

Init ==
    /\ upload = [e \in Episodes |-> "none"]
    /\ live = {}
    /\ topics = {}
    /\ dataset = [d \in Datasets |-> None]
    /\ version = [v \in Versions |-> NoVersion]
    /\ task = [k \in Tasks |-> NoTask]
    /\ job = [j \in Jobs |-> "none"]
    /\ stream = {}
    /\ deleting = {}

Stored(v) == version[v].stage = "stored"

-----------------------------------------------------------------------------
(* The gateway: an episode and its session are two INSERTs                 *)

CreateEpisode(e) ==
    /\ upload[e] = "none"
    /\ upload' = [upload EXCEPT ![e] = "episode"]
    /\ live' = live \cup {e}
    /\ UNCHANGED <<topics, dataset, version, task, job, stream, deleting>>

CreateUploadSession(e) ==
    /\ upload[e] = "episode"
    /\ e \in live
    /\ upload' = [upload EXCEPT ![e] = "session"]
    /\ UNCHANGED <<live, topics, dataset, version, task, job, stream, deleting>>

\* Also when a DELETE came in between, and the foreign key refuses the row.
CreateUploadSessionFails(e) ==
    /\ upload[e] = "episode"
    /\ upload' = [upload EXCEPT ![e] = "failed"]
    /\ UNCHANGED <<live, topics, dataset, version, task, job, stream, deleting>>

-----------------------------------------------------------------------------
(* The pipeline: the event of an episode is that of its session            *)

UpdateEpisodeReady(e) ==
    /\ upload[e] = "session"
    /\ e \in live
    /\ topics' = topics \cup {e}
    /\ UNCHANGED <<upload, live, dataset, version, task, job, stream, deleting>>

-----------------------------------------------------------------------------
(* The task service                                                        *)

\* The flush inserts the row, which holds a lock on its episode that a DELETE
\* of the episode waits for, and leaves it open over the Label Studio calls.
FlushTask(k, e) ==
    /\ task[k].stage = "none"
    /\ e \in live
    /\ task' = [task EXCEPT ![k] = [stage |-> "flushed", episode |-> e]]
    /\ UNCHANGED <<upload, live, topics, dataset, version, job, stream, deleting>>

CommitTask(k) ==
    /\ task[k].stage = "flushed"
    /\ task' = [task EXCEPT ![k].stage = "stored"]
    /\ UNCHANGED <<upload, live, topics, dataset, version, job, stream, deleting>>

RollbackTask(k) ==
    /\ task[k].stage = "flushed"
    /\ task' = [task EXCEPT ![k] = NoTask]
    /\ UNCHANGED <<upload, live, topics, dataset, version, job, stream, deleting>>

-----------------------------------------------------------------------------
(* delete_episode                                                          *)

ReadForDelete(e) ==
    /\ e \in live
    /\ deleting' = deleting \cup {e}
    /\ UNCHANGED <<upload, live, topics, dataset, version, task, job, stream>>

TaskOf(e) == \E k \in Tasks : task[k].stage # "none" /\ task[k].episode = e
SessionOf(e) == upload[e] = "session"

\* A mutant: the column of a later migration is no foreign key.
DeleteDespiteTask(e) ==
    /\ e \in deleting
    /\ ~SessionOf(e)
    /\ live' = live \ {e}
    /\ topics' = topics \ {e}
    /\ deleting' = deleting \ {e}
    /\ UNCHANGED <<upload, dataset, version, task, job, stream>>

\* The foreign keys hold a flushed task's DELETE up and refuse that of what is
\* named; topics go along.  A second DELETE finds no row and succeeds.
CommitDelete(e) ==
    /\ e \in deleting
    /\ ~SessionOf(e) /\ ~TaskOf(e)
    /\ live' = live \ {e}
    /\ topics' = topics \ {e}
    /\ deleting' = deleting \ {e}
    /\ UNCHANGED <<upload, dataset, version, task, job, stream>>

DeleteFails(e) ==
    /\ e \in deleting
    /\ deleting' = deleting \ {e}
    /\ UNCHANGED <<upload, live, topics, dataset, version, task, job, stream>>

-----------------------------------------------------------------------------
(* Datasets and their versions                                             *)

CreateDataset(d, p) ==
    /\ dataset[d] = None
    /\ dataset' = [dataset EXCEPT ![d] = p]
    /\ UNCHANGED <<upload, live, topics, version, task, job, stream, deleting>>

Found(refs, p) == {e \in live : e \in ToSet(refs) /\ ProjectOf[e] = p}

\* A mutant: the refs are compared as a set.
AllFoundAsSet(refs, p) == Found(refs, p) = ToSet(refs)

AllFound(refs, p) == Cardinality(Found(refs, p)) = Len(refs)

\* 404 without the dataset in the user's project, 422 without the episodes.
ValidateVersion(v, d, refs) ==
    LET p == dataset[d]
    IN  /\ p # None
        /\ version[v].stage = "none"
        /\ AllFound(refs, p)
        /\ version' = [version EXCEPT ![v] =
             [stage |-> "validated", project |-> p, refs |-> refs,
              episode_count |-> Len(refs),
              total_size_bytes |-> TotalSize(Found(refs, p))]]
        /\ UNCHANGED <<upload, live, topics, dataset, task, job, stream, deleting>>

CommitVersion(v) ==
    /\ version[v].stage = "validated"
    /\ version' = [version EXCEPT ![v].stage = "stored"]
    /\ UNCHANGED <<upload, live, topics, dataset, task, job, stream, deleting>>

\* A mutant: a state that is none.
CommitVersionMisspelt(v) ==
    /\ version[v].stage = "validated"
    /\ version' = [version EXCEPT ![v].stage = "valid"]
    /\ UNCHANGED <<upload, live, topics, dataset, task, job, stream, deleting>>

CommitVersionFails(v) ==
    /\ version[v].stage = "validated"
    /\ version' = [version EXCEPT ![v] = NoVersion]
    /\ UNCHANGED <<upload, live, topics, dataset, task, job, stream, deleting>>

-----------------------------------------------------------------------------
(* _create_job                                                             *)

\* A mutant: the entry is added before the commit, which may fail.
EnqueueFirst(j, v) ==
    /\ job[j] = "none"
    /\ Stored(v)
    /\ stream' = stream \cup {j}
    /\ job' \in {[job EXCEPT ![j] = "accepted"], job}
    /\ UNCHANGED <<upload, live, topics, dataset, version, task, deleting>>

CommitJob(j, v) ==
    /\ job[j] = "none"
    /\ Stored(v)
    /\ job' = [job EXCEPT ![j] = "committed"]
    /\ UNCHANGED <<upload, live, topics, dataset, version, task, stream, deleting>>

Enqueue(j) ==
    /\ job[j] = "committed"
    /\ stream' = stream \cup {j}
    /\ job' = [job EXCEPT ![j] = "accepted"]
    /\ UNCHANGED <<upload, live, topics, dataset, version, task, deleting>>

\* XADD raises, before or after Redis did it, or the service dies: 500.
EnqueueFails(j) ==
    /\ job[j] = "committed"
    /\ stream' \in {stream, stream \cup {j}}
    /\ job' = [job EXCEPT ![j] = "failed"]
    /\ UNCHANGED <<upload, live, topics, dataset, version, task, deleting>>

-----------------------------------------------------------------------------
Next ==
    \/ \E e \in Episodes :
         \/ CreateEpisode(e) \/ CreateUploadSession(e) \/ CreateUploadSessionFails(e)
         \/ UpdateEpisodeReady(e)
         \/ ReadForDelete(e) \/ CommitDelete(e) \/ DeleteFails(e)
    \/ \E k \in Tasks :
         \/ \E e \in Episodes : FlushTask(k, e)
         \/ CommitTask(k) \/ RollbackTask(k)
    \/ \E d \in Datasets, p \in Projects : CreateDataset(d, p)
    \/ \E v \in Versions :
         \/ \E d \in Datasets, refs \in RefLists : ValidateVersion(v, d, refs)
         \/ CommitVersion(v) \/ CommitVersionFails(v)
    \/ \E j \in Jobs :
         \/ \E v \in Versions : CommitJob(j, v)
         \/ Enqueue(j) \/ EnqueueFails(j)

Spec == Init /\ [][Next]_vars

-----------------------------------------------------------------------------
(* Safety                                                                  *)

\* However a DELETE interleaves with the two INSERTs of an upload, the open
\* transaction of a task and the pipeline, what names an episode finds it; a
\* version's ref is left without its episode only if no session ever was.
ReferencesResolve ==
    /\ \A e \in Episodes : SessionOf(e) \/ TaskOf(e) \/ e \in topics => e \in live
    /\ \A v \in Versions : Stored(v) =>
         \A i \in DOMAIN version[v].refs :
           LET e == version[v].refs[i] IN e \in live \/ ~SessionOf(e)

\* From its validation on, episode_count and total_size_bytes of a version are
\* those of its refs, which name different episodes of its project that were
\* there, also when some are gone by now.
VersionMatchesRefs ==
    \A v \in Versions : version[v].stage # "none" =>
        LET w == version[v]
        IN  /\ IsInjective(w.refs)
            /\ \A i \in DOMAIN w.refs : /\ ProjectOf[w.refs[i]] = w.project
                                        /\ upload[w.refs[i]] # "none"
            /\ w.episode_count = Cardinality(ToSet(w.refs))
            /\ w.total_size_bytes = TotalSize(ToSet(w.refs))

\* An entry of the export stream has its job, and a job without an entry is
\* one whose request was not answered 202 (yet): it stays pending for ever
\* only if the caller got an error.
AcceptedIsQueued ==
    /\ \A j \in stream : job[j] \in {"accepted", "failed"}
    /\ \A j \in Jobs : job[j] = "accepted" => j \in stream
=============================================================================
