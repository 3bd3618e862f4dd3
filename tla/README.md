# A TLA+ model of EmbedAI DataHub

EmbedAI DataHub takes recordings of robots in, processes them, has them
annotated, and exports them as training sets.  This directory holds TLA+
modules translated from its source (`src/` below is the repository's root),
TLC configurations that check them on small instances, and TLAPS proofs.

## 1. The system

| component | state it keeps | operations |
|---|---|---|
| Gateway, chunked upload (`gateway/internal/handler/upload.go`, `repo`, `storage`, `events`) | rows `episodes`, `upload_sessions`; objects `chunks/...` and the composed file; stream `episodes:ingested` | `Init`, `UploadChunk`, `Complete`, the background `DeleteChunks` |
| Gateway, stream ingestion (`gateway/internal/grpc`) | a `FrameBuffer` per leg; then a row, an object, an event | `OpenStream` (frames, timer, end of stream), `sealEpisode` |
| Pipeline extractor and scorer (`pipeline/pipeline/extractors`, `quality`) | none: functions of a file | `extract`, `score` |
| Pipeline worker (`pipeline/pipeline`) | the consumer group; `episodes` status; `topics`; thumbnails; local temporary files | `run`, `_handle`, `process` and what it calls |
| Dataset service, MCAP cache (`dataset-service/app/services/mcap_cache.py`) | an ordered dictionary of cached files, a lock per episode, the files on disk | `get_or_download`, `cleanup_expired`, `clear`; used by `get_frame` |
| Dataset service, frames (`routers/episodes.py`, `services/frame_extractor.py`) | the position, the nearest message and the image of a scan | `get_frame` with `extract_frame` |
| Dataset service, datasets, versions, deletion (`routers/datasets.py`, `routers/episodes.py`) | rows `datasets`, `dataset_versions`, `episodes` | `create_dataset`, `create_version`, `delete_episode` |
| Export jobs (`dataset-service/app/routers/exports.py`, `export-worker/worker`) | rows `export_jobs`; stream `export-jobs:pending` and its group; objects of the target bucket | `_create_job`; `run`, `_handle_message`, `_execute_job`, the two exporters |
| Annotation tasks (`task-service/app`) | rows `annotation_tasks`, `annotations`; tasks in Label Studio; stream `annotation-events` | create, assign, submit, approve, reject; the webhook |
| Authentication, proxying, configuration | none | a check or a forward per request |
| Web client (`web/src`) | what the browser shows | pages; the frame loader `useMcapFrames` |

How they meet: the gateway writes an episode and its file and emits an event; a
pipeline worker reads the event, downloads the file and writes status and topics
into the same row; the dataset service serves frames out of the file through its
cache, and freezes lists of episodes as versions; an export job names a version
and is run by an export worker; tasks are made for episodes and are moved by
people and by Label Studio's webhook.  PostgreSQL, MinIO and Redis Streams are all
that the processes share, and no call is a transaction over two of them.

What is hard here:

* A request is a sequence of calls to three stores; any of them may fail, and other
  requests run in between.  Nothing is locked: a handler reads a row, decides, and
  writes an UPDATE without a condition on what it read.
* Redis delivers an entry once.  Both kinds of workers run as two replicas under one
  consumer name, read only new entries, acknowledge at the end, and never look at
  the pending list.
* Deployment (`infra/docker-compose.prod.yml`) has two replicas of each worker and no
  restart policy: a process that ends stays down until somebody starts it.
* The cache is a set of coroutines around locks that are dropped from their registry
  while they are in use.
* The gRPC handler selects between a timer and a frame, and both may be ready.
* Three services write rows that name one another.  Some references are foreign keys, the
  episodes of a frozen version are JSON, and a DELETE is physical.
* The pipeline and the dataset service read the same files with tables of schema names of
  their own, and what one lists the other has to serve.
* The preview page asks again whenever the position moves, while earlier requests are
  still under way.

`PROJECT.json` lists every such hazard at its line with the properties that
would catch it, or the reason why none does.

### What makes each component correct

* Upload: a session is closed only over a whole file; no event before the file, the
  row and the session are as the event says; chunks are not removed before that.
* Stream ingestion: the buffer is the window; the stored file is the window in
  sequence order; an acknowledgement with an episode is true; a leg ends.
* Pipeline: no acknowledgement before the results are committed; one handler of an
  event; ready means indexed; each event is at least tried.
* Cache: never above its size; consistent locks, no lost wake-up; no lock left behind, and
  no file but one that an unlink failed to remove.
* Export: a manifest url stands for a whole export; honest progress; an entry is
  acknowledged only when its job was completed; every job settles.
* Frames: what is served is the nearest message, or one that is near enough, and its time is
  that of its image; what is listed as an image is served; the score is earned.
* Catalog: references resolve, a version's figures are those of its episodes, an accepted job is queued.
* Preview page: images shown together belong together; the spinner is true; a superseded
  call adds no load.
* Tasks: what is under review carries work; an assigned task has an assignee; an
  event stands for an approval; only stale requests leave the state machine.

## 2. Modules

| module | what it is |
|---|---|
| `Upload` | The upload API. `req` is the program counter and local data of each request being served; every call to a store is one action (`BeginChunk`, `StoreChunk`, `IncrementReceivedChunks`, `BeginComplete`, `AssembleChunks`, `CompleteSession`, `UpdateEpisodeStatus`, `PublishEpisodeIngested`, `DeleteChunk`). `Abandon` is an error return or the death of the process at any of them. |
| `Pipeline` | The workers. `stream`, `group`, `cursor` and `pending` are the Redis stream and its group, `worker` the program counters. `HandlingFails` is an exception anywhere in `process`; `Die` and `Restart` are the process. |
| `PipelineProofs` | Theorems about `Pipeline`. |
| `EpisodeLifecycle` | The abstract specification: an episode is registered, gets its file, may be submitted any number of times, and each submission that ends well leaves it ready and indexed. |
| `Ingestion` | `Upload`, which it extends, and an instance `P` of `Pipeline` over the status, the stream and the file they share; a step of the system is a step of one of them. `Lifecycle` is the refinement mapping to `EpisodeLifecycle`. |
| `IngestionProofs` | Theorems about `Upload` alone and about `Ingestion`, the refinement among them. |
| `StreamIngestion` | One leg: the robot, the network, the select loop, the buffer and the seal. `received` remembers all frames and is compared with what is kept; `buf` is a set, for the frames' numbers order them when they are serialized. A call of the seal that fails may have taken effect (`EffectWithoutAnswer`). |
| `StreamIngestionProofs` | Theorems about `StreamIngestion`. |
| `McapCache` | `get_or_download` cut at its awaits, with the locks, their registry (`lockOf`) and their queues explicit, the LRU order in `cache`, the contents of the disk in `file` and what an unlink failed to remove in `leftover`. |
| `McapCacheProofs` | Theorems about `McapCache`. |
| `AnnotationTasks` | Each endpoint as a read with its checks and a later commit, the webhook as two reads and a commit. `fresh` of a request says whether the task was written in between. The ORM writes only columns whose value differs from what was read; `assigned_to` shows it. |
| `AnnotationTasksProofs` | Theorems about `AnnotationTasks`. |
| `ExportJobs` | The job row, the stream and its group, the workers, the target bucket. A step `ExportSample` is one turn of the exporter's loop, and `Packed` what it does to the open shard; the bucket is two functions that grow, `shards` by prefix and number and `manifest` by prefix. A ref is the string the caller sent, `Canonical` the key under which the worker files its row. |
| `ExportJobsProofs` | Theorems about `ExportJobs`. |
| `McapFile` | What an MCAP file shows to its readers: channels, schemas, messages in order, with or without a summary.  The library is external. |
| `FrameExtractor` | `get_frame` behind the cache.  A step is one message of the scan in `extract_frame`; `best` is the message of `best_timestamp` and `min_diff`, `frame` the one of `best_frame`, for the code sets them at different places. |
| `QualityScorer` | `McapExtractor.extract` and `QualityScorer.score` as operators in fixed-point arithmetic. |
| `Preview` | `QualityScorer` and `FrameExtractor` over one file. |
| `Catalog` | The rows that name one another and all requests that add or remove them.  A read and the commit that relies on it are two steps; so are the two INSERTs of an upload, a task's flush and commit, a job's commit and its XADD. |
| `CatalogProofs` | Theorems about `Catalog`. |
| `FrameLoader` | `useMcapFrames.loadFrames`.  `calls` holds every call that was made with its queue, its requests under way and what it got. Queue and requests are items, places in the list of topics, for a topic may be listed twice; what it got is by topic, as in the code. A step is an answer and all that JavaScript does before the next one.  `Startable` is the run of requests that `Advance` starts while the limit allows. |
| `PreviewProofs` | Theorems about `FrameExtractor`, `QualityScorer`, `Preview` and `FrameLoader`. |
| `MC*` | Instances for TLC. |

Definitions called mutants or faulty variants in the modules are not part of any
specification: each is the plausible mistake that a property is there to catch,
and is put in place of the definition it varies to see that the property does.

### Choices of the translation

* One action per awaited call.  What runs between two awaits in one process is atomic
  in Python's event loop, and in Go concerns only the handler's own variables.
* Payloads are left out: a chunk is its number, a file the set of its chunks, a frame its
  sequence number, timestamp and last flag, a shard the list of its samples.
* A call that fails leaves its store unchanged, unless its answer may be lost after the
  work was done and somebody is told something different then.  Such calls are those of the seal
  (`StreamIngestion!EffectWithoutAnswer` and the event), where the robot gets an error over a recording
  that is stored, the XADD of an upload (`Upload!PublishLost` and `Loses`), the worker's Redis calls in `Pipeline`,
  and the export worker's `XACK` (`Raise`).  Elsewhere the state after such a call is reached too, by the
  call and then a failure or a cut-off before the next one (`Upload!Abandon`, `Pipeline!HandlingFails`, `ExportJobs!Raise`),
  or it is the commit itself, where it is a request's last (`Catalog`, `AnnotationTasks`).
* An `unlink` of the cache may fail, which the code only logs: the entry is given up and the file stays.
* `BorderPasses` (QualityScorer) has the pairs of rates exactly a tenth apart for which the float
  comparison of `scorer.py:72` holds; it is any set in the proofs, and what Python computes in the run.
* `TakesNoProject` (StreamIngestion), `TakesAnyEpisode` (AnnotationTasks) and `Loadable`
  (ExportJobs) stand for three places where the code does not fit its own schema or
  store: `sealEpisode` leaves `project_id` empty, the webhook writes a user's id
  into `annotations.episode_id`, and the exporter's loader reads a bucket name out of a
  path that has none.  With the values of the deployment these features fail at
  once, and whatever lies behind them could not be examined; so the passing runs use
  the accepting value, which is that of the unit tests' stores, and the runs that
  show the failure use the real one.
* `Catalog` and the other modules cut the same handlers differently: `Upload` has the calls behind a
  completion, `ExportJobs` what becomes of a job, `AnnotationTasks` the states of a task, and
  `Catalog` only which rows exist and whom they name.  `ExportJobs!DeleteEpisode` takes any row at any
  time, `MaxDeleted` of them, where `Catalog` shows that an uploaded episode cannot be deleted: what is checked
  there holds for every deletion.  `Catalog!deleting` is a set, so that two DELETEs of one episode are one; the second
  would find no row and succeed.
* `FrameLoader` assumes a mounted component and a list of topics that does not change.  The list may repeat a
  topic: a resubmitted episode has its topic rows twice (`db.py:73`) and the page passes on what it gets
  (`PreviewPage.tsx:33`).
* No code sets an annotation's status to `approved`, the only one that is exported.
  `ExportJobs` therefore has sidecars of a fixed size and no annotations.

## 3. Runs

Two workers of TLC each; times are for a small machine.

| run | states, time | instance | question |
|---|---|---|---|
| `Upload` | 274 k, 10 s | two episodes of two chunks (the last one partial) and of one; three requests; counter up to `MaxReceived` | What may a closed session, a processing episode, an event be relied on for? |
| `Pipeline` | 35 k, 7 s | two workers, two events, two faults | Is anything acknowledged unrecorded, handled twice, skipped? |
| `Ingestion` | 215 k, 31 s | one episode, two racing requests, two workers, one fault | Does the composition behave as `EpisodeLifecycle`, and does a closed upload become ready? |
| `Preview` | 318 k, 12 s | files of up to three messages on up to two channels, five channel lists; four positions, one before and one after the recording; signals on, beside and far from the border of the rate's tolerance | Is the nearest frame served with its own time, is every listed image served, is the score earned? |
| `Catalog` | 184 k, 5 s | three episodes in two projects; one dataset, version, task and job; five lists of refs, one with a repetition, one across projects | What survives deletions? |
| `FrameLoader` | 706 k, 22 s | two topics, one of them listed twice, two requests at a time, three calls at positions of which two share a bucket | Does what is shown belong together, is the spinner true, is the load bounded? |
| `McapCache` | 58 k, 14 s | two episodes, room for one, three requests, four locks, two failed downloads, any unlink failing; up to renaming of requests and locks | Do size, locks and disk stay consistent while everything is evicted? |
| `StreamIngestion` | 99 k, 5 s | three frames, times unset, at the border of the window and beyond; calls of the seal that fail with or without their effect | Is what is kept, stored, acknowledged and announced right, and does a leg end? |
| `AnnotationTasks` | 1.5 M, 74 s | one task, three requests, an annotator and a manager, two approvals; up to renaming of requests | What survives stale reads? |
| `ExportJobs` | 516 k, 130 s | two jobs, two workers, one death, one deletion; a version that needs two shards, and one with a respelt ref and an object that is not found, which may turn out empty | Is a completed export whole, is its progress honest, does each job settle? |

Why these bounds show the interesting cases: a lost update or a stale check takes two
requests on one row, and a third one to observe it or to overtake; a worker that dies
with an entry takes a second worker to show that it is not handed out again; the
cache of one entry evicts at every other download, with a third request waiting on
the evicted lock; three frames are enough for one to be evicted by a second and
kept by a third that is older.  The file of the second episode fills its chunk
exactly, that of the first one does not.  In `ExportJobs` the first shard is full
before the bare episode's sidecar, so that the border of the size check is met.
Three messages make a scan that meets a near one, a nearer one and one that does not
deserialize in every order.  Two signals of `Preview` lie on either side of the value from which
the last rounding lifts a score to full marks.  In `Catalog` a deletion meets an upload between its
two INSERTs, an open task, and a version between validation and commit; two episodes are
enough to tell a count from a set.  Three calls of `FrameLoader` are a current one and two that were
superseded, whose answers come in any order; the topic that is listed twice is asked for twice in each of them.

Bounds that are not in the code: `MaxReceived` (chunk PUTs counted for a session),
`MaxStream` (events), `MaxFaults` (deaths and Redis outages), `MaxFrames`,
`MaxEvents` (approvals of a task), `MaxCalls` (of the loader), `MaxFailures` of the cache (downloads that fail),
`MaxDeleted` (episodes deleted under the export), and the number of lock objects.  Symmetry is
used only in runs without liveness.  `CHECK_DEADLOCK FALSE` stands where the bounded system may stop:
all requests answered, all workers down, the shutdown done.

### Properties worth a second look

* `Upload!ChunkRemovalIsSafe`: the sweep outlives its request while another completion of
  the same session may be composing the chunks.  It is safe only because the sweep
  starts after the event, and by then the file cannot get worse.
* `Ingestion!LifecycleSpec`: two racing completions, a late `UPDATE ... 'processing'` and a
  worker that writes `ready` meet in one row.  The abstract specification allows the
  resubmission, which does happen; it does not allow processing without a file or
  ready without topics.
* `McapCache!LockSafety`: the registry forgets locks that are held and waited on.  Waiters keep
  their own lock, every waiter has a holder that works, and so no wake-up is lost,
  although two locks of one episode may exist.
* `McapCache!SizeBounded`: with two downloads of one episode installed one after the other, the
  eviction must not count the entry that is replaced twice.
* `StreamIngestion!AnnouncedIsStored`: an event, an acknowledgement with an episode and a clean end each stand
  for a stored recording; unless something failed or the robot was cut off, what
  was received ends up stored.
* `AnnotationTasks!FreshFollowsStates`: the state machine is kept except by requests that
  decided on a row somebody wrote since.
* `ExportJobs!ExportIsWhole`: relates the manifest, the shard keys, their order, the version
  and the deletion of episodes during the job.  It leaves out the refs whose row is gone, as the code means to, and
  those that are not spelt like the key of their row, as it does not; it asks for sidecars only where
  the format is not raw.  Both gaps are told below.
* `FrameExtractor!NearestOrFirstNear`: what the scan settles on.  That message may itself be one that does not
  deserialize, for the time is set before; what is then served is the subject of the next property.
* `FrameExtractor!ImageMatchesTimestamp`: the time is noted before the message is deserialized and the
  image after, and the early exit is passed by when deserializing raises; the property says in
  which single case the two then differ, and how.
* `Catalog!VersionMatchesRefs`: `create_version` compares a number of rows with a number of refs.  That this
  rejects repeated and foreign episodes, and that the size is then right, takes an
  argument about cardinalities, which `CatalogProofs` has.
* `Catalog!ReferencesResolve`: what a foreign key does not guard, the refs of a version, are guarded only
  by the session that every completed upload leaves.
* `FrameLoader!ShownIsOneMoment`: an old call may show its frames after a newer one, but never mixes
  them with the newer one's; and when the newest call shows its own, a topic is blank exactly when each of its requests failed.
* `McapCache!DiskMatchesCache`: the entry goes before the file and whether or not the file does, so what the disk
  holds beyond the cache is what some unlink could not remove.  `LeftoverIsThere` keeps this exact: no file that was removed or
  replaced since counts as left over.
* `QualityScorer!ScoreIsEarned`: says with rates of its own, `NearRate` and `FarRate`, when full marks are due, not with
  the function that gives them.  At exactly a tenth the outcome is the float comparison's and the property takes either.

Some checked properties are conjunctions of named parts: `LockSafety` (`TypeOK`, `LocksConsistent`, `NoLockLeak`),
`DiskMatchesCache` (`NoOrphanFile`, `ClearedIsEmpty`, `LeftoverIsThere`), `RecordingIsWindow` (`TypeOK`, `BufferIsWindow`, `FileIsSortedWindow`),
`AnnouncedIsStored` (`PublishedIsReadable`, `FinalAckIsTrue`, `CleanEndIsSealed`), `StateIsBacked` (`ReviewedHasWork`,
`AssignedHasAssignee`), `StatusIsFounded` (`DownloadFindsFile`, `ReadyIsComplete`) and `ExportIsWhole` (`TypeOK`, `CompletedIsWhole`,
`ShardsFit`).

### Disagreements between the repository and the code

| run | what it shows |
|---|---|
| `StreamIngestion_LastFrameSeals` | `is_last` seals the episode (`stream_server.go:58`): the row has no project and is refused. |
| `ExportJobs_StoredIsExportable` | the loader "downloads an object from MinIO" (`main.py:259`): it looks in another place than where the gateway stored it. |

Others were seen while modelling, and are told here, not by a run:

* `received_chunks` counts PUTs, not chunks: a retried chunk hides a missing one from "Validates
  all chunks received" (`upload.go:144`).  The compose then fails, so nothing wrong is stored.
* "Do not ACK → message will be retried" (`worker.py:42`): nothing reads the pending list.
* "Concurrent requests for same episode only trigger one download"
  (`test_mcap_cache.py:121`): not after a failure, an eviction or an expiry.
* Versions survive the deletion of an episode, which is logical (`docs/design-catalog/decisions.md:103`):
  `delete_episode` removes the row.  For an uploaded episode the session's foreign key refuses
  that, and the answer is 500; for one without a session it leaves the ref of a version dangling.
* "Extract the frame closest to target timestamp" (`frame_extractor.py:85`): it is the first one that lies
  within 100 ms.  "None if no frame found" (line 94): if the nearest message does not deserialize,
  the answer is an older image under the newer time, or none although there are others.  "Maximum allowed time
  difference from target" (line 90): it only ends the scan early, and a frame at any distance is served.
* "up to 5 evenly-spaced image frames" (`scorer.py:104`): with two to four frames the step is still
  a quarter of the way, so that the first is taken twice and the last never.  "Falls back to 1.0 when no
  image topics exist or cv2 is unavailable" (line 91): without cv2 it is 0.9.
* A rate within a tenth of the expected one is full marks (`scorer.py:72`): floats are compared, so that 27 Hz for
  30 passes and 33 Hz does not.
* "one directory per episode with MCAP + annotations JSON" (`raw.py:12`): the JSON is written beside the MCAP file and only the
  latter is listed and uploaded (`raw.py:41`, `main.py:119`).
* "Episode {} not found, skipping" (`main.py:173`): a ref in capitals or without hyphens passes `create_version`, which
  parses it (`datasets.py:192`) and stores it as it came (line 212), and is skipped although its row is there.
* "On client disconnect (io.EOF / context cancel) → seal any pending frames" (`stream_server.go:59`): a connection that breaks
  gives a status error, which is neither, and the frames are dropped.
* "Remove all cached files." (`mcap_cache.py:110`): those whose unlink fails stay, and nothing knows of them any more.
* An UPDATE of the seal that commits while its answer is lost (`stream_server.go:174`) gives the robot an error
  over a recording that is stored; a recording that a failing call left without a row or an event is not retried.
* A topic that is listed twice (`db.py:73`) is requested twice by the preview page (`PreviewPage.tsx:33`).
* "peak connections could reach MAX_CONCURRENT * 2" (`useMcapFrames.ts:22`): every overlapping call that still
  waits has two of its own.
* Blob URLs are revoked at unmount (`useMcapFrames.ts:54`): those that a second answer for one key
  overwrote in the cache are not.  The cache's key has no episode.
* An event that was not emitted is not picked up by polling (`upload.go:186`); a second completion
  reopens a ready episode and its topics are inserted twice (`db.py:73`); a failing
  download leaves its temporary file (`storage.py:20`); a stale webhook reopens an approved task; the export worker
  marks a completed job failed when `XACK` raises.

### Fairness

Only what the runtimes promise.  `Upload` requests and `Pipeline` and `ExportJobs` workers get weak fairness on the steps they can take (net/http runs its goroutines, asyncio its tasks);
`StreamIngestion` has it for the result of an outstanding `Recv`, for the calls of the seal and
for the timer.  Nothing is assumed of clients and robots, of failures (an exception may
happen at any time or never) or of restarts: the liveness properties say what
becomes of an event *unless* its handling was cut off or all workers are down.
The other modules have safety only: a request of theirs may wait for a store, a server or a
person for ever, and no timeout says otherwise.  There is no strong fairness.  Two workers
compete for an entry, but whichever is handed it goes on alone.

## 4. Proofs

`IngestionProofs` proves first of the gateway alone, for every set of episodes and requests, every file size and
chunk size allowed by `UploadAssumption`:

* `UploadTypeOK`: `Spec => []TypeOK`.
* `UploadSafe`: `Spec => []SafeInv` (with the types).
* `UploadCompletedHasFile`, `UploadProcessingHasFile`, `UploadPublishedIsReadable`: its parts.
* `UploadChunkRemovalIsSafe`: the action property, from the invariant.

`SafeInv` is inductive and has two conjuncts beyond the properties themselves.  `ProgressInv`
says what is true of the shared state while a request is at each of its later steps:
past `AssembleChunks` the file is whole, past `CompleteSession` the session is closed, past
`UpdateEpisodeStatus` the path is stored.  That is what the other requests must not
undo, and they cannot: an object is only ever composed of all chunks, a session never
reopens, a path is never cleared.  `SessionInv` says that only the one request that
inserted the episode's row inserts its session; without it a second INSERT could
reopen a closed session, and the invariant would not be inductive.  The proof has one step per action;
lemmas say what `GoTo` and `Done` leave of a request.

`PipelineProofs` proves, for every set of episodes and workers and any number of events and
faults:

* `PipelineSafe`: `Spec => []SafeInv`, its inductive invariant, and its parts
* `PipelineTypeOK`, `PipelineAckedIsRecorded`, `PipelineOneHandler`, `PipelineReadyIsRecorded`,
  `PipelineThumbnailExists`.

Here `SafeInv` is the conjunction of the properties that run `Pipeline` checks, and inductive
only as a whole.  That topic rows and temporary files belong to delivered events (`TypeOK`)
needs that a handled event is pending (`OneHandler`); that a newly read event is in
nobody's hands (`OneHandler`) needs that what is pending was delivered before the cursor
(`TypeOK`); and that `XACK` loses nothing needs that a worker at its acknowledgement has
recorded, which is why `AckedIsRecorded` speaks of that moment too, and `ThumbnailExists` of the
worker that still carries its thumbnail.  The lemmas follow the kinds of step: a worker lets go of its
event (`ReleaseSafe`), goes on with it (`GoOnSafe`) or is between two (`BetweenEventsSafe`), and the
four steps that write results or the stream have one each.

`PreviewProofs` proves, for every file, topic, position and tolerance, every project schema and number of samples, and every list of
topics, repeated ones too, limit of requests and number of calls:

* `FrameExtractorScan`: `Spec => []ScanInv`, the loop invariant of the scan, and its parts
  `FrameExtractorTypeOK`, `FrameExtractorNearest`, `FrameExtractorImage`;
* `PreviewSafe`: `PreviewSpec => []PreviewInv`, and from it `PreviewListedImageIsServed` and `PreviewScoreIsEarned`;
* `FrameLoaderSafe`: `LoaderSpec => []LoaderInv`, and from it `FrameLoaderLoadingIsTrue`, `FrameLoaderShownIsOneMoment` and
  the action property `FrameLoaderStaleCalls`.

`ScanInv` adds to the properties what holds of the messages before `next` while the scan is under way: `best` is
nearest among the candidates, and each candidate that deserializes lies outside the tolerance, or the
scan would have ended.  From this the end of the file gives "nearest", and the early exit "first near one".

`PreviewInv` keeps `ScanInv` while the pipeline works, and says that the listing is that of the file, which nothing changes.  A
listed image topic with messages has a last channel with the image schema, by which it was listed, and a first channel,
by which it is found; the scan has then met a message of it.
For `ScoreIsEarned` the sum over the rated topics has to be known.  It is a fold of the community modules, that is,
a recursive function over the subsets of these topics, and such a function exists because the number of points in
`Points` satisfies its equation; `SumIsFair` then follows by induction over the size of the subset.  The rest is rounding: a
topic out of tolerance loses at least a tenth, and of `n` topics the mean then loses `1000 / n`.  With
667 rated topics or more, or 6667 required ones, the rounding to four digits, and
then that of the weighted sum, can hide this; so `Discerning` stands in the property.  `BorderPasses` is any set of pairs here, so nothing depends on how
floats round at a tenth.  No instance of TLC came near that; it
was the proof that needed it.

`LoaderInv` says of each call where its items are, the places in the list of topics: queued, requested or failed, each in one of these
at most, with no more than `MaxConcurrent` requested (`CallOK`); of the cache, that it shows each topic near the position of its key
(`CacheOK`); of the latest call, that each item that is in none of these has
got its topic (`Kept`), and that it never waits for nothing (`LiveOK`), hence the spinner; and of the
frames shown, whose they are.  `StartableFits` is the argument that filling the free slots respects the limit: the
number of items whose topics are not cached grows by at most one along the queue.

`CatalogProofs` proves, for any episodes, datasets, versions, tasks, jobs and lists of refs:

* `CatalogSafe`: `Spec => []CatalogInv`, and its parts
* `CatalogTypeOK`, `CatalogReferencesResolve`, `CatalogVersionMatchesRefs`, `CatalogAcceptedIsQueued`.

`CatalogInv` adds that only an episode with a session has topics, and that a row that is there was created.  The
references are stable because each step that makes one finds the row, and the one step that
removes a row finds none.  The lemma `CountedRefs` is the argument for counting: found
episodes that are among a list's elements and as many as the list is long exhaust the
list, and the list repeats nothing.

`AnnotationTasksProofs` proves, for any tasks, users, annotations and finite number of requests at a time:

* `TasksSafe`: `Spec => []TasksInv`, and its parts
* `TasksTypeOK`, `TasksStateIsBacked`, `TasksEventsAreApprovals`;
* `TasksFollowStates`: `Spec => FreshFollowsStates`, the action property.

What a request read may be out of date when it commits, so the invariant needs what remains true all
the same (`RequestOK`): a result or an annotation does not vanish, an assignee is only ever replaced by
another one, and a request that is still `fresh` sees the status it read.  The webhook's second read leaves what
the first one found, so its flag may be newer than its status.  From that each commit keeps
`StateIsBacked`.  Events are bounded by counting: those emitted and the requests about to emit are
together no more than the approvals, for which `Requests` has to be finite.

`IngestionProofs` then proves, for the composition and all constants of its two parts:

* `IngestionSafe`: `IngestionSpec => []IngestionInv`, its inductive invariant;
* `IngestionStatusIsFounded`: `IngestionSpec => []StatusIsFounded`;
* `IngestionImplementsLifecycle`: `IngestionSpec => LifecycleSpec`, the refinement.

Neither component's own invariant is enough, for each disturbs the status the other one reads.  `IngestionInv` is the
gateway's `SafeInv`, which survives the workers because they write only to episodes that have been announced; that a
worker holds an entry of the stream (`WorkersOK`); the bridge, that topic rows belong to entries and that every episode
announced has been submitted (`EntriesOK`), so that its file, its path and its closed session are there by `SafeInv`; and
what it is for, that a ready episode has its session closed and its topic rows (`ReadyInv`).  The step theorem then says for
each action which step of `EpisodeLifecycle` it is: an insertion is `Register`, the composing of the whole file `Store`, an
UPDATE to `processing` by either program `Submit`, a worker's last commit `Finish`, and all other steps stutter, under the
mapping that takes the file to be there exactly when all its chunks are.

`McapCacheProofs` proves, for any episodes, requests, lock objects and `MaxSize`:

* `McapCacheSafe`: `Spec => []CacheInv`, and its parts
* `McapCacheSizeBounded`, `McapCacheLockSafety`, `McapCacheDiskMatchesCache`.

`CacheInv` turns the properties round so that they are inductive: `RequestOrder` says from each program counter which lock a
request has, holds or waits for; `LockOrder` says of each lock whose it is, and that its queue repeats nobody, without
which a release could leave a name behind; `RegistryOrder` says that a registered lock of one episode is no
other's; `Quiet`, that after the shutdown nobody is at work.  That an eviction leaves room (`SizeBounded`) is a fact about one
sequence: the tail of the cache without the episode.  That an unlink may fail adds `leftover`
to the state: what leaves the cache leaves the disk or enters it.  Lemmas say what appending, cutting and removing do to
a sequence without repetitions; `Without` is defined by its result, for the provers cannot expand `SelectSeq`.

`ExportJobsProofs` proves, for any jobs, workers, versions, sizes and limits, every spelling of
refs (`Canonical`), with calls that raise and workers that die at any step:

* `ExportJobsSafe`: `Spec => []ExportInv`, and its parts
* `ExportJobsExportIsWhole`, `ExportJobsAckedIsCompleted`;
* `ExportJobsProgressIsHonest`, from the same invariant.

`ExportInv` follows one execution.  `PackedUpTo` is the loop invariant of the exporters: the shards hold the found refs before
`at`, in the order of the version, and each fits.  `Running` says from the program counter how much of this is in the bucket
(`InBucket`, `ManifestThere`) and what the row says of it.  For the other executions not to be disturbed, an entry must have
one handler (`HandlerOrder`), a job one entry (`StreamOrder`), and nothing may have been written for a job whose entry
was not delivered (`NotYet`, `BucketOrder`): there the prefix of a job that is alone is empty when its execution starts.
`StayInv` and `LeaveInv` are the two kinds of a worker's steps; each action has a lemma that says which it is and what it changes.
The invariant was checked by TLC on the instance of the run before it was proved.

`StreamIngestionProofs` proves, for any frames, times and window, in any order and with any call that fails, whether it
took effect or not:

* `StreamSafe`: `Spec => []StreamInv`, and its parts
* `StreamRecordingIsWindow`, `StreamAnnouncedIsStored`.

`Add` looks only at the frame that has come, the property at all of them: `WindowGrows` is the step from one to
the other.  `SerializeSorts` says that what `Serialize` chooses exists, by induction over the number of
frames, which needs that they have different numbers (`NumbersInv`, of the received and of those on the wire).  `KeptInv`
carries the window through the seal, when the buffer is empty already, and `ProgressInv` says for each call of the
seal what is stored before it, so that an answer or an event finds it there.  A call that took effect without an answer
stores only more; after an error the property says that nothing was announced, not that nothing is stored.

All rest on the named assumptions about constants in the modules and on nothing else.  Induction is over the size of a
set: the least counterexample, by the well-foundedness of `<`, as lemmas `Smallest` and `SetInduction` have it.

Each invariant, each action property and the refinement that the passing runs check is stated by a
theorem.  Only model-checked are the liveness properties, `EveryEventTried`, `CompletedBecomesReady`, `LegEnds` and
`EveryJobSettles`, for TLAPS has no rule for fairness here, and the two disagreements, which are
about reachable states.

## 5. Not modelled

* Authentication, proxying, configuration: no state between requests.
* The HDF5 extractor: it walks a file with a library and keeps no state.
* `preloadFrames`, `get_image_topics` and all but one call of the Label Studio client: they have no caller.
* The web client apart from its frame loader: pages that render what they fetch.
* `patch_version`: versions are created immutable, so it answers 409 and changes nothing.
* Migrations beyond the foreign keys in `Catalog`, the seed, generated gRPC code, deployment files:
  declarations and sample rows.
* Reading endpoints: they write nothing.
* `metadata` of an episode, which the pipeline overwrites: no reader depends on it.

## 6. Plan

Done, in order of importance: `Upload` and `Pipeline` with their proofs, their composition and abstract
specification, `McapCache`, `StreamIngestion`, `AnnotationTasks`, `ExportJobs`; then `FrameExtractor`, `Catalog` and the proofs
of both and of `AnnotationTasks`; `QualityScorer`, `Preview`, `FrameLoader`; the proofs of `Ingestion` with its refinement,
of `McapCache`, of `ExportJobs`, of `StreamIngestion`, and of the three modules of the preview.

Next:

1. Action properties of `Pipeline`, `McapCache` and `ExportJobs`, from the invariants that are proved: that an
   acknowledgement only follows a commit, that a lock passes only to the request that waited longest.
2. An abstract specification of an export job, and `ExportJobs` shown to implement it.
