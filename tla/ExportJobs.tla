------------------------------ MODULE ExportJobs ------------------------------
(***************************************************************************)
(* Export jobs: the dataset service writes a row and a stream entry, and   *)
(* the export workers turn a dataset version into objects of the target    *)
(* bucket (dataset-service/app/routers/exports.py; export-worker/worker:   *)
(* main.py, exporters/).                                                   *)
(*                                                                         *)
(* A version is the sequence of its episode_refs, which nothing changes.   *)
(* A ref is the string the caller sent: create_version parses it as a UUID *)
(* and stores it as it came, and str(uuid) has one spelling only.  No two  *)
(* refs of a version are one UUID, because create_version counts the rows  *)
(* it finds.  No call deletes a job and every entry has a job_id, so those *)
(* two branches of the worker are left out.  No code sets an annotation    *)
(* to "approved", the only status that is exported: a sidecar is "[]".     *)
(***************************************************************************)
EXTENDS Naturals, Sequences, FiniteSets, SequencesExt

CONSTANTS
    Jobs,
    Workers,
    Orders,         \* what callers ask for: [version, format]
    Canonical,      \* str(uuid.UUID(ref)) of each ref they spell
    Stored,         \* the episodes with a storage_path
    Loadable,       \* those of them whose object the loader finds
    Size,           \* bytes of each episode's file, 0 without one
    SidecarSize,    \* bytes of a sample's JSON
    ShardSize,      \* settings.shard_size_bytes
    TargetPrefixes, \* the values of target_prefix, given ones and defaults
    DefaultPrefix,  \* exports/{job.id}
    CallsMayFail,   \* whether a call of the worker may raise
    MaxFaults,      \* bound on the deaths of worker processes
    MaxDeleted      \* bound on the episodes that are deleted

Versions == {o.version : o \in Orders}
Refs == UNION {ToSet(v) : v \in Versions}

\* The keys that str(ep.id) gives the rows.
Episodes == {Canonical[ref] : ref \in Refs}

ASSUME ExportAssumption ==
    /\ Orders # {}
    /\ Orders \subseteq [version : Seq(Refs), format : {"webdataset", "raw"}]
    /\ DOMAIN Canonical = Refs
    /\ \A ref \in Refs \cap Episodes : Canonical[ref] = ref
    /\ \A v \in Versions : \A i, k \in DOMAIN v : Canonical[v[i]] = Canonical[v[k]] => i = k
    /\ Loadable \subseteq Stored
    /\ Size \in [Episodes -> Nat]
    /\ \A e \in Episodes \ Stored : Size[e] = 0
    /\ DefaultPrefix \in [Jobs -> TargetPrefixes]
    /\ IsInjective(DefaultPrefix)
    /\ SidecarSize \in Nat
    /\ ShardSize \in Nat
    /\ CallsMayFail \in BOOLEAN
    /\ MaxFaults \in Nat
    /\ MaxDeleted \in Nat

VARIABLES
    job,        \* the rows of export_jobs
    stream,     \* the entries of export-jobs:pending
    group, cursor, pending,      \* the consumer group
    worker,     \* what each worker process is doing
    shards,     \* target bucket: the shard objects, by prefix and number
    manifest,   \* target bucket: the samples of each shard that manifest.json
                \* counts, by prefix
    episodes,   \* the rows of episodes
    faults

groupVars == <<group, cursor, pending>>
target == <<shards, manifest>>
vars == <<job, stream, groupVars, worker, target, episodes, faults>>

Statuses == {"none", "pending", "running", "completed", "failed"}
Executing == {"start", "resolve", "pack", "upload", "progress", "manifest",
              "complete", "ack"}
Handling == Executing \cup {"fail"}

\* A tar file or the MCAP file of a raw sample: its episodes, whether it holds
\* their sidecars too, and the size_bytes of its ShardInfo.
Shard == [samples : Seq(Episodes), sidecars : BOOLEAN, size : Nat]

TypeOK ==
    /\ job \in [Jobs -> [status : Statuses, version : Versions,
                         format : {"webdataset", "raw"}, prefix : TargetPrefixes,
                         progress : 0 .. 100, url : BOOLEAN]]
    /\ stream \in Seq(Jobs)
    /\ group \in BOOLEAN
    /\ cursor \in 0 .. Len(stream)
    /\ pending \subseteq 1 .. cursor
    /\ worker \in [Workers -> [pc : Handling \cup {"down", "boot", "idle"},
                               entry : 0 .. cursor, found : SUBSET Episodes,
                               at : Nat, shards : Seq(Shard), next : Nat]]
    /\ DOMAIN shards \subseteq TargetPrefixes \X Nat
    /\ \A key \in DOMAIN shards : shards[key] \in Shard
    /\ DOMAIN manifest \subseteq TargetPrefixes
    /\ \A p \in DOMAIN manifest : manifest[p] \in Seq(Nat)
    /\ episodes \subseteq Episodes
    /\ faults \in 0 .. MaxFaults

Free(pc) == [pc |-> pc, entry |-> 0, found |-> {}, at |-> 1, shards |-> <<>>, next |-> 1]

Init ==
    /\ job = [j \in Jobs |->
                [status |-> "none", version |-> CHOOSE v \in Versions : TRUE,
                 format |-> "raw", prefix |-> DefaultPrefix[j],
                 progress |-> 0, url |-> FALSE]]
    /\ stream = <<>>
    /\ group = FALSE
    /\ cursor = 0
    /\ pending = {}
    /\ worker = [w \in Workers |-> Free("boot")]
    /\ shards = <<>>
    /\ manifest = <<>>
    /\ episodes = Episodes
    /\ faults = 0

At(w, pc) == worker[w].pc = pc
Job(w) == stream[worker[w].entry]
GoTo(w, pc) == worker' = [worker EXCEPT ![w].pc = pc]
Release(w, pc) == worker' = [worker EXCEPT ![w] = Free(pc)]
Put(objects, key, o) ==
    [k \in DOMAIN objects \cup {key} |-> IF k = key THEN o ELSE objects[k]]
Holds(w, i) == worker[w].pc \in Handling /\ worker[w].entry = i

-----------------------------------------------------------------------------
(* The exporters                                                           *)

SampleSize(e) == Size[e] + SidecarSize

\* One turn of the loop: the sample goes to the open shard, the last one, or
\* to a new one when its file (the sidecar is not looked at) would not fit.
\* The raw exporter lists the MCAP file of each episode as one shard, counts
\* the sidecar in its size and leaves that file beside it, where no one uploads it.
Packed(format, s, e) ==
    IF format = "raw" \/ s = <<>> \/ s[Len(s)].size + Size[e] > ShardSize
    THEN Append(s, [samples |-> <<e>>, sidecars |-> format # "raw", size |-> SampleSize(e)])
    ELSE [s EXCEPT ![Len(s)] = [samples |-> Append(@.samples, e), sidecars |-> @.sidecars,
                                size |-> @.size + SampleSize(e)]]

\* The manifest; the raw one counts the episodes only, each a shard of its own.
SampleCounts(s) == [i \in DOMAIN s |-> Len(s[i].samples)]

-----------------------------------------------------------------------------
(* Faulty variants of the steps below: each breaks one of the properties.  *)

EnsureGroupAtEnd(w) ==
    /\ At(w, "boot")
    /\ group' = TRUE
    /\ cursor' = IF group THEN cursor ELSE Len(stream)
    /\ GoTo(w, "idle")
    /\ UNCHANGED <<job, stream, pending, target, episodes, faults>>

\* Shard keys are taken from the local file names, which the loop starts at
\* one later.
UploadShardOffByOne(w) ==
    /\ At(w, "upload")
    /\ shards' = Put(shards, <<job[Job(w)].prefix, worker[w].next + 1>>,
                              worker[w].shards[worker[w].next])
    /\ GoTo(w, "progress")
    /\ UNCHANGED <<job, stream, groupVars, manifest, episodes, faults>>

\* The progress is written before the shard is there.
ProgressAhead(w) ==
    /\ At(w, "pack")
    /\ worker[w].at > Len(job[Job(w)].version)
    /\ GoTo(w, IF worker[w].shards = <<>> THEN "manifest" ELSE "upload")
    /\ job' = [job EXCEPT ![Job(w)].progress = 1]
    /\ UNCHANGED <<stream, groupVars, target, episodes, faults>>

\* The entry is acknowledged before the job is executed.
AckFirst(w) ==
    /\ At(w, "start")
    /\ job' = [job EXCEPT ![Job(w)].status = "running"]
    /\ pending' = pending \ {worker[w].entry}
    /\ GoTo(w, "resolve")
    /\ UNCHANGED <<stream, group, cursor, target, episodes, faults>>

-----------------------------------------------------------------------------
(* Dataset service                                                         *)

\* _create_job, up to its commit.
CreateJob(j) ==
    /\ job[j].status = "none"
    /\ \E o \in Orders, p \in (TargetPrefixes \ {DefaultPrefix[k] : k \in Jobs}) \cup {DefaultPrefix[j]} :
         job' = [job EXCEPT ![j] = [status |-> "pending", version |-> o.version,
                                    format |-> o.format, prefix |-> p,
                                    progress |-> 0, url |-> FALSE]]
    /\ UNCHANGED <<stream, groupVars, worker, target, episodes, faults>>

\* _create_job, XADD.  If it never comes the row stays pending.
Enqueue(j) ==
    /\ job[j].status = "pending"
    /\ j \notin ToSet(stream)
    /\ stream' = Append(stream, j)
    /\ UNCHANGED <<job, groupVars, worker, target, episodes, faults>>

\* delete_episode.  Catalog says which rows the foreign keys let go; here any
\* may, at any time.
DeleteEpisode(e) ==
    /\ e \in episodes
    /\ Cardinality(Episodes \ episodes) < MaxDeleted
    /\ episodes' = episodes \ {e}
    /\ UNCHANGED <<job, stream, groupVars, worker, target, faults>>

-----------------------------------------------------------------------------
(* ExportWorker.start, run, _handle_message                                *)

\* The group starts at id 0; if it exists nothing changes.
EnsureGroup(w) ==
    /\ At(w, "boot")
    /\ group' = TRUE
    /\ GoTo(w, "idle")
    /\ UNCHANGED <<job, stream, cursor, pending, target, episodes, faults>>

ReadNew(w) ==
    /\ At(w, "idle")
    /\ group
    /\ cursor < Len(stream)
    /\ cursor' = cursor + 1
    /\ pending' = pending \cup {cursor + 1}
    /\ worker' = [worker EXCEPT ![w].pc = "start", ![w].entry = cursor + 1]
    /\ UNCHANGED <<job, stream, group, target, episodes, faults>>

Ack(w) ==
    /\ At(w, "ack")
    /\ pending' = pending \ {worker[w].entry}
    /\ Release(w, "idle")
    /\ UNCHANGED <<job, stream, group, cursor, target, episodes, faults>>

\* A call of _execute_job raises, or XACK does, carried out or not.
Raise(w) ==
    /\ CallsMayFail
    /\ worker[w].pc \in Executing
    /\ \/ UNCHANGED pending
       \/ At(w, "ack") /\ pending' = pending \ {worker[w].entry}
    /\ GoTo(w, "fail")
    /\ UNCHANGED <<job, stream, group, cursor, target, episodes, faults>>

\* _fail_job in a session of its own; the entry is not acknowledged.
FailJob(w) ==
    /\ At(w, "fail")
    /\ job' = [job EXCEPT ![Job(w)].status = "failed"]
    /\ Release(w, "idle")
    /\ UNCHANGED <<stream, groupVars, target, episodes, faults>>

\* _fail_job raises: run logs it, sleeps and goes on.
FailJobRaises(w) ==
    /\ CallsMayFail
    /\ At(w, "fail")
    /\ Release(w, "idle")
    /\ UNCHANGED <<job, stream, groupVars, target, episodes, faults>>

-----------------------------------------------------------------------------
(* ExportWorker._execute_job                                               *)

StartJob(w) ==
    /\ At(w, "start")
    /\ job' = [job EXCEPT ![Job(w)].status = "running"]
    /\ GoTo(w, "resolve")
    /\ UNCHANGED <<stream, groupVars, target, episodes, faults>>

\* The rows of the version's UUIDs, keyed by str(ep.id), and the refs that are
\* such keys.  A ref whose row is gone or that is spelt otherwise is skipped.
ResolveEpisodeRefs(w) ==
    /\ At(w, "resolve")
    /\ LET refs == ToSet(job[Job(w)].version)
           keys == {Canonical[ref] : ref \in refs} \cap episodes
       IN  worker' = [worker EXCEPT ![w].pc = "pack", ![w].found = refs \cap keys]
    /\ UNCHANGED <<job, stream, groupVars, target, episodes, faults>>

\* The exporter's loop, over the refs that were found in the order of the
\* version.  It loads the file, of an episode without a path as no bytes.
ExportSample(w) ==
    LET v == job[Job(w)].version
        e == v[worker[w].at]
    IN  /\ At(w, "pack")
        /\ worker[w].at <= Len(v)
        /\ e \in worker[w].found => e \in Loadable \/ e \notin Stored
        /\ worker' = [worker EXCEPT ![w].at = @ + 1,
                ![w].shards = IF e \in worker[w].found
                              THEN Packed(job[Job(w)].format, @, e) ELSE @]
        /\ UNCHANGED <<job, stream, groupVars, target, episodes, faults>>

\* get_object raises NoSuchKey.
ExportMissing(w) ==
    /\ At(w, "pack")
    /\ worker[w].at <= Len(job[Job(w)].version)
    /\ job[Job(w)].version[worker[w].at] \in worker[w].found \cap (Stored \ Loadable)
    /\ GoTo(w, "fail")
    /\ UNCHANGED <<job, stream, groupVars, target, episodes, faults>>

ExportDone(w) ==
    /\ At(w, "pack")
    /\ worker[w].at > Len(job[Job(w)].version)
    /\ GoTo(w, IF worker[w].shards = <<>> THEN "manifest" ELSE "upload")
    /\ UNCHANGED <<job, stream, groupVars, target, episodes, faults>>

UploadShard(w) ==
    /\ At(w, "upload")
    /\ shards' = Put(shards, <<job[Job(w)].prefix, worker[w].next>>,
                              worker[w].shards[worker[w].next])
    /\ GoTo(w, "progress")
    /\ UNCHANGED <<job, stream, groupVars, manifest, episodes, faults>>

UpdateJobProgress(w) ==
    /\ At(w, "progress")
    /\ LET n == Len(worker[w].shards)
           k == worker[w].next
       IN  /\ job' = [job EXCEPT ![Job(w)].progress = (100 * k) \div n]
           /\ worker' = [worker EXCEPT ![w].next = k + 1,
                           ![w].pc = IF k = n THEN "manifest" ELSE "upload"]
    /\ UNCHANGED <<stream, groupVars, target, episodes, faults>>

UploadManifest(w) ==
    /\ At(w, "manifest")
    /\ manifest' = Put(manifest, job[Job(w)].prefix, SampleCounts(worker[w].shards))
    /\ GoTo(w, "complete")
    /\ UNCHANGED <<job, stream, groupVars, shards, episodes, faults>>

CompleteJob(w) ==
    /\ At(w, "complete")
    /\ job' = [job EXCEPT ![Job(w)].status = "completed", ![Job(w)].progress = 100,
                          ![Job(w)].url = TRUE]
    /\ GoTo(w, "ack")
    /\ UNCHANGED <<stream, groupVars, target, episodes, faults>>

-----------------------------------------------------------------------------
Die(w) ==
    /\ ~At(w, "down")
    /\ faults < MaxFaults
    /\ faults' = faults + 1
    /\ Release(w, "down")
    /\ UNCHANGED <<job, stream, groupVars, target, episodes>>

Restart(w) ==
    /\ At(w, "down")
    /\ GoTo(w, "boot")
    /\ UNCHANGED <<job, stream, groupVars, target, episodes, faults>>

Work(w) ==
    \/ EnsureGroup(w)
    \/ ReadNew(w)
    \/ StartJob(w)
    \/ ResolveEpisodeRefs(w)
    \/ ExportSample(w)
    \/ ExportMissing(w)
    \/ ExportDone(w)
    \/ UploadShard(w)
    \/ UpdateJobProgress(w)
    \/ UploadManifest(w)
    \/ CompleteJob(w)
    \/ Ack(w)
    \/ FailJob(w)

Disturb(w) ==
    \/ Raise(w)
    \/ FailJobRaises(w)
    \/ Die(w)
    \/ Restart(w)

Next ==
    \/ \E j \in Jobs : CreateJob(j) \/ Enqueue(j)
    \/ \E e \in Episodes : DeleteEpisode(e)
    \/ \E w \in Workers : Work(w) \/ Disturb(w)

Spec == Init /\ [][Next]_vars

\* The event loop of a worker process that can go on runs.
FairSpec == Spec /\ \A w \in Workers : WF_vars(Work(w))

-----------------------------------------------------------------------------
(* Safety                                                                  *)

\* No other job writes under the prefix of j.  A caller may give two jobs
\* one target_prefix, and then each overwrites the other's objects.
Alone(j) ==
    \A k \in Jobs \ {j} :
        job[k].status # "none" => job[k].prefix # job[j].prefix

Numbers(p) == {key[2] : key \in {k \in DOMAIN shards : k[1] = p}}
Uploaded(p) == [i \in Numbers(p) |-> shards[<<p, i>>]]

\* The episodes of a list of shards, and that they stand in the order of v.
Contents(s) == UNION {ToSet(s[a].samples) : a \in DOMAIN s}
InOrder(s, v) ==
    \A a, b \in DOMAIN s : \A i \in DOMAIN s[a].samples, k \in DOMAIN s[b].samples :
        a < b \/ (a = b /\ i < k) =>
            \E x, y \in DOMAIN v : x < y /\ v[x] = s[a].samples[i] /\ v[y] = s[b].samples[k]

\* Each shard holds the sidecars of its samples, unless it is a raw one.
HasSidecars(s, format) == \A a \in DOMAIN s : s[a].sidecars \/ format = "raw"

\* The manifest and all shards it counts, and no others, are in the target
\* bucket, and they hold the version's episodes in their order, with their
\* sidecars unless the format is raw, except episodes whose row is gone and
\* refs that are not spelt like the key of theirs.
Whole(j) ==
    LET v == job[j].version
        s == Uploaded(job[j].prefix)
    IN  /\ job[j].prefix \in DOMAIN manifest
        /\ manifest[job[j].prefix] = SampleCounts(s)
        /\ Contents(s) \subseteq ToSet(v)
        /\ ToSet(v) \cap episodes \subseteq Contents(s)
        /\ InOrder(s, v)
        /\ HasSidecars(s, job[j].format)

\* A manifest_url is given out only for a whole export.
CompletedIsWhole == \A j \in Jobs : job[j].url /\ Alone(j) => Whole(j)

\* progress_pct never runs ahead of the shards in the bucket.
ProgressIsHonest ==
    \A j \in Jobs, w \in Workers :
        Alone(j) /\ worker[w].pc \in Executing /\ Job(w) = j =>
            job[j].progress * Len(worker[w].shards) <=
                100 * Cardinality(Numbers(job[j].prefix))

\* An entry leaves the pending list only when its job has been completed.
AckedIsCompleted == \A i \in 1 .. cursor : i \in pending \/ job[stream[i]].url

\* A shard of more than one sample exceeds shard_size_bytes by less than
\* the one sidecar that the check does not count.
ShardsFit ==
    \A key \in DOMAIN shards :
        Len(shards[key].samples) > 1 => shards[key].size <= ShardSize + SidecarSize

\* What a job leaves in the bucket is a whole export in fitting shards.
ExportIsWhole == TypeOK /\ CompletedIsWhole /\ ShardsFit

-----------------------------------------------------------------------------
(* Liveness                                                                *)

\* Unless no worker is left, an entry leads to a completed or a failed job,
\* or to one whose execution was cut off.
EveryJobSettles ==
    \A j \in Jobs :
        j \in ToSet(stream) ~>
            \/ job[j].status \in {"completed", "failed"}
            \/ \E i \in pending : stream[i] = j /\ \A w \in Workers : ~Holds(w, i)
            \/ \A w \in Workers : At(w, "down")

-----------------------------------------------------------------------------
(* What the repository says and the code does not do.                      *)

\* main.py:259: "Return a sync function that downloads an object from
\* MinIO."  When no call of the store or the database fails, the export of
\* stored episodes does not fail either.
StoredIsExportable ==
    CallsMayFail \/ \A j \in Jobs : job[j].status # "failed"
=============================================================================
