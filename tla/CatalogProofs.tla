----------------------------- MODULE CatalogProofs -----------------------------
(***************************************************************************)
(* Theorems about the rows of the catalog, for any number of projects,     *)
(* episodes, datasets, versions, tasks and export jobs.                    *)
(***************************************************************************)
EXTENDS Catalog, FiniteSetTheorems, TLAPS

USE CatalogAssumption DEF CatalogAssumption

\* The invariant that is inductive: only episodes with a session have topics,
\* and only what was inserted is there.
CatalogInv ==
    /\ TypeOK
    /\ ReferencesResolve
    /\ VersionMatchesRefs
    /\ AcceptedIsQueued
    /\ \A e \in Episodes : /\ e \in topics => SessionOf(e)
                           /\ e \in live => upload[e] # "none"

-----------------------------------------------------------------------------
\* What the comparison of two lengths in create_version establishes: if a
\* project has as many of the episodes as there are refs, then it has all of
\* them and no two refs are equal.
LEMMA CountedRefs ==
    ASSUME NEW refs \in Seq(Episodes), NEW p, AllFound(refs, p)
    PROVE  /\ Found(refs, p) = ToSet(refs)
           /\ IsInjective(refs)
           /\ Cardinality(ToSet(refs)) = Len(refs)
<1> DEFINE S == 1 .. Len(refs)
           T == ToSet(refs)
<1>1. Len(refs) \in Nat /\ DOMAIN refs = S
  OBVIOUS
<1>2. IsFiniteSet(S) /\ Cardinality(S) = Len(refs)
  BY <1>1, FS_Interval
<1>3. refs \in Surjection(S, T)
  BY <1>1 DEF Surjection, ToSet
<1>4. IsFiniteSet(T) /\ Cardinality(T) <= Len(refs)
  BY <1>2, <1>3, FS_Surjection
<1>5. Found(refs, p) \in SUBSET T
  BY DEF Found
<1>6. Cardinality(Found(refs, p)) = Len(refs)
  BY DEF AllFound
<1>7. Cardinality(T) \in Nat /\ Cardinality(Found(refs, p)) <= Cardinality(T)
  BY <1>4, <1>5, FS_Subset, FS_CardinalityType
<1>8. Cardinality(T) = Len(refs)
  BY <1>1, <1>4, <1>6, <1>7
<1>9. Found(refs, p) = T
  BY <1>4, <1>5, <1>6, <1>8, FS_Subset
<1>10. refs \in Injection(S, T)
  BY <1>2, <1>3, <1>8, FS_SurjSameCardinalityImpliesInj
<1>. QED  BY <1>8, <1>9, <1>10 DEF Injection

\* So a validated version is one that the properties describe.
LEMMA ValidatedVersion ==
    ASSUME CatalogInv, NEW v \in Versions, NEW d \in Datasets, NEW refs \in RefLists,
           ValidateVersion(v, d, refs)
    PROVE  /\ version'[v] \in VersionType
           /\ LET w == version'[v]
              IN  /\ w.stage = "validated"
                  /\ IsInjective(w.refs)
                  /\ \A i \in DOMAIN w.refs : /\ ProjectOf[w.refs[i]] = w.project
                                              /\ upload[w.refs[i]] # "none"
                  /\ w.episode_count = Cardinality(ToSet(w.refs))
                  /\ w.total_size_bytes = TotalSize(ToSet(w.refs))
<1> DEFINE p == dataset[d]
<1>1. refs \in Seq(Episodes) /\ p \in Projects
  BY DEF ValidateVersion, CatalogInv, TypeOK
<1>2. AllFound(refs, p)
  BY DEF ValidateVersion
<1>3. /\ Found(refs, p) = ToSet(refs)
      /\ IsInjective(refs)
      /\ Cardinality(ToSet(refs)) = Len(refs)
  BY <1>1, <1>2, CountedRefs
<1>4. version'[v] = [stage |-> "validated", project |-> p, refs |-> refs,
                     episode_count |-> Len(refs),
                     total_size_bytes |-> TotalSize(ToSet(refs))]
  BY <1>3 DEF ValidateVersion, CatalogInv, TypeOK
<1>5. \A i \in DOMAIN refs : refs[i] \in live /\ ProjectOf[refs[i]] = p
  BY <1>3 DEF Found, ToSet
<1>6. \A i \in DOMAIN refs : refs[i] \in Episodes /\ upload[refs[i]] # "none"
  BY <1>1, <1>5 DEF CatalogInv
<1>7. ToSet(refs) \in SUBSET Episodes /\ Len(refs) \in Nat
  BY <1>1, <1>6 DEF ToSet
<1>8. version'[v] \in VersionType
  BY <1>1, <1>4, <1>7 DEF VersionType
<1>. QED  BY <1>3, <1>4, <1>5, <1>6, <1>8

-----------------------------------------------------------------------------
\* A step of anything but versions leaves what is said of them true, for an
\* upload is never taken back.
LEMMA VersionsKept ==
    ASSUME CatalogInv, UNCHANGED version,
           \A e \in Episodes : upload[e] # "none" => upload'[e] # "none"
    PROVE  VersionMatchesRefs'
<1>1. \A v \in Versions : version[v].refs \in Seq(Episodes)
  BY DEF CatalogInv, TypeOK, VersionType
<1>2. \A v \in Versions : \A i \in DOMAIN version[v].refs : version[v].refs[i] \in Episodes
  BY <1>1
<1>. QED  BY <1>2 DEF CatalogInv, VersionMatchesRefs

\* The rest follows from what is said of single episodes.
LEMMA RefsResolve ==
    ASSUME TypeOK',
           \A e \in Episodes : (SessionOf(e) \/ TaskOf(e) \/ e \in topics => e \in live)'
    PROVE  ReferencesResolve'
<1>1. \A v \in Versions : version'[v].refs \in Seq(Episodes)
  BY DEF TypeOK, VersionType
<1>2. \A v \in Versions : \A i \in DOMAIN version'[v].refs : version'[v].refs[i] \in Episodes
  BY <1>1
<1>. QED  BY <1>2 DEF ReferencesResolve

\* The steps of an upload.
LEMMA UploadStep ==
    ASSUME CatalogInv, NEW e \in Episodes,
           CreateEpisode(e) \/ CreateUploadSession(e) \/ CreateUploadSessionFails(e)
    PROVE  CatalogInv'
<1>1. TypeOK'
  BY DEF CatalogInv, TypeOK, CreateEpisode, CreateUploadSession, CreateUploadSessionFails
<1>2. \A x \in Episodes : upload[x] # "none" => upload'[x] # "none"
  BY DEF CatalogInv, TypeOK, CreateEpisode, CreateUploadSession, CreateUploadSessionFails
<1>3. \A x \in Episodes : /\ (SessionOf(x) \/ TaskOf(x) \/ x \in topics => x \in live)'
                          /\ (x \in topics => SessionOf(x))'
                          /\ (x \in live => upload[x] # "none")'
  <2>0. \A x \in Episodes : TaskOf(x)' <=> TaskOf(x)
    BY DEF TaskOf, CreateEpisode, CreateUploadSession, CreateUploadSessionFails
  <2>1. CASE CreateEpisode(e)
    BY <2>0, <2>1 DEF CatalogInv, TypeOK, ReferencesResolve, SessionOf, CreateEpisode
  <2>2. CASE CreateUploadSession(e)
    BY <2>0, <2>2 DEF CatalogInv, TypeOK, ReferencesResolve, SessionOf, CreateUploadSession
  <2>3. CASE CreateUploadSessionFails(e)
    BY <2>0, <2>3 DEF CatalogInv, TypeOK, ReferencesResolve, SessionOf, CreateUploadSessionFails
  <2>. QED  BY <2>1, <2>2, <2>3
<1>4. ReferencesResolve'
  BY <1>1, <1>3, RefsResolve
<1>5. UNCHANGED <<version, job, stream>>
  BY DEF CreateEpisode, CreateUploadSession, CreateUploadSessionFails
<1>6. VersionMatchesRefs'
  BY <1>2, <1>5, VersionsKept
<1>7. AcceptedIsQueued'
  BY <1>5 DEF CatalogInv, AcceptedIsQueued
<1>. QED  BY <1>1, <1>3, <1>4, <1>6, <1>7 DEF CatalogInv

\* The steps that add topics, and those of a deletion.
LEMMA EpisodeStep ==
    ASSUME CatalogInv, NEW e \in Episodes,
           UpdateEpisodeReady(e) \/ ReadForDelete(e) \/ CommitDelete(e) \/ DeleteFails(e)
    PROVE  CatalogInv'
<1>1. TypeOK'
  BY DEF CatalogInv, TypeOK, UpdateEpisodeReady, ReadForDelete, CommitDelete, DeleteFails
<1>2. UNCHANGED <<upload, version, task, job, stream>>
  BY DEF UpdateEpisodeReady, ReadForDelete, CommitDelete, DeleteFails
<1>3. \A x \in Episodes : (SessionOf(x) <=> SessionOf(x)') /\ (TaskOf(x) <=> TaskOf(x)')
  BY <1>2 DEF SessionOf, TaskOf
<1>4. \A x \in Episodes : /\ (SessionOf(x) \/ TaskOf(x) \/ x \in topics => x \in live)'
                          /\ (x \in topics => SessionOf(x))'
                          /\ (x \in live => upload[x] # "none")'
  <2>1. CASE UpdateEpisodeReady(e)
    BY <1>2, <1>3, <2>1 DEF CatalogInv, ReferencesResolve, UpdateEpisodeReady, SessionOf
  <2>2. CASE ReadForDelete(e) \/ DeleteFails(e)
    BY <1>2, <1>3, <2>2 DEF CatalogInv, ReferencesResolve, ReadForDelete, DeleteFails
  <2>3. CASE CommitDelete(e)
    BY <1>2, <1>3, <2>3 DEF CatalogInv, ReferencesResolve, CommitDelete
  <2>. QED  BY <2>1, <2>2, <2>3
<1>5. ReferencesResolve'
  BY <1>1, <1>4, RefsResolve
<1>6. VersionMatchesRefs'
  BY <1>2, VersionsKept
<1>7. AcceptedIsQueued'
  BY <1>2 DEF CatalogInv, AcceptedIsQueued
<1>. QED  BY <1>1, <1>4, <1>5, <1>6, <1>7 DEF CatalogInv

\* The steps of a task: it is flushed only over an episode that is there.
LEMMA TaskStep ==
    ASSUME CatalogInv, NEW k \in Tasks,
           (\E e \in Episodes : FlushTask(k, e)) \/ CommitTask(k) \/ RollbackTask(k)
    PROVE  CatalogInv'
<1>1. TypeOK'
  <2>1. ASSUME NEW e \in Episodes, FlushTask(k, e) PROVE task' \in [Tasks -> TaskType]
    BY <2>1 DEF CatalogInv, TypeOK, TaskType, FlushTask
  <2>2. CASE CommitTask(k)
    <3>1. [task[k] EXCEPT !.stage = "stored"] \in TaskType
      BY DEF CatalogInv, TypeOK, TaskType
    <3>. QED  BY <2>2, <3>1 DEF CatalogInv, TypeOK, CommitTask
  <2>3. CASE RollbackTask(k)
    BY <2>3 DEF CatalogInv, TypeOK, TaskType, NoTask, RollbackTask
  <2>4. UNCHANGED <<upload, live, topics, dataset, version, job, stream, deleting>>
    BY DEF FlushTask, CommitTask, RollbackTask
  <2>5. task' \in [Tasks -> TaskType]
    BY <2>1, <2>2, <2>3 DEF TypeOK
  <2>. QED  BY <2>4, <2>5 DEF CatalogInv, TypeOK
<1>2. UNCHANGED <<upload, live, topics, version, job, stream>>
  BY DEF FlushTask, CommitTask, RollbackTask
<1>3. \A x \in Episodes : SessionOf(x) <=> SessionOf(x)'
  BY <1>2 DEF SessionOf
<1>4. \A x \in Episodes : TaskOf(x)' => TaskOf(x) \/ x \in live
  <2>1. CASE \E e \in Episodes : FlushTask(k, e)
    BY <2>1 DEF CatalogInv, TypeOK, TaskType, FlushTask, TaskOf
  <2>2. CASE CommitTask(k)
    BY <2>2 DEF CatalogInv, TypeOK, TaskType, CommitTask, TaskOf
  <2>3. CASE RollbackTask(k)
    BY <2>3 DEF CatalogInv, TypeOK, TaskType, NoTask, RollbackTask, TaskOf
  <2>. QED  BY <2>1, <2>2, <2>3
<1>5. ReferencesResolve'
  BY <1>1, <1>2, <1>3, <1>4, RefsResolve DEF CatalogInv, ReferencesResolve
<1>6. VersionMatchesRefs'
  BY <1>2, VersionsKept
<1>7. AcceptedIsQueued'
  BY <1>2 DEF CatalogInv, AcceptedIsQueued
<1>. QED  BY <1>1, <1>2, <1>3, <1>5, <1>6, <1>7 DEF CatalogInv
\* The steps of a dataset and of a version.
LEMMA VersionStep ==
    ASSUME CatalogInv,
           \/ \E d \in Datasets, p \in Projects : CreateDataset(d, p)
           \/ \E v \in Versions : \/ \E d \in Datasets, refs \in RefLists : ValidateVersion(v, d, refs)
                                  \/ CommitVersion(v) \/ CommitVersionFails(v)
    PROVE  CatalogInv'
<1> DEFINE Good(w) ==
      /\ IsInjective(w.refs)
      /\ \A i \in DOMAIN w.refs : /\ ProjectOf[w.refs[i]] = w.project
                                  /\ upload[w.refs[i]] # "none"
      /\ w.episode_count = Cardinality(ToSet(w.refs))
      /\ w.total_size_bytes = TotalSize(ToSet(w.refs))
<1>1. UNCHANGED <<upload, live, topics, task, job, stream, deleting>>
  BY DEF CreateDataset, ValidateVersion, CommitVersion, CommitVersionFails
<1>2. dataset' \in [Datasets -> Projects \cup {None}]
  BY DEF CatalogInv, TypeOK, CreateDataset, ValidateVersion, CommitVersion, CommitVersionFails
<1>3. \A v \in Versions : version[v].stage # "none" => Good(version[v])
  BY DEF CatalogInv, VersionMatchesRefs
<1>4. version' \in [Versions -> VersionType]
      /\ \A v \in Versions : version'[v].stage # "none" => Good(version'[v])
  <2>0. version \in [Versions -> VersionType]
    BY DEF CatalogInv, TypeOK
  <2>1. CASE \E d \in Datasets, p \in Projects : CreateDataset(d, p)
    BY <1>3, <2>0, <2>1 DEF CreateDataset
  <2>2. ASSUME NEW v \in Versions, NEW d \in Datasets, NEW refs \in RefLists,
               ValidateVersion(v, d, refs)
        PROVE  version' \in [Versions -> VersionType]
               /\ \A x \in Versions : version'[x].stage # "none" => Good(version'[x])
    <3>1. version'[v] \in VersionType /\ Good(version'[v])
      BY <2>2, ValidatedVersion
    <3>2. version' = [version EXCEPT ![v] = version'[v]]
      BY <2>0, <2>2 DEF ValidateVersion
    <3>3. \A x \in Versions : x # v => version'[x] = version[x]
      BY <2>0, <3>2
    <3>4. version' \in [Versions -> VersionType]
      BY <2>0, <3>1, <3>2
    <3>. HIDE DEF Good
    <3>. QED  BY <1>3, <3>1, <3>3, <3>4
  <2>3. ASSUME NEW v \in Versions, CommitVersion(v)
        PROVE  version' \in [Versions -> VersionType]
               /\ \A x \in Versions : version'[x].stage # "none" => Good(version'[x])
    <3>1. /\ version' = [version EXCEPT ![v] = [version[v] EXCEPT !.stage = "stored"]]
          /\ version[v].stage # "none"
      BY <2>0, <2>3 DEF CommitVersion
    <3>2. /\ version'[v] = [version[v] EXCEPT !.stage = "stored"]
          /\ \A x \in Versions : x # v => version'[x] = version[x]
      BY <2>0, <3>1
    <3>3. /\ version'[v].refs = version[v].refs
          /\ version'[v].project = version[v].project
          /\ version'[v].episode_count = version[v].episode_count
          /\ version'[v].total_size_bytes = version[v].total_size_bytes
          /\ version'[v] \in VersionType
      BY <2>0, <3>2 DEF VersionType
    <3>4. Good(version'[v])
      BY <1>3, <3>1, <3>3
    <3>. HIDE DEF Good
    <3>. QED  BY <1>3, <2>0, <3>1, <3>2, <3>3, <3>4
  <2>4. ASSUME NEW v \in Versions, CommitVersionFails(v)
        PROVE  version' \in [Versions -> VersionType]
               /\ \A x \in Versions : version'[x].stage # "none" => Good(version'[x])
    <3>1. NoVersion \in VersionType /\ NoVersion.stage = "none"
      BY DEF NoVersion, VersionType
    <3>2. version' = [version EXCEPT ![v] = NoVersion]
      BY <2>4 DEF CommitVersionFails
    <3>. HIDE DEF Good
    <3>. QED  BY <1>3, <2>0, <3>1, <3>2
  <2>. QED  BY <2>1, <2>2, <2>3, <2>4
<1>5. TypeOK'
  BY <1>1, <1>2, <1>4 DEF CatalogInv, TypeOK
<1>6. \A x \in Episodes : (SessionOf(x) <=> SessionOf(x)') /\ (TaskOf(x) <=> TaskOf(x)')
  BY <1>1 DEF SessionOf, TaskOf
<1>7. ReferencesResolve'
  BY <1>1, <1>5, <1>6, RefsResolve DEF CatalogInv, ReferencesResolve
<1>8. VersionMatchesRefs'
  BY <1>1, <1>4 DEF VersionMatchesRefs
<1>9. AcceptedIsQueued'
  BY <1>1 DEF CatalogInv, AcceptedIsQueued
<1>. QED  BY <1>1, <1>5, <1>6, <1>7, <1>8, <1>9 DEF CatalogInv

\* The steps of an export job: the row is there before the entry.
LEMMA JobStep ==
    ASSUME CatalogInv, NEW j \in Jobs,
           (\E v \in Versions : CommitJob(j, v)) \/ Enqueue(j) \/ EnqueueFails(j)
    PROVE  CatalogInv'
<1>1. UNCHANGED <<upload, live, topics, dataset, version, task, deleting>>
  BY DEF CommitJob, Enqueue, EnqueueFails
<1>2. TypeOK'
  BY DEF CatalogInv, TypeOK, JobStages, CommitJob, Enqueue, EnqueueFails
<1>3. \A x \in Episodes : (SessionOf(x) <=> SessionOf(x)') /\ (TaskOf(x) <=> TaskOf(x)')
  BY <1>1 DEF SessionOf, TaskOf
<1>4. ReferencesResolve'
  BY <1>1, <1>2, <1>3, RefsResolve DEF CatalogInv, ReferencesResolve
<1>5. VersionMatchesRefs'
  BY <1>1, VersionsKept
<1>6. AcceptedIsQueued'
  BY DEF CatalogInv, TypeOK, AcceptedIsQueued, CommitJob, Enqueue, EnqueueFails
<1>. QED  BY <1>1, <1>2, <1>3, <1>4, <1>5, <1>6 DEF CatalogInv

\* Nothing changes.
LEMMA StutterStep ==
    ASSUME CatalogInv, UNCHANGED vars
    PROVE  CatalogInv'
<1>1. \A x \in Episodes : (SessionOf(x) <=> SessionOf(x)') /\ (TaskOf(x) <=> TaskOf(x)')
  BY DEF vars, SessionOf, TaskOf
<1>2. TypeOK'
  BY DEF vars, CatalogInv, TypeOK
<1>3. ReferencesResolve'
  BY <1>1, <1>2, RefsResolve DEF vars, CatalogInv, ReferencesResolve
<1>4. VersionMatchesRefs'
  BY VersionsKept DEF vars
<1>. QED  BY <1>1, <1>2, <1>3, <1>4 DEF vars, CatalogInv, AcceptedIsQueued

-----------------------------------------------------------------------------
\* The rows stay consistent, whatever requests interleave and whichever fail.
THEOREM CatalogSafe == Spec => []CatalogInv
<1>1. Init => CatalogInv
  <2>1. ASSUME Init PROVE TypeOK
    <3>1. NoVersion \in VersionType /\ NoTask \in TaskType
      BY DEF NoVersion, VersionType, NoTask, TaskType
    <3>. QED  BY <2>1, <3>1 DEF Init, TypeOK, JobStages
  <2>2. ASSUME Init PROVE \A e \in Episodes : ~SessionOf(e) /\ ~TaskOf(e) /\ e \notin topics
    BY <2>2 DEF Init, SessionOf, TaskOf, NoTask
  <2>. QED  BY <2>1, <2>2 DEF Init, CatalogInv, ReferencesResolve, VersionMatchesRefs,
                              AcceptedIsQueued, NoVersion, Stored
<1>2. CatalogInv /\ [Next]_vars => CatalogInv'
  <2>. SUFFICES ASSUME CatalogInv, [Next]_vars PROVE CatalogInv'
    OBVIOUS
  <2>. QED  BY UploadStep, EpisodeStep, TaskStep, VersionStep, JobStep, StutterStep DEF Next
<1>. QED  BY <1>1, <1>2, PTL DEF Spec

\* The rows have the columns they should.
THEOREM CatalogTypeOK == Spec => []TypeOK
<1>1. CatalogInv => TypeOK
  BY DEF CatalogInv
<1>. QED  BY <1>1, CatalogSafe, PTL

\* Deletion leaves nothing behind that names an episode and does not find it.
THEOREM CatalogReferencesResolve == Spec => []ReferencesResolve
<1>1. CatalogInv => ReferencesResolve
  BY DEF CatalogInv
<1>. QED  BY <1>1, CatalogSafe, PTL

\* A version says of its refs what is true of them.
THEOREM CatalogVersionMatchesRefs == Spec => []VersionMatchesRefs
<1>1. CatalogInv => VersionMatchesRefs
  BY DEF CatalogInv
<1>. QED  BY <1>1, CatalogSafe, PTL

\* An entry has its job, and an accepted job its entry.
THEOREM CatalogAcceptedIsQueued == Spec => []AcceptedIsQueued
<1>1. CatalogInv => AcceptedIsQueued
  BY DEF CatalogInv
<1>. QED  BY <1>1, CatalogSafe, PTL
=============================================================================
