---------------------------- MODULE PipelineProofs ----------------------------
(***************************************************************************)
(* The safety of the pipeline workers, for every set of episodes and       *)
(* workers and any number of events and faults.                            *)
(*                                                                         *)
(* The properties hold one another up: that the topics and the temporary   *)
(* files are of delivered events (TypeOK) needs that a handled event is    *)
(* pending (OneHandler), which needs that what is pending was delivered    *)
(* (TypeOK); that an acknowledgement loses nothing (AckedIsRecorded) needs *)
(* that nobody else is at work on the event.                               *)
(***************************************************************************)
EXTENDS Pipeline, SequenceTheorems, TLAPS

SafeInv ==
    /\ TypeOK
    /\ OneHandler
    /\ AckedIsRecorded
    /\ ReadyIsRecorded
    /\ ThumbnailExists

-----------------------------------------------------------------------------

\* The initial state is safe: no worker handles anything.
LEMMA SafeInit == Init => SafeInv
<1> SUFFICES ASSUME Init PROVE SafeInv
  OBVIOUS
<1> USE DEF Init, PipelineInit, Free
<1>1. TypeOK
  <2>1. stream \in Seq(Episodes) /\ Len(stream) = 0
    OBVIOUS
  <2>2. /\ cursor \in 0 .. Len(stream)
        /\ faults \in 0 .. MaxFaults
    BY <2>1, PipelineAssumption
  <2>3. /\ worker \in [Workers -> [pc : PCs, event : 0 .. Len(stream), thumb : BOOLEAN]]
        /\ \A w \in Workers : worker[w].pc \in Handling => worker[w].event # 0
    BY <2>1 DEF PCs, Handling
  <2> QED
    BY <2>1, <2>2, <2>3 DEF TypeOK
<1>2. OneHandler /\ AckedIsRecorded /\ ReadyIsRecorded /\ ThumbnailExists
  BY DEF OneHandler, AckedIsRecorded, ReadyIsRecorded, ThumbnailExists, Holds,
         Handling, At
<1> QED
  BY <1>1, <1>2 DEF SafeInv

\* An event in somebody's hands was delivered, is pending, and is an event
\* of an episode.
LEMMA HandledEvent ==
  ASSUME SafeInv, NEW w \in Workers, worker[w].pc \in Handling
  PROVE  /\ Event(w) \in 1 .. cursor
         /\ Event(w) \in 1 .. Len(stream)
         /\ Event(w) \in pending
         /\ Episode(w) \in Episodes
<1>1. Event(w) \in 1 .. Len(stream)
  BY DEF SafeInv, TypeOK, Event
<1>2. Event(w) \in pending
  BY <1>1 DEF SafeInv, OneHandler, Holds, Event
<1>3. Event(w) \in 1 .. cursor
  BY <1>2 DEF SafeInv, TypeOK
<1>4. Episode(w) \in Episodes
  BY <1>1, ElementOfSeq DEF SafeInv, TypeOK, Episode, Event
<1> QED
  BY <1>1, <1>2, <1>3, <1>4

\* A worker that lets go of its event, finished or not, without touching
\* what others rely on.
LEMMA ReleaseSafe ==
  ASSUME SafeInv, NEW w \in Workers, NEW pc \in {"down", "idle"}, Release(w, pc),
         UNCHANGED <<status, file, stream, groupVars, topics, thumbs, thumbUrl>>,
         temp' \subseteq temp, faults' \in 0 .. MaxFaults
  PROVE  SafeInv'
<1> USE DEF SafeInv, Release, Free, groupVars
<1>1. TypeOK'
  BY DEF TypeOK, PCs, Handling
<1>2. OneHandler'
  BY DEF TypeOK, OneHandler, Holds, Handling
<1>3. AckedIsRecorded'
  BY DEF TypeOK, AckedIsRecorded, At, Event
<1>4. ReadyIsRecorded'
  BY DEF ReadyIsRecorded
<1>5. ThumbnailExists'
  BY DEF TypeOK, ThumbnailExists, At, Episode
<1> QED
  BY <1>1, <1>2, <1>3, <1>4, <1>5

\* A worker between two events: only its program counter moves.
LEMMA BetweenEventsSafe ==
  ASSUME SafeInv, NEW w \in Workers, NEW pc \in {"boot", "idle"},
         worker[w].pc \in {"down", "boot"}, GoTo(w, pc),
         UNCHANGED <<status, file, stream, cursor, pending, resultVars>>,
         group' \in BOOLEAN, faults' \in 0 .. MaxFaults
  PROVE  SafeInv'
<1> USE DEF SafeInv, GoTo, resultVars
<1>1. TypeOK'
  BY DEF TypeOK, PCs, Handling
<1>2. OneHandler'
  BY DEF TypeOK, OneHandler, Holds, Handling
<1>3. AckedIsRecorded'
  BY DEF TypeOK, AckedIsRecorded, At, Event
<1>4. ReadyIsRecorded'
  BY DEF ReadyIsRecorded
<1>5. ThumbnailExists'
  BY DEF TypeOK, ThumbnailExists, At, Episode
<1> QED
  BY <1>1, <1>2, <1>3, <1>4, <1>5

\* Moving a worker's counter and thumbnail keeps the type of its record.
LEMMA GoOnWorkerType ==
  ASSUME TypeOK, NEW w \in Workers, NEW pc \in PCs, NEW thumb \in BOOLEAN
  PROVE  [worker EXCEPT ![w].pc = pc, ![w].thumb = thumb]
           \in [Workers -> [pc : PCs, event : 0 .. Len(stream), thumb : BOOLEAN]]
<1> DEFINE Records == [pc : PCs, event : 0 .. Len(stream), thumb : BOOLEAN]
<1>1. worker \in [Workers -> Records]
  BY DEF TypeOK
<1> HIDE DEF Records
<1>2. [worker[w] EXCEPT !.pc = pc, !.thumb = thumb] \in Records
  BY <1>1 DEF Records
<1> QED
  BY <1>1, <1>2 DEF Records

\* The event of a worker goes on to the next step: pc before "ack".
LEMMA GoOnSafe ==
  ASSUME SafeInv, NEW w \in Workers, worker[w].pc \in {"mark", "download", "score", "thumbnail"},
         NEW pc \in {"download", "score", "thumbnail", "persist"},
         NEW thumb \in BOOLEAN,
         worker' = [worker EXCEPT ![w].pc = pc, ![w].thumb = thumb],
         thumb => pc = "persist" /\ Episode(w) \in thumbs',
         thumbs \subseteq thumbs', thumbs' \subseteq Episodes,
         temp' \subseteq temp \cup {<<"episode", Event(w)>>, <<"thumbnail", Event(w)>>},
         status' \in [Episodes -> {"none", "uploading", "processing", "ready"}],
         \A e \in Episodes : status'[e] = "ready" => status[e] = "ready",
         UNCHANGED <<file, stream, groupVars, topics, thumbUrl, faults>>
  PROVE  SafeInv'
<1> USE DEF SafeInv, groupVars
<1>0. worker[w].pc \in Handling /\ pc \in Handling
  BY DEF Handling, PCs
<1>h. Event(w) \in 1 .. cursor
  BY <1>0, HandledEvent
<1>1. TypeOK'
  <2>1. temp' \subseteq {"episode", "thumbnail"} \X (1 .. cursor')
    <3>1. temp \subseteq {"episode", "thumbnail"} \X (1 .. cursor)
      BY DEF TypeOK
    <3>2. {<<"episode", Event(w)>>, <<"thumbnail", Event(w)>>}
             \subseteq {"episode", "thumbnail"} \X (1 .. cursor)
      BY <1>h
    <3>3. temp' \subseteq {"episode", "thumbnail"} \X (1 .. cursor)
      BY <3>1, <3>2, Zenon
    <3>4. cursor' = cursor
      OBVIOUS
    <3> QED
      BY <3>3, <3>4, Zenon
  <2>2. worker' \in [Workers -> [pc : PCs, event : 0 .. Len(stream), thumb : BOOLEAN]]
    BY GoOnWorkerType DEF PCs
  <2>3. \A v \in Workers : worker'[v].pc \in Handling => worker'[v].event # 0
    BY <1>0 DEF TypeOK
  <2> QED
    BY <2>1, <2>2, <2>3 DEF TypeOK
<1>2. OneHandler'
  BY <1>0 DEF TypeOK, OneHandler, Holds
<1>3. AckedIsRecorded'
  BY DEF TypeOK, AckedIsRecorded, At, Event
<1>4. ReadyIsRecorded'
  BY DEF ReadyIsRecorded
<1>5. ThumbnailExists'
  BY DEF TypeOK, ThumbnailExists, At, Episode
<1> QED
  BY <1>1, <1>2, <1>3, <1>4, <1>5

\* Before the thumbnail a worker has none, so moving the counter is all.
LEMMA NoThumbYet ==
  ASSUME SafeInv, NEW w \in Workers, NEW pc,
         worker[w].pc \in {"mark", "download", "score", "thumbnail"}, GoTo(w, pc)
  PROVE  worker' = [worker EXCEPT ![w].pc = pc, ![w].thumb = FALSE]
<1>1. worker[w].thumb = FALSE
  BY DEF SafeInv, ThumbnailExists, TypeOK
<1> QED
  BY <1>1 DEF SafeInv, TypeOK, GoTo

-----------------------------------------------------------------------------

\* The gateway appends an event and takes its episode to processing.
LEMMA PublishSafe ==
  ASSUME SafeInv, NEW e \in Episodes, Publish(e)
  PROVE  SafeInv'
<1> USE DEF SafeInv, Publish, groupVars, resultVars
<1>0. /\ stream \in Seq(Episodes)
      /\ stream' \in Seq(Episodes)
      /\ Len(stream') = Len(stream) + 1
      /\ Len(stream) \in Nat
      /\ \A i \in 1 .. Len(stream) : stream'[i] = stream[i]
  BY AppendProperties DEF TypeOK
<1>1. TypeOK'
  <2>1. cursor' \in 0 .. Len(stream')
    BY <1>0 DEF TypeOK
  <2>2. worker' \in [Workers -> [pc : PCs, event : 0 .. Len(stream'), thumb : BOOLEAN]]
    BY <1>0 DEF TypeOK
  <2> QED
    BY <1>0, <2>1, <2>2 DEF TypeOK
<1>2. OneHandler'
  <2> SUFFICES ASSUME NEW w \in Workers, NEW i \in 1 .. Len(stream'), Holds(w, i)
               PROVE  i \in pending /\ \A v \in Workers : Holds(v, i) => v = w
    BY DEF OneHandler, Holds
  <2>1. i \in 1 .. Len(stream)
    BY HandledEvent DEF Holds, Event
  <2> QED
    BY <2>1 DEF OneHandler
<1>3. AckedIsRecorded'
  BY DEF AckedIsRecorded, At, Event
<1>4. ReadyIsRecorded'
  <2> SUFFICES ASSUME NEW d \in Episodes, status'[d] = "ready"
               PROVE  \E i \in topics : stream'[i] = d
    BY DEF ReadyIsRecorded
  <2>1. PICK i \in topics : stream[i] = d
    BY DEF ReadyIsRecorded, TypeOK
  <2>2. i \in 1 .. Len(stream)
    BY <1>0 DEF TypeOK
  <2> QED
    BY <2>1, <2>2, <1>0
<1>5. ThumbnailExists'
  <2>1. ASSUME NEW w \in Workers, worker[w].thumb
        PROVE  worker[w].pc \in {"persist", "ack"} /\ stream'[worker[w].event] \in thumbs
    <3>1. worker[w].pc \in {"persist", "ack"} /\ Episode(w) \in thumbs
      BY <2>1 DEF ThumbnailExists
    <3>2. Event(w) \in 1 .. Len(stream)
      BY <3>1, HandledEvent DEF Handling, PCs
    <3> QED
      BY <3>1, <3>2, <1>0 DEF Episode, Event
  <2> QED
    BY <2>1 DEF ThumbnailExists, Episode
<1> QED
  BY <1>1, <1>2, <1>3, <1>4, <1>5

\* XREADGROUP hands out an event nobody can have had before.
LEMMA ReadNewSafe ==
  ASSUME SafeInv, NEW w \in Workers, ReadNew(w)
  PROVE  SafeInv'
<1> USE DEF SafeInv, ReadNew, resultVars, At
<1>0. cursor + 1 \in 1 .. Len(stream) /\ cursor \in Nat /\ Len(stream) \in Nat
  BY LenProperties DEF TypeOK
<1>1. TypeOK'
  <2>1. cursor' \in 0 .. Len(stream) /\ pending' \subseteq 1 .. cursor'
    BY <1>0 DEF TypeOK
  <2>2. topics \subseteq 1 .. cursor'
    BY <1>0 DEF TypeOK
  <2>3. temp \subseteq {"episode", "thumbnail"} \X (1 .. cursor')
    <3>1. 1 .. cursor \subseteq 1 .. cursor'
      BY <1>0
    <3> QED
      BY <3>1 DEF TypeOK
  <2>4. /\ worker' \in [Workers -> [pc : PCs, event : 0 .. Len(stream), thumb : BOOLEAN]]
        /\ \A v \in Workers : worker'[v].pc \in Handling => worker'[v].event # 0
    BY <1>0 DEF TypeOK, PCs
  <2> QED
    BY <2>1, <2>2, <2>3, <2>4 DEF TypeOK
<1>2. OneHandler'
  <2>1. \A v \in Workers : ~Holds(v, cursor + 1)
    <3> SUFFICES ASSUME NEW v \in Workers, Holds(v, cursor + 1) PROVE FALSE
      OBVIOUS
    <3>1. cursor + 1 \in 1 .. cursor
      BY HandledEvent DEF Holds, Event
    <3> QED
      BY <3>1, <1>0
  <2>2. \A v \in Workers, i \in 1 .. Len(stream) :
          Holds(v, i)' <=> IF v = w THEN i = cursor + 1 ELSE Holds(v, i)
    BY <1>0 DEF TypeOK, Holds, Handling, PCs
  <2> QED
    BY <2>1, <2>2 DEF OneHandler
<1>3. AckedIsRecorded'
  <2>1. \A i \in 1 .. cursor' : i \in pending' \/ i \in topics
    BY <1>0 DEF AckedIsRecorded
  <2>2. \A v \in Workers : worker'[v].pc = "ack" => worker'[v].event \in topics
    BY DEF AckedIsRecorded, TypeOK, Event
  <2> QED
    BY <2>1, <2>2 DEF AckedIsRecorded, Event
<1>4. ReadyIsRecorded'
  BY DEF ReadyIsRecorded
<1>5. ThumbnailExists'
  BY DEF TypeOK, ThumbnailExists, Episode
<1> QED
  BY <1>1, <1>2, <1>3, <1>4, <1>5

\* XACK takes out one event, whose results are there and which no other
\* worker has.
LEMMA AckSafe ==
  ASSUME SafeInv, NEW w \in Workers, Ack(w)
  PROVE  SafeInv'
<1> USE DEF SafeInv, Ack, Release, Free, resultVars
<1>0. worker[w].pc \in Handling
  BY DEF At, Handling, PCs
<1>h. Event(w) \in 1 .. Len(stream) /\ Event(w) \in topics
  BY <1>0, HandledEvent DEF AckedIsRecorded
<1>1. TypeOK'
  <2>1. /\ worker' \in [Workers -> [pc : PCs, event : 0 .. Len(stream), thumb : BOOLEAN]]
        /\ \A v \in Workers : worker'[v].pc \in Handling => worker'[v].event # 0
    BY DEF TypeOK, PCs, Handling
  <2>2. pending' \subseteq 1 .. cursor
    BY DEF TypeOK
  <2> QED
    BY <2>1, <2>2 DEF TypeOK
<1>2. OneHandler'
  <2> SUFFICES ASSUME NEW v \in Workers, NEW i \in 1 .. Len(stream), Holds(v, i)'
               PROVE  i \in pending' /\ \A u \in Workers : Holds(u, i)' => u = v
    BY DEF OneHandler
  <2>1. \A u \in Workers : Holds(u, i)' => u # w /\ Holds(u, i)
    BY DEF TypeOK, Holds, Handling
  <2>2. i # Event(w)
    BY <2>1, <1>0, <1>h DEF OneHandler, Holds, Event
  <2> QED
    BY <2>1, <2>2 DEF OneHandler
<1>3. AckedIsRecorded'
  BY <1>h DEF TypeOK, AckedIsRecorded, At, Event
<1>4. ReadyIsRecorded'
  BY DEF ReadyIsRecorded
<1>5. ThumbnailExists'
  BY DEF TypeOK, ThumbnailExists, At, Episode
<1> QED
  BY <1>1, <1>2, <1>3, <1>4, <1>5

\* The transaction that makes an episode ready also inserts the topics of
\* the event.
LEMMA UpdateSafe ==
  ASSUME SafeInv, NEW w \in Workers, UpdateEpisodeReady(w)
  PROVE  SafeInv'
<1> USE DEF SafeInv, UpdateEpisodeReady, GoTo, groupVars
<1>0. worker[w].pc \in Handling
  BY DEF At, Handling, PCs
<1>h. Event(w) \in 1 .. cursor /\ Episode(w) \in Episodes /\ worker[w].thumb \in BOOLEAN
  BY <1>0, HandledEvent DEF TypeOK
<1>1. TypeOK'
  <2>1. topics' \subseteq 1 .. cursor'
    BY <1>h DEF TypeOK
  <2>2. /\ worker' \in [Workers -> [pc : PCs, event : 0 .. Len(stream), thumb : BOOLEAN]]
        /\ \A v \in Workers : worker'[v].pc \in Handling => worker'[v].event # 0
    BY <1>0 DEF TypeOK, PCs
  <2>3. /\ status' \in [Episodes -> {"none", "uploading", "processing", "ready"}]
        /\ thumbUrl' \in [Episodes -> BOOLEAN]
    BY <1>h DEF TypeOK
  <2>4. temp' \subseteq {"episode", "thumbnail"} \X (1 .. cursor')
    BY DEF TypeOK
  <2> QED
    BY <2>1, <2>2, <2>3, <2>4 DEF TypeOK
<1>2. OneHandler'
  <2>1. \A v \in Workers, i \in 1 .. Len(stream) : Holds(v, i)' => Holds(v, i)
    BY <1>0 DEF TypeOK, Holds
  <2> QED
    BY <2>1 DEF OneHandler
<1>3. AckedIsRecorded'
  BY DEF TypeOK, AckedIsRecorded, At, Event
<1>4. ReadyIsRecorded'
  BY DEF TypeOK, ReadyIsRecorded, Episode, Event
<1>5. ThumbnailExists'
  BY <1>h DEF TypeOK, ThumbnailExists, At, Episode
<1> QED
  BY <1>1, <1>2, <1>3, <1>4, <1>5

\* Every step of the gateway and of the workers keeps the invariant.
LEMMA SafeStep == SafeInv /\ [Next]_vars => SafeInv'
<1> SUFFICES ASSUME SafeInv, [Next]_vars PROVE SafeInv'
  OBVIOUS
<1>1. ASSUME NEW w \in Workers, Work(w) PROVE SafeInv'
  <2>a. /\ status \in [Episodes -> {"none", "uploading", "processing", "ready"}]
        /\ thumbs \subseteq Episodes
        /\ group \in BOOLEAN
        /\ faults \in 0 .. MaxFaults
    BY DEF SafeInv, TypeOK
  <2>1. CASE EnsureGroup(w)
    BY <2>1, <2>a, BetweenEventsSafe DEF EnsureGroup, At
  <2>2. CASE ReadNew(w)
    BY <2>2, ReadNewSafe
  <2>3. CASE ReadNoGroup(w)
    BY <2>3, <2>a, ReleaseSafe DEF ReadNoGroup, resultVars
  <2>4. CASE MarkProcessing(w)
    <3> USE <2>4 DEF MarkProcessing, At
    <3>1. worker' = [worker EXCEPT ![w].pc = "download", ![w].thumb = FALSE]
      BY NoThumbYet
    <3>2. /\ status' \in [Episodes -> {"none", "uploading", "processing", "ready"}]
          /\ \A e \in Episodes : status'[e] = "ready" => status[e] = "ready"
      BY <2>a
    <3> QED
      BY <3>1, <3>2, <2>a, GoOnSafe
  <2>5. CASE Download(w)
    <3> USE <2>5 DEF Download, At, resultVars
    <3>1. worker' = [worker EXCEPT ![w].pc = "score", ![w].thumb = FALSE]
      BY NoThumbYet
    <3> QED
      BY <3>1, <2>a, GoOnSafe
  <2>6. CASE ExtractAndScore(w)
    <3> USE <2>6 DEF ExtractAndScore, At, resultVars
    <3>1. worker' = [worker EXCEPT ![w].pc = "thumbnail", ![w].thumb = FALSE]
      BY NoThumbYet
    <3> QED
      BY <3>1, <2>a, GoOnSafe
  <2>7. CASE GenerateThumbnail(w)
    <3> USE <2>7 DEF GenerateThumbnail, At
    <3>1. CASE worker' = [worker EXCEPT ![w].pc = "persist", ![w].thumb = TRUE]
               /\ thumbs' = thumbs \cup {Episode(w)} /\ UNCHANGED temp
      <4>1. Episode(w) \in Episodes
        BY HandledEvent DEF Handling, PCs
      <4> QED
        BY <3>1, <4>1, <2>a, GoOnSafe
    <3>2. CASE GoTo(w, "persist") /\ UNCHANGED thumbs
               /\ temp' \subseteq temp \cup {<<"thumbnail", Event(w)>>}
      <4>1. worker' = [worker EXCEPT ![w].pc = "persist", ![w].thumb = FALSE]
        BY <3>2, NoThumbYet
      <4> QED
        BY <3>2, <4>1, <2>a, GoOnSafe
    <3> QED
      BY <3>1, <3>2
  <2>8. CASE UpdateEpisodeReady(w)
    BY <2>8, UpdateSafe
  <2>9. CASE Ack(w)
    BY <2>9, AckSafe
  <2> QED
    BY <1>1, <2>1, <2>2, <2>3, <2>4, <2>5, <2>6, <2>7, <2>8, <2>9 DEF Work
<1>2. ASSUME NEW w \in Workers, Disturb(w) PROVE SafeInv'
  <2>a. group \in BOOLEAN /\ faults \in 0 .. MaxFaults /\ faults \in Nat
    BY PipelineAssumption DEF SafeInv, TypeOK
  <2>1. CASE EnsureGroupFails(w)
    <3>1. faults' \in 0 .. MaxFaults
      BY <2>1, <2>a, PipelineAssumption DEF EnsureGroupFails
    <3> QED
      BY <2>1, <3>1, <2>a, BetweenEventsSafe DEF EnsureGroupFails, At, groupVars
  <2>2. CASE HandlingFails(w)
    BY <2>2, <2>a, ReleaseSafe DEF HandlingFails
  <2>3. CASE Die(w)
    <3>1. faults' \in 0 .. MaxFaults
      BY <2>3, <2>a, PipelineAssumption DEF Die
    <3> QED
      BY <2>3, <3>1, ReleaseSafe DEF Die, resultVars
  <2>4. CASE Restart(w)
    BY <2>4, <2>a, BetweenEventsSafe DEF Restart, At, groupVars
  <2> QED
    BY <1>2, <2>1, <2>2, <2>3, <2>4 DEF Disturb
<1>3. ASSUME NEW e \in Episodes, Publish(e) PROVE SafeInv'
  BY <1>3, PublishSafe
<1>4. CASE UNCHANGED vars
  BY <1>4 DEF SafeInv, TypeOK, OneHandler, AckedIsRecorded, ReadyIsRecorded,
              ThumbnailExists, At, Event, Episode, Holds, vars, groupVars, resultVars
<1> QED
  BY <1>1, <1>2, <1>3, <1>4 DEF Next, WorkerNext

-----------------------------------------------------------------------------
(* The safety of the pipeline.                                             *)

\* Every reachable state satisfies the inductive invariant.
THEOREM PipelineSafe == Spec => []SafeInv
  BY SafeInit, SafeStep, PTL DEF Spec

\* Types: above all, pending entries, topic rows and temporary files are
\* those of delivered events.
THEOREM PipelineTypeOK == Spec => []TypeOK
<1>1. SafeInv => TypeOK
  BY DEF SafeInv
<1> QED
  BY <1>1, PipelineSafe, PTL

\* XACK after the commit (worker.py, _handle): no acknowledged event is
\* without its topic rows, wherever the workers die.
THEOREM PipelineAckedIsRecorded == Spec => []AckedIsRecorded
<1>1. SafeInv => AckedIsRecorded
  BY DEF SafeInv
<1> QED
  BY <1>1, PipelineSafe, PTL

\* XREADGROUP with ">": any number of processes that share one consumer
\* name never handle the same event twice at a time.
THEOREM PipelineOneHandler == Spec => []OneHandler
<1>1. SafeInv => OneHandler
  BY DEF SafeInv
<1> QED
  BY <1>1, PipelineSafe, PTL

\* update_episode_ready: an episode is ready only with the topic rows of
\* one of its own events.
THEOREM PipelineReadyIsRecorded == Spec => []ReadyIsRecorded
<1>1. SafeInv => ReadyIsRecorded
  BY DEF SafeInv
<1> QED
  BY <1>1, PipelineSafe, PTL

\* _generate_thumbnail is best effort, and yet a stored thumbnail_url always
\* names an object that exists.
THEOREM PipelineThumbnailExists == Spec => []ThumbnailExists
<1>1. SafeInv => ThumbnailExists
  BY DEF SafeInv
<1> QED
  BY <1>1, PipelineSafe, PTL
=============================================================================
