--------------------------- MODULE StreamIngestion ----------------------------
(***************************************************************************)
(* One leg of a recording that a robot streams to the gateway over gRPC    *)
(* (services/gateway/internal/grpc: stream_server.go, frame_buffer.go).    *)
(* Legs share nothing: each has its own handler, buffer and episode, and a *)
(* robot that reconnects opens another leg.                                *)
(*                                                                         *)
(* The handler selects between its inactivity timer and the result of the  *)
(* one Recv that is outstanding; when both are ready Go takes either, so   *)
(* the timer may always fire.  Sealing is one step per call to the episode *)
(* table, the object store and Redis.                                      *)
(***************************************************************************)
EXTENDS Integers, Sequences, FiniteSets, SequencesExt

CONSTANTS
    MaxFrames,     \* bound on the frames the robot sends; their seq_nums
    Times,         \* the timestamps (in seconds) frames may carry, 0 = unset
    MaxAge,        \* NewFrameBuffer's window, 5 s
    TakesNoProject,\* whether the episode store takes a row with project_id ""
    CallsMayFail   \* whether calls to the stores may fail

ASSUME StreamAssumption ==
    /\ MaxFrames \in Nat
    /\ Times \subseteq Nat
    /\ MaxAge \in Nat
    /\ TakesNoProject \in BOOLEAN
    /\ CallsMayFail \in BOOLEAN

VARIABLES
    client,    \* "open", "closed" (half-closed: EOF) or "gone"
    wire,      \* the frames sent and not yet received
    pc,        \* what the handler does next
    received,  \* history: the frames received
    buf,       \* FrameBuffer.frames; their numbers, not their places, order them
    data,      \* the serialized frames that are being sealed
    acks,      \* the acknowledgements sent
    row,       \* whether the episode's row exists (as 'processing')
    path,      \* whether its storage_path is set
    object,    \* the frames in the object store, <<>> before PutObject
    events,    \* how many events were emitted
    failed     \* history: a call failed

episode == <<row, path, object, events>>
vars == <<client, wire, pc, received, buf, data, acks, episode, failed>>

Frames == [seq : 1 .. MaxFrames, ts : Times, last : BOOLEAN]
Acks == [seq : 1 .. MaxFrames, ep : BOOLEAN, status : {"ok", "error"}]
Sealing == {"create", "put", "update", "publish"}

TypeOK ==
    /\ client \in {"open", "closed", "gone"}
    /\ wire \in Seq(Frames)
    /\ pc \in {"select", "sealed", "ended"} \cup Sealing
    /\ received \in Seq(Frames)
    /\ buf \in SUBSET Frames
    /\ data \in Seq(Frames)
    /\ acks \in Seq(Acks)
    /\ row \in BOOLEAN
    /\ path \in BOOLEAN
    /\ object \in Seq(Frames)
    /\ events \in 0 .. 1
    /\ failed \in BOOLEAN

Init ==
    /\ client = "open"
    /\ wire = <<>>
    /\ pc = "select"
    /\ received = <<>>
    /\ buf = {}
    /\ data = <<>>
    /\ acks = <<>>
    /\ row = FALSE
    /\ path = FALSE
    /\ object = <<>>
    /\ events = 0
    /\ failed = FALSE

-----------------------------------------------------------------------------
(* FrameBuffer                                                             *)

\* Mutant: ">" for ">=".
AddFrameLate(S, f) ==
    {g \in S \cup {f} : f.ts > 0 => g.ts > f.ts - MaxAge}

\* Add: append, then drop what is older than the frame's timestamp allows.
AddFrame(S, f) ==
    {g \in S \cup {f} : f.ts > 0 => g.ts >= f.ts - MaxAge}

ByNumber(t) == \A i, j \in DOMAIN t : i < j => t[i].seq < t[j].seq

\* Serialize: the frames by seq_num.
Serialize(S) ==
    CHOOSE t \in [1 .. Cardinality(S) -> S] : ToSet(t) = S /\ ByNumber(t)

-----------------------------------------------------------------------------
(* The robot                                                               *)

Used == {received[i].seq : i \in DOMAIN received} \cup {wire[i].seq : i \in DOMAIN wire}

\* Frames may leave the robot out of order; nothing follows the last one.
SendFrame ==
    /\ client = "open"
    /\ \A i \in DOMAIN wire : ~wire[i].last
    /\ \A i \in DOMAIN received : ~received[i].last
    /\ \E f \in Frames : f.seq \notin Used /\ wire' = Append(wire, f)
    /\ UNCHANGED <<client, pc, received, buf, data, acks, episode, failed>>

CloseSend ==
    /\ client = "open"
    /\ client' = "closed"
    /\ UNCHANGED <<wire, pc, received, buf, data, acks, episode, failed>>

\* The connection breaks; what was on the way is lost.
Disconnect ==
    /\ client # "gone"
    /\ pc # "ended"
    /\ client' = "gone"
    /\ wire' = <<>>
    /\ UNCHANGED <<pc, received, buf, data, acks, episode, failed>>

-----------------------------------------------------------------------------
(* OpenStream                                                              *)

Ack(f, ep, status) == acks' = Append(acks, [seq |-> f.seq, ep |-> ep, status |-> status])

\* sealEpisode begins: serialize, and reset the buffer.
Seal(S) ==
    /\ data' = Serialize(S)
    /\ buf' = {}
    /\ pc' = "create"

\* A frame is buffered and acknowledged, and the next Recv starts.
ReceiveFrame ==
    LET f == Head(wire)
    IN  /\ pc = "select"
        /\ wire # <<>>
        /\ ~f.last
        /\ received' = Append(received, f)
        /\ buf' = AddFrame(buf, f)
        /\ wire' = Tail(wire)
        /\ Ack(f, FALSE, "ok")
        /\ UNCHANGED <<client, pc, data, episode, failed>>

\* The last frame is buffered and the leg is sealed before it is answered.
ReceiveLast ==
    LET f == Head(wire)
    IN  /\ pc = "select"
        /\ wire # <<>>
        /\ f.last
        /\ received' = Append(received, f)
        /\ wire' = Tail(wire)
        /\ Seal(AddFrame(buf, f))
        /\ UNCHANGED <<client, acks, episode, failed>>

\* Send fails: the handler returns and the buffered frames are gone.
AckFails ==
    LET f == Head(wire)
    IN  /\ pc = "select"
        /\ wire # <<>>
        /\ ~f.last
        /\ received' = Append(received, f)
        /\ buf' = AddFrame(buf, f)
        /\ wire' = Tail(wire)
        /\ pc' = "ended"
        /\ failed' = TRUE
        /\ UNCHANGED <<client, data, acks, episode>>

\* Seal what is buffered, if anything is, and return.
SealPending ==
    IF buf = {} THEN pc' = "ended" /\ UNCHANGED <<buf, data>> ELSE Seal(buf)

\* Mutant: the handler returns only after a seal.
InactivityOnlyPending ==
    /\ pc = "select"
    /\ buf # {}
    /\ Seal(buf)
    /\ UNCHANGED <<client, wire, received, acks, episode, failed>>

\* 30 s without a frame.
Inactivity ==
    /\ pc = "select"
    /\ SealPending
    /\ UNCHANGED <<client, wire, received, acks, episode, failed>>

\* Recv returns io.EOF after the last frame of a half-closed stream.
EndOfStream ==
    /\ pc = "select"
    /\ client = "closed"
    /\ wire = <<>>
    /\ SealPending
    /\ UNCHANGED <<client, wire, received, acks, episode, failed>>

\* Recv returns a status error, which is neither io.EOF nor context.Canceled:
\* the handler returns it at once.
RecvError ==
    /\ pc = "select"
    /\ client = "gone"
    /\ pc' = "ended"
    /\ failed' = TRUE
    /\ UNCHANGED <<client, wire, received, buf, data, acks, episode>>

-----------------------------------------------------------------------------
(* sealEpisode, after the buffer is reset.  It leaves the row's project_id *)
(* empty: the store of the gateway's tests takes that, the episodes table  *)
(* (001_initial_schema.py: a UUID, NOT NULL) does not.                     *)

\* What the calls of the seal do.
InsertRow == row' = TRUE /\ UNCHANGED <<path, object, events>>
WriteObject == object' = data /\ UNCHANGED <<row, path, events>>
SetPath == path' = TRUE /\ UNCHANGED <<row, object, events>>
EmitEvent == events' = events + 1 /\ UNCHANGED <<row, path, object>>

CreateEpisodeFromStream ==
    /\ pc = "create"
    /\ TakesNoProject
    /\ InsertRow
    /\ pc' = "put"
    /\ UNCHANGED <<client, wire, received, buf, data, acks, failed>>

\* Mutant: the path is stored without the object.
UpdateBeforePut ==
    /\ pc = "put"
    /\ SetPath
    /\ pc' = "publish"
    /\ UNCHANGED <<client, wire, received, buf, data, acks, failed>>

PutObject ==
    /\ pc = "put"
    /\ WriteObject
    /\ pc' = "update"
    /\ UNCHANGED <<client, wire, received, buf, data, acks, failed>>

UpdateEpisodeStatus ==
    /\ pc = "update"
    /\ SetPath
    /\ pc' = "publish"
    /\ UNCHANGED <<client, wire, received, buf, data, acks, failed>>

\* The event is emitted, or its error is logged; it may have been emitted then
\* too, if only the answer was lost.
PublishEpisodeIngested ==
    /\ pc = "publish"
    /\ \/ EmitEvent /\ failed' \in {failed, TRUE}
       \/ failed' = TRUE /\ UNCHANGED episode
    /\ pc' = "sealed"
    /\ UNCHANGED <<client, wire, received, buf, data, acks>>

\* A call that fails may have taken effect: the store did its part and the
\* answer was lost.
EffectWithoutAnswer ==
    \/ pc = "create" /\ TakesNoProject /\ InsertRow
    \/ pc = "put" /\ WriteObject
    \/ pc = "update" /\ SetPath

\* The INSERT, the upload or the UPDATE fails.  After a last frame the robot
\* is told; the buffer is empty in any case.
SealFails ==
    /\ \/ CallsMayFail /\ pc \in Sealing \ {"publish"} /\ (UNCHANGED episode \/ EffectWithoutAnswer)
       \/ ~TakesNoProject /\ pc = "create" /\ UNCHANGED episode
    /\ failed' = TRUE
    /\ IF Last(received).last THEN Ack(Last(received), FALSE, "error") ELSE UNCHANGED acks
    /\ pc' = "ended"
    /\ UNCHANGED <<client, wire, received, buf, data>>

\* After a last frame the robot gets the episode's id.
FinishSeal ==
    /\ pc = "sealed"
    /\ IF Last(received).last THEN Ack(Last(received), TRUE, "ok") ELSE UNCHANGED acks
    /\ pc' = "ended"
    /\ UNCHANGED <<client, wire, received, buf, data, episode, failed>>

Robot == SendFrame \/ CloseSend \/ Disconnect

Receive == ReceiveFrame \/ ReceiveLast \/ AckFails \/ EndOfStream \/ RecvError

SealEpisode ==
    \/ CreateEpisodeFromStream
    \/ PutObject
    \/ UpdateEpisodeStatus
    \/ PublishEpisodeIngested
    \/ SealFails
    \/ FinishSeal

Next == Robot \/ Receive \/ Inactivity \/ SealEpisode

Spec == Init /\ [][Next]_vars

\* A Recv that has a result is served, each call of the seal returns, and
\* the timer fires in a leg that stays open.
FairSpec == Spec /\ WF_vars(Receive) /\ WF_vars(Inactivity) /\ WF_vars(SealEpisode)

-----------------------------------------------------------------------------
(* Safety                                                                  *)

\* What the window keeps of a sequence of frames, said without the loop: a
\* frame stays unless a later one is more than MaxAge ahead of it.
InWindow(s) ==
    {s[i] : i \in {i \in DOMAIN s :
        \A j \in i .. Len(s) : s[j].ts > 0 => s[i].ts >= s[j].ts - MaxAge}}

\* The buffer is that window while frames arrive, also when they arrive out
\* of order or without a timestamp.
BufferIsWindow == pc = "select" => buf = InWindow(received)

\* The file holds those frames in the order of their numbers, each once,
\* although the buffer was emptied before the file was written.
FileIsSortedWindow ==
    object # <<>> =>
        /\ ToSet(object) = InWindow(received)
        /\ ByNumber(object)

\* An emitted event names a row with a path, and a path always leads to a file:
\* also after a call that failed, with or without its effect.
PublishedIsReadable ==
    /\ events > 0 => path
    /\ path => row /\ object # <<>>

\* The answer to the last frame is "ok" with an episode only if that episode
\* can be read.  After "error" nobody is told of the recording, though an
\* UPDATE whose answer was lost may have stored it.
FinalAckIsTrue ==
    \A i \in DOMAIN acks :
        /\ acks[i].ep => row /\ path /\ object # <<>>
        /\ acks[i].status = "error" => events = 0

\* A leg that ends without a failing call has stored what it buffered.
CleanEndIsSealed ==
    pc = "ended" /\ ~failed /\ received # <<>> =>
        events = 1 /\ path /\ object # <<>>

\* What is recorded of a leg is the window of what was received, in the buffer
\* as in the file.
RecordingIsWindow == TypeOK /\ BufferIsWindow /\ FileIsSortedWindow

\* What is stored, answered and announced of a leg agree.
AnnouncedIsStored == PublishedIsReadable /\ FinalAckIsTrue /\ CleanEndIsSealed

-----------------------------------------------------------------------------
(* Liveness                                                                *)

\* No handler stays behind: when the robot stops talking the leg ends.
LegEnds == <>(pc = "ended")

-----------------------------------------------------------------------------
(* What the repository says and the code does not do.                      *)

\* stream_server.go:58: "On frame.is_last=true OR 30 s inactivity -> seal
\* episode, return final ACK".  With a robot that stays connected and no
\* call that may fail, the leg of a last frame ends with an episode.
LastFrameSeals ==
    pc = "ended" /\ client # "gone" /\ received # <<>> /\ Last(received).last => row
=============================================================================
