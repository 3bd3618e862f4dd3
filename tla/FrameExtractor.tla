---------------------------- MODULE FrameExtractor ----------------------------
(***************************************************************************)
(* GET /episodes/{id}/frame of the dataset service, once the file is there *)
(* (module McapCache): the scan of McapFrameExtractor.extract_frame over   *)
(* the messages of the file (dataset-service/app: routers/episodes.py,     *)
(* services/frame_extractor.py).  A step of the scan is one message.       *)
(*                                                                         *)
(* best is the message whose time is best_timestamp, and so gives min_diff *)
(* too; frame is the message whose image is best_frame; 0 is None.         *)
(***************************************************************************)
EXTENDS McapFile

CONSTANTS
    Timestamps,   \* requested positions, relative to the start of the episode
    Tolerance     \* max_time_diff_ns

ASSUME FrameAssumption ==
    /\ Timestamps \subseteq Int
    /\ Tolerance \in Nat

VARIABLES pc, topic, target, next, best, frame

vars == <<file, pc, topic, target, next, best, frame>>

TypeOK ==
    /\ file \in Files
    /\ pc \in {"idle", "scan", "done", "failed"}
    /\ topic \in Topics
    /\ target \in Int
    /\ next \in 1 .. Len(file.messages) + 1
    /\ best \in 0 .. Len(file.messages)
    /\ frame \in 0 .. Len(file.messages)

Init ==
    /\ file \in Files
    /\ pc = "idle"
    /\ topic \in Topics
    /\ target = 0
    /\ next = 1
    /\ best = 0
    /\ frame = 0

-----------------------------------------------------------------------------
\* The first channel of the topic in the summary, if it has a schema.
Found(t) ==
    /\ file.summary # "none"
    /\ \E c \in DOMAIN file.channels :
         /\ file.channels[c].topic = t
         /\ file.channels[c].schema # "none"
         /\ \A d \in 1 .. c - 1 : file.channels[d].topic # t

\* get_time_range, when there is one, makes the timestamp absolute and
\* bounds it.
HasTimeRange == file.summary = "full"

TargetTime(ts) ==
    LET absolute == ts + StartTime(file)
    IN  IF ~HasTimeRange THEN ts
        ELSE IF absolute < StartTime(file) THEN StartTime(file)
        ELSE IF absolute > EndTime(file) THEN EndTime(file)
        ELSE absolute

Distance(i) ==
    LET d == file.messages[i].time - target IN IF d < 0 THEN -d ELSE d

\* A mutant: ROS 1 names were forgotten, or others misspelt.
CandidateRos1(i) ==
    ChannelOf(file, i).topic = topic /\ ChannelOf(file, i).schema = "ros1image"

\* The messages that are looked at.  One without a schema passes the test
\* of its name.
Candidate(i) ==
    ChannelOf(file, i).topic = topic /\ ChannelOf(file, i).schema # "other"

\* Deserializing raises, also where schema.name does for want of a schema.
Corrupt(i) ==
    file.messages[i].body = "corrupt" \/ ChannelOf(file, i).schema = "none"

\* What _decode_compressed_image or _decode_raw_image returns.
ImageOf(i) == IF file.messages[i].body = "image" THEN i ELSE 0

IsCloser(i) == best # 0 => Distance(i) < Distance(best)

-----------------------------------------------------------------------------
GetFrame(t, ts) ==
    /\ pc = "idle"
    /\ pc' = IF Found(t) THEN "scan" ELSE "done"
    /\ topic' = t
    /\ target' = TargetTime(ts)
    /\ next' = 1
    /\ best' = 0
    /\ frame' = 0
    /\ UNCHANGED file

HasNext == pc = "scan" /\ next <= Len(file.messages)

\* A mutant: the test comes without its condition.
BreakAlways(b) == pc' = "done"

\* The last statement of the loop, which "continue" passes by.
BreakIfNear(b) == pc' = IF Distance(b) < Tolerance THEN "done" ELSE "scan"

Skip ==
    /\ HasNext
    /\ ~Candidate(next)
    /\ next' = next + 1
    /\ UNCHANGED <<file, pc, topic, target, best, frame>>

NotCloser ==
    /\ HasNext
    /\ Candidate(next)
    /\ ~IsCloser(next)
    /\ next' = next + 1
    /\ BreakIfNear(best)
    /\ UNCHANGED <<file, topic, target, best, frame>>

\* A mutant: without an image the last one is kept.
DecodeKeeps ==
    /\ HasNext
    /\ Candidate(next) /\ IsCloser(next) /\ ~Corrupt(next)
    /\ best' = next
    /\ frame' = IF file.messages[next].body = "image" THEN next ELSE frame
    /\ next' = next + 1
    /\ BreakIfNear(next)
    /\ UNCHANGED <<file, topic, target>>

Decode ==
    /\ HasNext
    /\ Candidate(next) /\ IsCloser(next) /\ ~Corrupt(next)
    /\ best' = next
    /\ frame' = ImageOf(next)
    /\ next' = next + 1
    /\ BreakIfNear(next)
    /\ UNCHANGED <<file, topic, target>>

\* The time was taken before deserializing raised; the frame stays.
DecodeRaises ==
    /\ HasNext
    /\ Candidate(next) /\ IsCloser(next) /\ Corrupt(next)
    /\ best' = next
    /\ next' = next + 1
    /\ UNCHANGED <<file, pc, topic, target, frame>>

EndOfFile ==
    /\ pc = "scan"
    /\ next > Len(file.messages)
    /\ pc' = "done"
    /\ UNCHANGED <<file, topic, target, next, best, frame>>

\* Reading the file raises: 500.
ReadFails ==
    /\ pc = "scan"
    /\ pc' = "failed"
    /\ UNCHANGED <<file, topic, target, next, best, frame>>

\* A mutant: a state that is none.
RespondMisspelt ==
    /\ pc \in {"done", "failed"}
    /\ pc' = "idel"
    /\ UNCHANGED <<file, topic, target, next, best, frame>>

\* The reader is closed and the response sent: the image with the time of
\* best, or 404 without one.
Respond ==
    /\ pc \in {"done", "failed"}
    /\ pc' = "idle"
    /\ UNCHANGED <<file, topic, target, next, best, frame>>

Next ==
    \/ \E t \in Topics, ts \in Timestamps : GetFrame(t, ts)
    \/ Skip
    \/ NotCloser
    \/ Decode
    \/ DecodeRaises
    \/ EndOfFile
    \/ ReadFails
    \/ Respond

Spec == Init /\ [][Next]_vars

-----------------------------------------------------------------------------
(* Safety                                                                  *)

Messages == DOMAIN file.messages

\* extract_frame settles on the message nearest to the requested time, or on
\* the first one within the tolerance among those that deserialize; it
\* settles on none only if there is none or the summary lacks the topic.
NearestOrFirstNear ==
    pc = "done" =>
        IF best = 0
        THEN ~Found(topic) \/ \A i \in Messages : ~Candidate(i)
        ELSE /\ Candidate(best)
             /\ \/ \A i \in Messages : Candidate(i) => Distance(best) <= Distance(i)
                \/ /\ Distance(best) < Tolerance
                   /\ \A i \in 1 .. best - 1 :
                        Candidate(i) /\ ~Corrupt(i) => Distance(i) >= Tolerance

\* The image in the body is that of the message whose time is in the header.
\* It is another one, older and farther from the request, or none, only if
\* the settled message yields no image.
ImageMatchesTimestamp ==
    pc = "done" /\ frame # best =>
        \/ frame = 0 /\ (Corrupt(best) \/ file.messages[best].body # "image")
        \/ /\ Corrupt(best)
           /\ frame < best
           /\ Distance(frame) > Distance(best)

\* The inductive invariant: what holds of the messages before next.
Answering == pc \in {"scan", "done"}

ScanInv ==
    /\ TypeOK
    /\ NearestOrFirstNear
    /\ Answering =>
         /\ best < next
         /\ best = 0 => frame = 0
         /\ best # 0 => Candidate(best)
         /\ frame # best =>
              \/ frame = 0 /\ (Corrupt(best) \/ file.messages[best].body # "image")
              \/ /\ Corrupt(best)
                 /\ frame < best
                 /\ Distance(frame) > Distance(best)
    /\ pc = "scan" => \A i \in 1 .. next - 1 : Candidate(i) =>
         /\ best # 0 /\ Distance(best) <= Distance(i)
         /\ ~Corrupt(i) => Distance(i) >= Tolerance
=============================================================================
