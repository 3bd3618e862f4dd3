------------------------------- MODULE Preview -------------------------------
(***************************************************************************)
(* One MCAP file and the two services that read it: the pipeline lists its *)
(* topics and scores it, and then the dataset service serves its frames.   *)
(* Each has its own idea of what an image topic is.                        *)
(***************************************************************************)
EXTENDS FrameExtractor, QualityScorer

previewVars == <<vars, qualityVars>>

PreviewInit == Init /\ QualityInit

\* A client asks for frames of topics that are listed.
PreviewNext ==
    \/ QualityNext /\ UNCHANGED <<pc, topic, target, next, best, frame>>
    \/ phase = "scored" /\ Next /\ UNCHANGED qualityVars

PreviewSpec == PreviewInit /\ [][PreviewNext]_previewVars

-----------------------------------------------------------------------------
\* What the pipeline lists as an image topic with messages, the dataset
\* service has frames of, whatever position is asked for, if every message of
\* the topic has a schema and an image.
ListedImageIsServed ==
    /\ phase = "scored" /\ pc = "done"
    /\ topic \in ImageTopics /\ stats[topic].count > 0
    /\ \A c \in ChannelsOf(topic) : file.channels[c].schema # "none"
    /\ \A i \in Messages : Candidate(i) => file.messages[i].body = "image"
    => frame # 0
=============================================================================
