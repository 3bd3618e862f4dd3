---------------------------- MODULE MCFrameLoader ----------------------------
(* Two topics of which the first is listed twice, two requests at a time,    *)
(* and up to three calls at positions of which two share a bucket.           *)
EXTENDS FrameLoader

CONSTANTS t1, t2

MCTopicList == <<t1, t2, t1>>
==============================================================================
