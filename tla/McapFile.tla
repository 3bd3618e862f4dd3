------------------------------- MODULE McapFile -------------------------------
(***************************************************************************)
(* What the readers of an MCAP file see of it.  The format is that of the  *)
(* mcap library, outside the repository: a summary with channels, schemas  *)
(* and statistics, and the messages in the order of their log times.       *)
(***************************************************************************)
EXTENDS Integers, Sequences

CONSTANTS
    Topics,
    Files     \* the files that may be read

(* A schema name is that of an image in ROS 2 form (sensor_msgs/msg/...),  *)
(* of one in ROS 1 form, of something else, or missing.  What a message    *)
(* holds is an image; something that deserializes to no image (an          *)
(* unsupported pixel encoding); or bytes that do not deserialize.  A file  *)
(* may lack its whole summary, or its statistics only.                     *)
Schemas == {"image", "ros1image", "other", "none"}
Bodies == {"image", "empty", "corrupt"}

FileType ==
    [channels : Seq([topic : Topics, schema : Schemas]),
     messages : Seq([channel : Nat, time : Nat, body : Bodies]),
     summary : {"full", "nostatistics", "none"}]

ASSUME McapFileAssumption ==
    \A f \in Files :
        /\ f \in FileType
        /\ \A i \in DOMAIN f.messages : f.messages[i].channel \in DOMAIN f.channels
        /\ \A i, j \in DOMAIN f.messages :
             i <= j => f.messages[i].time <= f.messages[j].time

VARIABLE file     \* the file that is read

ChannelOf(f, i) == f.channels[f.messages[i].channel]

\* The statistics of an empty file are zero.
StartTime(f) == IF f.messages = <<>> THEN 0 ELSE f.messages[1].time
EndTime(f) == IF f.messages = <<>> THEN 0 ELSE f.messages[Len(f.messages)].time
=============================================================================
