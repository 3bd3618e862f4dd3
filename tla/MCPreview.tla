------------------------------ MODULE MCPreview ------------------------------
(* Files of up to three messages on up to two channels; the second topic is  *)
(* there to be skipped, or to make a second channel of the first one.        *)
EXTENDS Preview

CONSTANTS cam, imu

MCTopics == {cam, imu}

Channel(t, s) == [topic |-> t, schema |-> s]
ChannelLists ==
    {<<Channel(cam, "image"), Channel(imu, "other")>>,
     <<Channel(imu, "ros1image"), Channel(cam, "image")>>,
     <<Channel(cam, "ros1image"), Channel(cam, "image")>>,
     <<Channel(cam, "image"), Channel(cam, "none")>>,
     <<Channel(imu, "other"), Channel(imu, "other")>>}

\* All messages of channel 2 but one kind hold images, to keep the set small.
Message(t) ==
    {[channel |-> 1, time |-> t, body |-> b] : b \in Bodies}
        \cup {[channel |-> 2, time |-> t, body |-> "image"]}

MessageLists ==
    {<<>>, <<[channel |-> 1, time |-> 2, body |-> "image"]>>}
        \cup {<<a, b>> : a \in Message(1), b \in Message(4)}
        \cup {<<a, b, c>> : a \in Message(1), b \in Message(3), c \in Message(4)}

MCFiles ==
    [channels : ChannelLists, messages : MessageLists, summary : {"full"}]
        \cup [channels : ChannelLists,
              messages : {<<[channel |-> 1, time |-> 2, body |-> "image"]>>},
              summary : {"none", "nostatistics"}]

MCTimestamps == {-1, 1, 2, 5}
MCProjectSchemas ==
    {[expected |-> <<>>, required |-> <<>>],
     [expected |-> (cam :> 67) @@ (imu :> 67), required |-> <<cam, cam>>],
     [expected |-> (cam :> 67) @@ (imu :> 0), required |-> <<cam>>],
     [expected |-> (cam :> 30), required |-> <<cam>>]}

\* As Python has it; one message in three seconds is a tenth more than 0.30 Hz.
MCBorderPasses == {<<27, 30>>}
=============================================================================
