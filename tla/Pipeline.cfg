CONSTANTS
    e1 = e1
    e2 = e2
    w1 = w1
    w2 = w2
    Episodes <- MCEpisodes
    Workers <- MCWorkers
    MaxStream = 2
    MaxFaults = 2
SPECIFICATION FairSpec
INVARIANTS
    TypeOK
    AckedIsRecorded
    OneHandler
    ReadyIsRecorded
    ThumbnailExists
PROPERTY
    EveryEventTried
CHECK_DEADLOCK FALSE
