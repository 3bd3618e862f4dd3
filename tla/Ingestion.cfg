CONSTANTS
    e1 = e1
    r1 = r1
    r2 = r2
    w1 = w1
    w2 = w2
    Episodes <- MCEpisodes
    Requests <- MCRequests
    Workers <- MCWorkers
    SizeBytes <- MCSizeBytes
    ChunkSize = 2
    MaxReceived = 3
    NoEpisode = NoEpisode
    MaxStream = 2
    MaxFaults = 1
SPECIFICATION FairIngestionSpec
INVARIANTS
    StatusIsFounded
PROPERTY
    LifecycleSpec
    CompletedBecomesReady
CHECK_DEADLOCK FALSE
