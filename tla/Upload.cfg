CONSTANTS
    e1 = e1
    e2 = e2
    r1 = r1
    r2 = r2
    r3 = r3
    Episodes <- MCEpisodes
    Requests <- MCRequests
    SizeBytes <- MCSizeBytes
    ChunkSize = 2
    MaxReceived = 3
    NoEpisode = NoEpisode
SPECIFICATION Spec
SYMMETRY Symmetry
INVARIANTS
    TypeOK
    CompletedHasFile
    ProcessingHasFile
    PublishedIsReadable
PROPERTY
    ChunkRemovalIsSafe
CHECK_DEADLOCK FALSE
