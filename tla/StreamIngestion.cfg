CONSTANTS
    MaxFrames = 3
    Times <- MCTimes
    MaxAge = 2
    TakesNoProject = TRUE
    CallsMayFail = TRUE
SPECIFICATION FairSpec
INVARIANTS
    RecordingIsWindow
    AnnouncedIsStored
PROPERTY
    LegEnds
CHECK_DEADLOCK FALSE
