CONSTANTS
    MaxFrames = 1
    Times <- MCTimes
    MaxAge = 2
    TakesNoProject = FALSE
    CallsMayFail = FALSE
SPECIFICATION Spec
INVARIANT
    LastFrameSeals
CHECK_DEADLOCK FALSE
