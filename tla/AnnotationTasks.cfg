CONSTANTS
    t1 = t1
    m1 = m1
    a1 = a1
    k1 = k1
    r1 = r1
    r2 = r2
    r3 = r3
    Tasks <- MCTasks
    Managers <- MCManagers
    Annotators <- MCAnnotators
    Marks <- MCMarks
    Requests <- MCRequests
    MaxEvents = 2
    TakesAnyEpisode = TRUE
    None = None
SPECIFICATION Spec
SYMMETRY Symmetry
INVARIANTS
    TypeOK
    StateIsBacked
    EventsAreApprovals
PROPERTY
    FreshFollowsStates
CHECK_DEADLOCK FALSE
