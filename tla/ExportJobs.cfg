CONSTANTS
    j1 = j1
    j2 = j2
    w1 = w1
    w2 = w2
    e1 = e1
    e2 = e2
    e3 = e3
    e4 = e4
    spelt2 = spelt2
    own1 = own1
    own2 = own2
    Jobs <- MCJobs
    Workers <- MCWorkers
    Orders <- MCOrders
    Canonical <- MCCanonical
    Stored <- MCStored
    Loadable <- MCLoadable
    Size <- MCSize
    SidecarSize = 1
    ShardSize = 4
    TargetPrefixes <- MCTargetPrefixes
    DefaultPrefix <- MCDefaultPrefix
    CallsMayFail = TRUE
    MaxFaults = 1
    MaxDeleted = 1
SPECIFICATION FairSpec
INVARIANTS
    ExportIsWhole
    ProgressIsHonest
    AckedIsCompleted
PROPERTY
    EveryJobSettles
CHECK_DEADLOCK FALSE
