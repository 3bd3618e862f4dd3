CONSTANTS
    e1 = e1
    e2 = e2
    r1 = r1
    r2 = r2
    r3 = r3
    l1 = l1
    l2 = l2
    l3 = l3
    l4 = l4
    Episodes <- MCEpisodes
    Requests <- MCRequests
    Locks <- MCLocks
    MaxSize = 1
    MaxFailures = 2
    None = None
SYMMETRY Symmetry
SPECIFICATION Spec
INVARIANTS
    SizeBounded
    LockSafety
    DiskMatchesCache
CHECK_DEADLOCK FALSE
