CONSTANTS
    p1 = p1
    p2 = p2
    e1 = e1
    e2 = e2
    e3 = e3
    d1 = d1
    v1 = v1
    k1 = k1
    j1 = j1
    None = None
    Projects = {p1, p2}
    Episodes = {e1, e2, e3}
    Datasets = {d1}
    Versions = {v1}
    Tasks = {k1}
    Jobs = {j1}
    ProjectOf <- MCProjectOf
    SizeOf <- MCSizeOf
    RefLists <- MCRefLists
SPECIFICATION Spec
INVARIANTS
    TypeOK
    ReferencesResolve
    VersionMatchesRefs
    AcceptedIsQueued
CHECK_DEADLOCK FALSE
