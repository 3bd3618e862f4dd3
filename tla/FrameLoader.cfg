CONSTANTS
    t1 = t1
    t2 = t2
    TopicList <- MCTopicList
    Positions = {0, 1, 2}
    BucketSize = 2
    MaxConcurrent = 2
    MaxCalls = 3
SPECIFICATION LoaderSpec
INVARIANTS
    LoadingIsTrue
    ShownIsOneMoment
PROPERTIES
    StaleCallsStartNothing
CHECK_DEADLOCK FALSE
