SPECIFICATION FairSpec
CONSTANTS
    Partitions = {p1, p2}
    LogLength = 2
    Poison <- FirstOfSecond
    USE_REDIS = TRUE
    MAXIMUM_RUNNING_TASKS = 3
    BaseTasks = 1
    MaxRequests = 2
    MaxCrashes = 1
    p1 = p1  p2 = p2
INVARIANTS
    LossOnlyByCrash
    DuplicatesOnlyByCrash
    WithinLimits
PROPERTY
    EveryMessageEnds
