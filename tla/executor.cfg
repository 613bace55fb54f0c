SPECIFICATION FairSpec
CONSTANTS
    i1 = i1  i2 = i2  i3 = i3  i4 = i4
    Items = {i1, i2, i3, i4}
    Bound = 0
    MaxWorkers = 2
    NoItem = NoItem
    MaxSpawnFaults = 1
INVARIANTS
    TypeOK
    PermitsBalance
    WorkBounded
PROPERTY SubmittedEnds
