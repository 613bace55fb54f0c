\* The function returns: no step follows.
CHECK_DEADLOCK FALSE
SPECIFICATION Spec
CONSTANTS
    Services = {advisor, puptoo}
    Sources = {archive}
    Undefined = undefined
    None = None
    MaxRows = 4
    LastDate = 2
    Inputs <- SmallDumps
INVARIANTS
    TypeOK
    TotalTime
    NeverTooLong
    ExactUnlessShared
