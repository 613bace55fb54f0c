\* The function returns: no step follows.
CHECK_DEADLOCK FALSE
SPECIFICATION Spec
CONSTANTS
    Services = {advisor, puptoo}
    Sources = {archive}
    Undefined = undefined
    None = None
    MaxRows = 3
    LastDate = 2
    Inputs <- SmallDumps
INVARIANT BucketDurations
