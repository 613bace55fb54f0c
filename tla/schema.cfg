SPECIFICATION Spec
CONSTANTS
    Names = {ingress, success, extra}
    BulkServices <- TwoServices
    BulkSources <- OneSource
    BulkStatuses <- OneStatus
    Stamp <- MonthEnd
    FirstDay = 2
    RETENTION_DAYS = 2
    MaxStatuses = 2
    MaxId = 4
    ingress = ingress  success = success  extra = extra
INVARIANTS
    NamesKept
    SequencesAhead
    PartitionsHold
