SPECIFICATION ServiceSpec
CONSTANTS
    Tasks = {t1}
    Processes = {p1}
    Home <- OneProcess
    RequestIds = {r1, r2}
    Names = {old, new}
    Values = {v1}
    Days <- Days4
    Attrs = {}
    Batches <- ServiceBatches
    Seeded <- OneSeed
    SeedTop = 1
    OpenDays <- FirstTwo
    None = None
    MaxFaults = 0
    RETENTION_DAYS = 1
    FirstDay = 2
    LastDay = 3
    MaxNights = 1
    Clients = {probe, user}
    Queries <- UserQueries
    MaxOutages = 2
    MaxRequests = 1
    Probe = probe
    RETRY_MAX = 2
    USE_REDIS = FALSE
    DISABLE_PROMETHEUS = FALSE
    r1 = r1  r2 = r2  old = old  new = new  v1 = v1  t1 = t1  probe = probe  user = user  p1 = p1
INVARIANTS
    AnswersTrue
    NoKeyError
    HealthFailsOnOutage
    CleanupLoss
PROPERTY
    OnlyOldDeleted
