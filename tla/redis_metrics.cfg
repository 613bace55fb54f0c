SPECIFICATION CachedFairSpec
CONSTANTS
    Processes = {p1}
    Home <- OneProcess
    RequestIds = {r1, r2}
    Names = {old, new, received, success}
    Values = {v1}
    Days <- Days4
    Attrs = {"account"}
    Seeded <- Known1
    SeedTop = 2
    OpenDays <- Days4
    None = None
    NoRow = NoRow
    Received = received
    Success = success
    r1 = r1  r2 = r2  old = old  new = new  received = received  success = success
    v1 = v1  t1 = t1  t2 = t2  p1 = p1
    Tasks = {t1}
    Batches <- SerialBatches
    MaxFaults = 1
    MaxExpiries = 0
    LastPosition = 2
    METRIC_FETCH_RETRY_COUNT = 1
    DISABLE_PROMETHEUS = FALSE
INVARIANTS
    CachedAttrsKept
    ElapsedOfPair
    MetricsCounted
PROPERTY
    CachedSettles
