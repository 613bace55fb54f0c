SPECIFICATION Spec
CONSTANTS
    Tasks = {t1, t2}
    Processes = {p1, p2}
    Home <- TwoProcesses
    RequestIds = {r1, r2}
    Names = {old, new}
    Values = {v1, v2}
    Days = {today, other}
    Attrs = {"account"}
    Batches <- FaultBatches
    Seeded <- OneSeed
    SeedTop = 1
    OpenDays = {today}
    None = None
    MaxFaults = 2
    r1 = r1  r2 = r2  old = old  new = new  v1 = v1  v2 = v2
    t1 = t1  t2 = t2  t3 = t3  p1 = p1  p2 = p2  today = today  other = other
INVARIANTS
    OneRowPerSuccess
    FaultIsolation
    AttrsKept
