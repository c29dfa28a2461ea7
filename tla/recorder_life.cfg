SPECIFICATION FairSpec
CONSTANTS
    Records = {r1, r2}
    QueueCap = 1
    BufCap = 2
    LastDay = 2
    RetentionDays = 2
    SizeCap = 1
    MaxBreaks = 1
    MaxStops = 1
    MaxScans = 1
    MaxEvents = 2
INVARIANTS QueuedAddsUp AwaitedIsStored StoredOrReported QuerySeesAll
PROPERTIES ReachesFile
CHECK_DEADLOCK FALSE
