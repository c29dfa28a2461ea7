SPECIFICATION Spec
CONSTANTS
    Records = {r1, r2, r3}
    QueueCap = 1
    BufCap = 2
    LastDay = 1
    RetentionDays = 1
    SizeCap = 9
    MaxBreaks = 1
    MaxStops = 0
    MaxScans = 0
    MaxEvents = 1
PROPERTY MendedDiskWrites
CHECK_DEADLOCK FALSE
