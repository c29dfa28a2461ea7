SPECIFICATION Spec
CONSTANTS
    NumAccounts = 2
    CountCap = 2
    Configs <- Any
    Faults = {"read", "audit", "save", "write", "scan", "tear"}
    MaxFaults = 1
    MaxEdits = 1
    MaxStops = 0
    MaxCrashes = 1
    MaxLosses = 1
    MaxBatch = 1
    MaxStreak = 1
    Attentive = FALSE
INVARIANTS TypeOK ClaimsMatchTrail
PROPERTIES DryRunWritesNothing KnownBeforeWrite AdoptsOwnOnly
