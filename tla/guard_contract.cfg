SPECIFICATION FairSpec
CONSTANTS
    NumAccounts = 2
    CountCap = 2
    Configs <- Live
    Faults = {}
    MaxFaults = 0
    MaxEdits = 2
    MaxStops = 1
    MaxCrashes = 0
    MaxLosses = 0
    MaxBatch = 1
    MaxStreak = 1
    Attentive = TRUE
PROPERTIES ImplementsContract MinEnabledKept OneEntryPerWrite
