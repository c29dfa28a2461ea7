SPECIFICATION FairSpec
CONSTANTS
    NumAccounts = 2
    CountCap = 2
    Configs <- Live
    Faults = {"write"}
    MaxFaults = 1
    MaxEdits = 0
    MaxStops = 0
    MaxCrashes = 0
    MaxLosses = 0
    MaxBatch = 1
    MaxStreak = 1
    Attentive = TRUE
PROPERTIES RetriedWrite
