SPECIFICATION FairSpec
CONSTANTS
    NumLogs = 2
    NumChunks = 2
    MaxFacts = 1
    SeenCap = 2
    SeenTrim = 1
    Deletes <- Either
    Faults = {"read", "store", "unlink"}
    MaxFaults = 1
    MaxStops = 1
    MaxCrashes = 1
INVARIANTS StoredFirst NoFactTwice
PROPERTIES ChannelKnown
