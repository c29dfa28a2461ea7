SPECIFICATION FairSpec
CONSTANTS
    NumRequests = 2
    Times = {0, 3}
    Lags = {0, 2}
    Sessions = {s1}
    NoSession = none
    Counters = {c1}
    NoTokens = zero
    JoinWindow = 2
    UsageWindow = 3
    TTL = 1
    MaxRepeats = 1
INVARIANTS TypeOK JoinedOwn
PROPERTIES KnownIsShown
