SPECIFICATION FairUsageSpec
CONSTANTS
    NumRecords = 4
    MaxTwins = 1
    Retention = 3
    Windows = {1, 2}
    PageSize = 1
    PagesSteady = 2
    PagesExtend = 3
    AccountAges = {0, 4}
    Calm = TRUE
    Every = 1
    MaxBackoff = 2
    MaxErrors = 2
    MaxRestarts = 1
INVARIANTS CoveredIsTotal NothingMissing
PROPERTIES Recovers
