SPECIFICATION FairSpec
CONSTANTS
    NumAccounts = 2
    CountCap = 1
    NumRequests = 4
    SeenLimit = 3
    Window = 2
    Edited = {1}
    Configs <- MCConfigs
    MaxEvents = 1
INVARIANTS CountedOnce StreakIsRun
PROPERTIES SummaryIsLoop EveryAnswerCounts
