SPECIFICATION FairSpec
CONSTANTS
    Builds = {b1, b2}
    Runners = {1, 2, 3}
    NoOne = none
    Window = 2
    Stale = 3
    MaxEvents = 2
INVARIANTS OneWriter NewestShown
PROPERTIES NoFalseAlarm LiveKept OthersSeen Settles
