SPECIFICATION Spec
CONSTANTS
    baseline = baseline
    off = off
    credential = credential
    unknown = unknown
    nothing = nothing
    s1 = s1
    t1 = t1
    Lines <- MCLines
    Blocks <- MCBlocks
    EmptyBlock <- MCEmpty
    Sessions = {s1}
    Stamps = {t1}
    Nothing = nothing
    Requests = {r1, r2}
    Names = {baseline, off, credential}
    Baseline = baseline
    Credential = credential
    Unknown = unknown
    Window = 2
    Days = {2}
    MaxTime = 2
    MaxLines = 5
INVARIANTS FactOfTheLog TimelineAddsUp OffIsMeasured GuardAgreesWithPage
SYMMETRY MCSymmetry
CHECK_DEADLOCK FALSE
