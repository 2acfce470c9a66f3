SPECIFICATION OneLife
CONSTANTS
    e1 = e1
    e2 = e2
    e3 = e3
    NoEntry = NoEntry
    NoIndex = NoIndex
    Ids <- MCThreeIds
    Limits = {0, 1, 2}
    DefaultLimit = 2
    Times <- MCTimes
    MaxRevision = 4
    StepsBack = FALSE
    CanFail = TRUE
    AdminCalls = TRUE
    Legacy = TRUE
SYMMETRY MCSymmetry
CHECK_DEADLOCK FALSE
INVARIANTS
    CopySound
PROPERTIES
    StartKeepsEntry
    RevisionsGrow
