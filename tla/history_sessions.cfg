SPECIFICATION SessionSpec
CONSTANTS
    e1 = e1
    e2 = e2
    e3 = e3
    s1 = s1
    s2 = s2
    NoEntry = NoEntry
    NoIndex = NoIndex
    NoSession = NoSession
    Ids <- MCIds
    Sessions <- MCSessions
    OfResponses <- MCOfResponses
    Limits = {0, 1, 2}
    DefaultLimit = 2
    Times <- MCTimes
    MaxRevision = 4
    StepsBack = FALSE
    CanFail = TRUE
    AdminCalls = TRUE
    Legacy = TRUE
SYMMETRY MCSymmetry
CHECK_DEADLOCK FALSE
INVARIANTS
    Durable
    EntriesOwned
    OutcomeRecorded
