SPECIFICATION FairSpec
CONSTANTS
    j1 = j1
    j2 = j2
    x1 = x1
    x2 = x2
    NoRun = NoRun
    Runs <- MCTwoRuns
    Size <- MCSize
    Aborts <- MCTwoAborts
    CanRestart = TRUE
CHECK_DEADLOCK FALSE
INVARIANTS
    RowSound
    RowTruthful
PROPERTIES
    AbortsHold
    TestsEnd
