SPECIFICATION Spec
CONSTANTS
    MaxRounds = 1
    MinChars = 2
    MaxSilent = 1
    MaxIdle = 1
    LineCap = 1
    OutCap = 2
    SnapshotLen = 2
    MaxPieces = 3
CHECK_DEADLOCK FALSE
INVARIANTS
    Delivered
PROPERTIES
    AllEnd
    AnswerSpec
