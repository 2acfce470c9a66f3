SPECIFICATION Spec
CONSTANTS
    a1 = a1
    a2 = a2
    None = None
    Accounts <- MCAccounts
    MaxAttempts = 2
    RetryMax = 1
    MaxParts = 3
    MaxBlocks = 2
CHECK_DEADLOCK FALSE
INVARIANTS
    SessionsOwned
    AnswerRecorded
    CallsOnce
PROPERTIES
    ClientSpec
