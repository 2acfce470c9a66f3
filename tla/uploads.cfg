SPECIFICATION Spec
CONSTANTS
    r1 = r1
    r2 = r2
    a1 = a1
    a2 = a2
    book = book
    pic = pic
    doc = doc
    None = None
    Requests <- MCTwo
    Accounts <- MCAccounts
    Wants <- MCWants
    Slots = 1
    MaxAttempts = 2
    MaxPolls = 2
    MaxInline = 2
    CacheTTL = 1
    MaxClock = 1
CHECK_DEADLOCK FALSE
INVARIANTS
    SlotsComeBack
    OwnFiles
    UploadedOnce
PROPERTIES
    AllReturn
