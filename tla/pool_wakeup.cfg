SPECIFICATION FairSpec
CONSTANTS
    a1 = a1
    a2 = a2
    a3 = a3
    r1 = r1
    r2 = r2
    r3 = r3
    NoAccount = NoAccount
    Accounts <- MCAccounts
    Requests <- MCThree
    MaxInflight = 1
    AccountMaxQueue = 3
    GlobalMaxInflight <- MCUnset
    Targets <- MCNoTarget
    Excludes <- MCAnyExclude
    Cancellable <- MCNone
    Catalogs <- MCAnyCatalog
CHECK_DEADLOCK FALSE
INVARIANTS
    NoStranding
PROPERTIES
    QuietPoolServes
