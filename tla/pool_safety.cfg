SPECIFICATION Spec
CONSTANTS
    a1 = a1
    a2 = a2
    a3 = a3
    r1 = r1
    r2 = r2
    r3 = r3
    NoAccount = NoAccount
    Accounts <- MCThreeAccounts
    Requests <- MCThree
    MaxInflight = 1
    AccountMaxQueue <- MCUnset
    GlobalMaxInflight = 2
    Targets <- MCOneTarget
    Excludes <- MCAnyExclude
    Cancellable <- MCThree
    Catalogs <- MCGrowing
SYMMETRY MCSymmetry
CHECK_DEADLOCK FALSE
INVARIANTS
    Books
    GlobalLimitHeld
    SleeperHasCandidate
PROPERTIES
    RotationSkipsDiscarded
    LeasesSpec
