SPECIFICATION Spec
CONSTANTS
    a1 = a1
    a2 = a2
    r1 = r1
    r2 = r2
    NoAccount = NoAccount
    NoRequest = NoRequest
    Accounts <- MCAccounts
    Requests <- MCRequests
    MaxInflight = 2
    Targets <- MCTargets
    Start <- MCStart
    MaxToken <- MCMaxToken
SYMMETRY MCSymmetry
CHECK_DEADLOCK FALSE
INVARIANTS
    Accounted
    TokenOwn
    RenewsNewest
