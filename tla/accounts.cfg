SPECIFICATION Spec
CONSTANTS
    k1 = k1
    k2 = k2
    k3 = k3
    a1 = a1
    a2 = a2
    None = None
    Keys <- MCKeys
    Accounts <- MCAccounts
    N = 2
    Environments <- MCEnvironments
    Devices <- MCDevices
    Pools <- MCPools
    CSVs <- MCCSVs
    MaxAccounts = 1
    Workers = 1
    MaxQueue = 1
    MaxEdits = 1
CHECK_DEADLOCK FALSE
INVARIANTS
    FreshTokens
    HarvestsSound
PROPERTIES
    MuteTimed
    LoginsEnd
    PoolKept
