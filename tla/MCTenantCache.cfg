CONSTANTS
    acme = acme
    beta = beta
    garbage = garbage
    Tenants = {acme, beta}
    Stamps = {1, 2}
    Unusable = {garbage}
    MaxLog = 4
    MaxJoins = 3
SPECIFICATION FairSpec
INVARIANTS
    TypeOK
    CacheIsNewestRead
PROPERTY RemovalReachesCache
CHECK_DEADLOCK FALSE
