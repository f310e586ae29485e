CONSTANTS
    pskov = pskov
    acme = acme
    InStock = InStock
    ConfigTopic = ConfigTopic
    JsonNull = JsonNull
    Broken = Broken
    Unassigned = Unassigned
    Nothing = Nothing
    Regions = {pskov}
    Tenants = {acme}
    Snapshots = {InStock}
    Faults = TRUE
    MaxLog = 2
    MaxJoins = 2
SPECIFICATION FairSpec
INVARIANTS
    TypeOK
    EverySnapshotTried
    RepeatsNeedRejoin
    StepsBackAreExplained
    CacheFollowsReads
PROPERTIES
    PushesSpec
    EverySnapshotSettled
CHECK_DEADLOCK FALSE
