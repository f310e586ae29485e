CONSTANTS
    pskov = pskov
    acme = acme
    InStock = InStock
    ConfigTopic = ConfigTopic
    JsonNull = JsonNull
    Broken = Broken
    Unassigned = Unassigned
    Nothing = Nothing
    Regions = {pskov}
    Tenants = {acme}
    Snapshots = {InStock}
    Faults = FALSE
    MaxLog = 1
    MaxJoins = 2
SPECIFICATION Spec
INVARIANTS
    CacheKnowsTenants
CHECK_DEADLOCK FALSE
