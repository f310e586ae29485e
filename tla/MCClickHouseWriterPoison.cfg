CONSTANTS
    pskov = pskov
    novgorod = novgorod
    e1 = e1
    e2 = e2
    i1 = i1
    i2 = i2
    Topics = {pskov, novgorod}
    Events = {e1, e2}
    JsonNull = JsonNull
    Garbage = Garbage
    Items = {i1, i2}
    MissingKey = MissingKey
    Content <- MCPoisonedContent
    NoResult = NoResult
    MaxLog = 1
    MaxRestarts = 0
SPECIFICATION FairSpec
PROPERTY WellFormedEventStored
CHECK_DEADLOCK FALSE
