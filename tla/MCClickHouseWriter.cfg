CONSTANTS
    pskov = pskov
    novgorod = novgorod
    e1 = e1
    e2 = e2
    i1 = i1
    i2 = i2
    Topics = {pskov, novgorod}
    Events = {e1}
    JsonNull = JsonNull
    Garbage = Garbage
    Items = {i1}
    MissingKey = MissingKey
    Content <- MCContent
    NoResult = NoResult
    MaxLog = 2
    MaxRestarts = 1
SPECIFICATION FairSpec
INVARIANTS
    TypeOK
    CommittedIsStored
    ReadIsStoredOrBuffered
PROPERTIES
    CommitNeverRewinds
    ArchiveSpec
    EveryEventStored
CHECK_DEADLOCK FALSE
