CONSTANTS
    ai92 = ai92
    a92 = a92
    Region = Region
    Requests = {}
    Scheduler = Scheduler
    NoEvent = NoEvent
    Items = {a92}
    MissingKey = MissingKey
    FuelOf <- MCFuelOf
    Catalogue <- MCCatalogue
    Offer <- MCOffer
    NoFuel = NoFuel
    NoResult = NoResult
    JsonNull = JsonNull
    Garbage = Garbage
    MaxTime = 1
    MaxScans = 2
    MaxTopic = 2
    MaxCrashes = 1
    MaxRestarts = 0
    MaxStations = 1
SPECIFICATION Spec
INVARIANTS
    PageNeverGoesBack
    CommittedIsVisible
PROPERTIES
    PipelineSpec
CHECK_DEADLOCK FALSE
