CONSTANTS
    r1 = r1
    ai92 = ai92
    ai95 = ai95
    a92 = a92
    a95 = a95
    Region = Region
    Requests = {r1}
    Scheduler = Scheduler
    Items = {a92, a95}
    FuelOf <- MCFuelOf
    Listed <- MCListed
    Offer <- MCOffer
    NoFuel = NoFuel
    MaxTime = 2
    MaxScans = 2
    MaxTopic = 2
    MaxStations = 12
SPECIFICATION Spec
INVARIANT PageIsCurrent
CHECK_DEADLOCK FALSE
