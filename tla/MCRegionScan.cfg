CONSTANTS
    r1 = r1
    Requests = {r1}
    Scheduler = Scheduler
    NoEvent = NoEvent
    MaxTime = 2
    MaxTopic = 3
    MaxScans = 2
    MaxCrashes = 1
SPECIFICATION FairSpec
INVARIANTS
    TypeOK
    SuccessIsPublished
    StampNotBeforeData
    SchedulerStampsFollowData
PROPERTIES
    FeedSpec
    SchedulerNeverStops
CHECK_DEADLOCK FALSE
