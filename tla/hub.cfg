SPECIFICATION FairSpec
CONSTANTS
    Subscriber = {s1}
    Publisher = {mutex, monitor}
    Owner = mutex
    Hubs = {"core", "sysproxy"}
    Buffer = 2
    MaxEvents = 4
    NoEvent = NoEvent
INVARIANTS NoLoss
PROPERTIES FeedRefined LeaverRemoved Delivered
CHECK_DEADLOCK FALSE
