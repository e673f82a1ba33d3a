CONSTANTS
    Keys = {k1}
    NoKey = NoKey
    InteractiveWorkers = 1
    BackgroundWorkers = 1
    SharedWorkers = 0
    MaxDepth = 1
    MaxRetries = 2
    MaxRequests = 2
    MaxCancels = 1
    k1 = k1
CHECK_DEADLOCK FALSE
SPECIFICATION FairSpec
INVARIANTS JoinsLiveJob SingleFlight PendingIsAlive TapAdmitted
PROPERTIES UnkeyedAnswered
