CONSTANTS
    s1 = s1
    s2 = s2
    s3 = s3
    s4 = s4
    None = None
    Students = {s1,s2,s3,s4}
    Deliveries = 2
    Acquisitions = 1
    PermanentAfter = 2
    Restarts = 1
CHECK_DEADLOCK FALSE
SPECIFICATION FairSpec
PROPERTIES ImplementsCache EveryTapAnswered
