CONSTANTS
    s1 = s1
    s2 = s2
    s3 = s3
    w1 = w1
    None = None
    Students = {s1,s2,s3}
    Warms = {w1}
    Deliveries = 2
    Acquisitions = 1
    PermanentAfter = 2
    Restarts = 1
    Interventions = 1
CHECK_DEADLOCK FALSE
SPECIFICATION FairSpec
INVARIANTS OneAcquisition
PROPERTIES TerminalStays ImplementsCache EveryRequestAnswered
