CONSTANTS
    r1 = r1
    r2 = r2
    None = None
    Rows = {r1, r2}
    Batch = 1
    SchedulerDepth = 2
    Limit = 2
    MaxRetries = 1
    Jobs = 2
    Faults = 1
CHECK_DEADLOCK FALSE
SPECIFICATION FairSpec
INVARIANTS OneJobPerRow DisabledAfterFailures
PROPERTY DueServed
