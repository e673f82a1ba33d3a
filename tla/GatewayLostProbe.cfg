CONSTANTS
    c1 = c1
    c2 = c2
    b1 = b1
    Callers = {c1,c2,b1}
    Interactive = {c1,c2}
    Impatient = {}
    MaxConcurrent = 2
    Reserved = 1
    Threshold = 1
    AdaptAt = 3
    CapFloor = 2
    RecoverAfter = 2
    Burst = 1
    MaxLogins = 1
    Demand = 6
CHECK_DEADLOCK FALSE
SPECIFICATION Spec
INVARIANTS NoLostProbe
