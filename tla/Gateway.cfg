CONSTANTS
    c1 = c1
    c2 = c2
    b1 = b1
    Callers = {c1,c2,b1}
    Interactive = {c1,c2}
    Impatient = {c1}
    MaxConcurrent = 2
    Reserved = 1
    Threshold = 2
    AdaptAt = 1
    CapFloor = 1
    RecoverAfter = 2
    Burst = 1
    MaxLogins = 1
    Demand = 5
CHECK_DEADLOCK FALSE
SPECIFICATION FairSpec
INVARIANTS SlotConservation NoLostWakeup
PROPERTIES AdmissionRespectsCap  EveryCallReturns
