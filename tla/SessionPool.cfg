CONSTANTS
    j1 = j1
    j2 = j2
    u1 = u1
    u2 = u2
    u3 = u3
    None = None
    Jobs = {j1,j2}
    Users = {u1,u2,u3}
    Entries = {1,2,3,4}
    Cap = 1
    Demand = 4
CHECK_DEADLOCK FALSE
SPECIFICATION FairSpec
INVARIANTS ClientExclusive PoolBounded
PROPERTIES ClosedByOwnFault EveryCallEnds
