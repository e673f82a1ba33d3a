CONSTANTS
    j1 = j1
    j2 = j2
    p1 = p1
    p2 = p2
    None = None
    Jobs = {j1,j2}
    Passwords = {p1,p2}
    Registrations = 1
    Changes = 1
    Faults = 1
CHECK_DEADLOCK FALSE
SPECIFICATION FairSpec
INVARIANTS NoticePerVersion RejectionsBounded
PROPERTIES QuarantineHasGrounds GuardReachesRow
