CONSTANTS
    w1 = w1
    w2 = w2
    u1 = u1
    None = None
    Workers = {w1,w2}
    Users = {u1}
    Events = 2
    Batch = 2
    MaxAttempts = 2
    Faults = 1
CHECK_DEADLOCK FALSE
SYMMETRY WorkerSymmetry
SPECIFICATION Spec
INVARIANTS ClaimExclusive DuplicatesExcused SentWasShown GivenUpAfterTries
