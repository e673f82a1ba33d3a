CONSTANTS
    s1 = s1
    s2 = s2
    Students = {s1, s2}
    Subject = Subject
    MaxTries = 2
    Plans <- MCPlans
SPECIFICATION Spec
INVARIANT PageReachable
PROPERTY FollowsTerm
