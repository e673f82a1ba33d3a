SPECIFICATION StudentSpec
CONSTANTS
    Workers = {w1, w2}
    Sweep = {w1}
    Dropdown = 1
    Opaque = {1, 3}
    DetailLimit = 1
    Standing = 2
    MaxNotices = 3
    MaxEdits = 1
    MaxUsers = 1
    NoBody = NoBody
INVARIANTS BacklogIsSilent BodyOfItsId NoHalfRegistration
PROPERTIES Converges
CHECK_DEADLOCK FALSE
