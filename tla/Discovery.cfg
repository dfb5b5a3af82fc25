SPECIFICATION Spec
CONSTANTS
    Server = {s1, s2}
    Steady = {s2}
    MaxFaults = 2
    MaxUnread = 1
CHECK_DEADLOCK FALSE
INVARIANTS
    TypeOK
    NoGhost
    CaughtUp
PROPERTIES
    DeadForgotten
