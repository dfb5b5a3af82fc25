SPECIFICATION Spec
CONSTANTS
    Call = {c1, c2}
    NoCall = NoCall
    NoSource = NoSource
    MaxSessions = 2
    MaxInFlight = 1
    Connection = {k1}
    Function = {f1}
PROPERTY
    ImplementsContract
CHECK_DEADLOCK FALSE
