SPECIFICATION Safety
CONSTANTS
    Call = {c1, c2}
    NoCall = NoCall
    NoSource = NoSource
    MaxSessions = 2
    MaxInFlight = 1
    Connection = {k1, k2}
    Function = {f1, f2}
SYMMETRY Symmetry
INVARIANTS
    TypeOK
    OneCompletion
    NoLeakedEntry
    AnswerIsGenuine
    DisconnectedMeansLost
PROPERTY
    SettledOnce
CHECK_DEADLOCK FALSE
