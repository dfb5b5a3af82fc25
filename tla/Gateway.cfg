SPECIFICATION Spec
CONSTANTS
    Request = {1, 2, 3}
    s1 = s1
    s2 = s2
    Server <- MCServer
    TypeOf <- MCTypeOf
    None = None
    NoHandler = {"Player"}
    Handshake = Handshake
    Refusal = Refusal
    MaxChanges = 2
    MaxFaults = 2
CHECK_DEADLOCK FALSE
INVARIANTS
    TypeOK
    DisconnectedMeansLost
PROPERTIES
    ImplementsContract
    PoolRecovers
