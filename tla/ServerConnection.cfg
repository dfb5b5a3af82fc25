SPECIFICATION Spec
CONSTANTS
    HandshakeAnswers = {"ok", "refused"}
    MaxSessions = 3
    MaxAttempts = 2
    MaxData = 2
INVARIANTS
    TypeOK
    AuthenticatedInThisSession
    NeverHalfOpen
    NoStaleHandshake
PROPERTIES
    FailureClosesItsOwnSession
    EventuallyAuthenticated
CHECK_DEADLOCK FALSE
