SPECIFICATION Safety
CONSTANTS
    HandshakeAnswers = {"ok", "refused"}
    MaxSessions = 3
    MaxAttempts = 2
    MaxData = 2
INVARIANT ReceivesOnAChannel
