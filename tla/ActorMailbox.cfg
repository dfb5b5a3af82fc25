SPECIFICATION Spec
CONSTANTS
    Thread = {t1, t2}
    ActorId = 3
    SubCount = 2
    kMaxPendingPerActor = 1
    MaxEntries = 2
    MaxMessages = 2
CHECK_DEADLOCK FALSE
INVARIANTS
    TypeOK
    CounterExact
    OneThread
    PerSenderFifo
    StaleNeedsOverlap
PROPERTIES
    AcceptedIsHandled
