SPECIFICATION Spec
CONSTANTS
    Producer = {p1, p2}
    NumSinks = 2
    Routing <- MCRouting
    Capacity = 2
    BatchSize = 2
    MaxBatches = 1
    MaxRecords = 3
CHECK_DEADLOCK FALSE
INVARIANTS
    TypeOK
    RingIsAQueue
    NothingStuck
    DeliveredInOrder
    ClosedIsComplete
PROPERTIES
    ShutdownEnds
