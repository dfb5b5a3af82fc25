SPECIFICATION Spec
CONSTANTS
    Sub = {s1, s2, s3}
    Stock = 2
    MaxInt = 2
    MaxObjects = 3
    MaxUses = 2
INVARIANT TypeOK
PROPERTIES
    OnlineActorStays
    ConfirmedIsFound
CHECK_DEADLOCK FALSE
