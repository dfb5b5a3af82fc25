SPECIFICATION Spec
CONSTANTS
    Sub = {s1, s2}
    Stock = 2
    MaxInt = 2
    MaxObjects = 1
    MaxUses = 2
INVARIANT UsedIsGone
CHECK_DEADLOCK FALSE
