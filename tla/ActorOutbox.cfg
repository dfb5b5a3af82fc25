SPECIFICATION Spec
CONSTANTS
    Thread = {t1, t2}
    Target = {echo, player}
    Local = local
    MaxOutbox = 2
    MaxPosts = 2
    MaxRegistrations = 2
SYMMETRY Symmetry
INVARIANTS
    TypeOK
    OrderKept
    NoDuplicates
PROPERTY AckIsExact
