SPECIFICATION Spec
CONSTANTS
    Thread = {t1}
    Target = {echo, player}
    Local = local
    MaxOutbox = 2
    MaxPosts = 2
    MaxRegistrations = 1
SYMMETRY Symmetry
PROPERTY FailedResendIsKept
