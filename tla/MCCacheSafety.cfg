CONSTANTS
    Requests = {r1, r2, r3}
    Backends <- TwoPasswords
    NoOne = NoOne
    Reaper = Reaper
    Closer = Closer
    Idle = 1
    Prompt = FALSE
    MaxTime = 3
SYMMETRY RequestSymmetry
SPECIFICATION Spec
CHECK_DEADLOCK FALSE
INVARIANTS
    TypeOK
    SessionExclusive
    RightBackend
PROPERTY
    NeverClosedInUse
