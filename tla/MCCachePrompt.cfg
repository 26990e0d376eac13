CONSTANTS
    Requests = {r1, r2, r3}
    Backends <- TwoPasswords
    NoOne = NoOne
    Reaper = Reaper
    Closer = Closer
    Idle = 1
    Prompt = TRUE
    MaxTime = 2
SPECIFICATION FairSpec
CHECK_DEADLOCK FALSE
INVARIANTS
    BackendSerialized
    NoOrphan
PROPERTY
    CloseReleases
