CONSTANTS
    Requests = {r1, r2}
    Backends <- OneBackend
    NoOne = NoOne
    Reaper = Reaper
    Closer = Closer
    Idle = 1
    Prompt = FALSE
    MaxTime = 3
SPECIFICATION Spec
CHECK_DEADLOCK FALSE
INVARIANT
    BackendSerialized
