CONSTANTS
    Callers = {a, b}
    NoOne = NoOne
    Modes = {"idle"}
    OpDeadlines = {0, 2}
    IdleWindow = 1
    CtxTimeouts = {1}
    IdMax = 4
    MaxCalls = 2
    MaxTime = 3
    Mirrors = {FALSE}
    MaxChunks = 2
SPECIFICATION Spec
CHECK_DEADLOCK FALSE
INVARIANT
    CtxBoundsRoundTrip
