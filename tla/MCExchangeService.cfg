CONSTANTS
    Callers = {a, b}
    NoOne = NoOne
    Modes = {"multi", "single", "idle"}
    OpDeadlines = {0}
    IdleWindow = 1
    CtxTimeouts = {1}
    IdMax = 9
    MaxCalls = 2
    MaxTime = 2
    Mirrors = {FALSE}
    MaxChunks = 1
SPECIFICATION FairSpec
CHECK_DEADLOCK FALSE
PROPERTIES
    CloseUnblocks
    ImplementsService
