CONSTANTS
    Callers = {a, b}
    NoOne = NoOne
    Modes = {"multi", "single", "idle"}
    OpDeadlines = {0, 2}
    IdleWindow = 1
    CtxTimeouts = {1}
    IdMax = 4
    MaxCalls = 2
    MaxTime = 3
    Mirrors = {FALSE, TRUE}
    MaxChunks = 2
SYMMETRY CallerSymmetry
SPECIFICATION Spec
CHECK_DEADLOCK FALSE
INVARIANTS
    PeerTypeOK
    IdsFresh
    MultiComplete
    SingleFirst
    IdlePrefix
    DeadlineOfThisCall
PROPERTIES
    SuccessLeavesStreamClean
