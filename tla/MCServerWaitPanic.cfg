CONSTANTS
    Listeners = {l1}
    Conns = {c1, c2}
    Closers = {}
    Shutters = {s1}
    Bounded = {}
    CtxHandlers = {}
    NoOne = NoOne
SPECIFICATION Spec
CHECK_DEADLOCK FALSE
INVARIANT
    ShutdownNeverPanics
