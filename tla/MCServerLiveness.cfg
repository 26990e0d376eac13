CONSTANTS
    Listeners = {l1}
    Conns = {c1}
    Closers = {k1}
    Shutters = {s1}
    Bounded = {s1}
    CtxHandlers = {c1}
    NoOne = NoOne
SPECIFICATION FairSpec
CHECK_DEADLOCK FALSE
PROPERTIES
    ServeReturns
    ConnGoroutinesEnd
    BoundedShutdownReturns
    WaiterEnds
