CONSTANTS
    Listeners = {l1, l2}
    Conns = {c1, c2}
    Closers = {k1}
    Shutters = {s1}
    Bounded = {s1}
    CtxHandlers = {}
    NoOne = NoOne
SYMMETRY ServerSymmetry
SPECIFICATION Spec
CHECK_DEADLOCK FALSE
INVARIANTS
    TypeOK
    NoLeakedConn
    NoLeakedListener
    GracefulDrain
    HandlersCancelled
PROPERTIES
    StopReportsServerClosed
