CONSTANTS
    k1 = k1
    k2 = k2
    w1 = w1
    None = None
    Conns = {c1, c2, c3}
    Workers = {w1, w2}
    MaxPending = 0
    RequestQueueSize = 2
    ConnectionTimeout = TRUE
    Senders = {"whole", "stalled", "trickling"}
    Closers = {}
    Scripts <- NoScripts
    Faults = {"handle_error", "thread_start"}
SPECIFICATION Spec
SYMMETRY Symmetry
INVARIANTS TypeOK EveryConnectionCounted NoPermitIsLost LeaksShow
CHECK_DEADLOCK FALSE
