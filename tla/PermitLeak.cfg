CONSTANTS
    k1 = k1
    k2 = k2
    w1 = w1
    None = None
    Conns = {c1, c2, c3}
    Workers = {w1}
    MaxPending = 0
    RequestQueueSize = 3
    ConnectionTimeout = TRUE
    Senders = {"whole"}
    Closers = {}
    Scripts <- NoScripts
    Faults = {"thread_start"}
SPECIFICATION Spec
INVARIANT OutstandingWithinCapacity
CHECK_DEADLOCK FALSE
