CONSTANTS
    k1 = k1
    k2 = k2
    w1 = w1
    None = None
    Conns = {c1, c2, c3, c4}
    Workers = {w1, w2}
    MaxPending = 1
    RequestQueueSize = 2
    ConnectionTimeout = TRUE
    Senders = {"whole", "stalled"}
    Closers = {}
    Scripts <- NoScripts
    Faults = {}
SPECIFICATION Spec
SYMMETRY Symmetry
INVARIANT OutstandingWithinCapacity
PROPERTY RefusedOnlyWhenFull
