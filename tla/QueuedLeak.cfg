CONSTANTS
    k1 = k1
    k2 = k2
    w1 = w1
    None = None
    Conns = {c1, c2}
    Workers = {w1}
    MaxPending = 0
    RequestQueueSize = 2
    ConnectionTimeout = TRUE
    Senders = {"whole"}
    Closers = {k1}
    Scripts <- NoWaitOnly
    Faults = {}
SPECIFICATION Spec
INVARIANT QueuedMeansWaiting
