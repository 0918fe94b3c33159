CONSTANTS
    s1 = s1
    s2 = s2
    k1 = k1
    k2 = k2
    None = None
    Requests = {r1, r2}
    Sessions = {s1, s2}
    Closers = {k1, k2}
    Casts <- LifespanCast
    MaxWorkers = 1
    Targets = {"dispatch"}
SPECIFICATION Spec
INVARIANT ShutdownWaitsForAll
CHECK_DEADLOCK FALSE
