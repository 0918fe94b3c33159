CONSTANTS
    s1 = s1
    s2 = s2
    k1 = k1
    k2 = k2
    None = None
    Requests = {r1, r2}
    Sessions = {s1, s2}
    Closers = {k1, k2}
    Casts <- AllCasts
    MaxWorkers = 1
    Targets = {"function", "coroutine", "dispatch"}
SPECIFICATION FairSpec
INVARIANTS TypeOK NoPoolIsLost  ClosedMeansDrained LifespanRefusesNobody NothingHangs
PROPERTIES CallsAreAnswered CloseReturns ImplementsPool
CHECK_DEADLOCK FALSE
