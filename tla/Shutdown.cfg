CONSTANTS
    k1 = k1
    k2 = k2
    w1 = w1
    None = None
    Conns = {c1, c2, c3}
    Workers = {w1, w2}
    MaxPending = 0
    RequestQueueSize = 2
    ConnectionTimeout = TRUE
    Senders = {"whole"}
    Closers = {k1, k2, w1}
    Scripts <- ShutdownScripts
    Faults = {}
SPECIFICATION Spec
SYMMETRY ConnSymmetry
INVARIANTS TurnedAwayNeverRuns PermitsConserved GaugesAgree OneOwner BlockTurnsNobodyAway CloseDrains NobodyIsStuck
PROPERTY ImplementsAdmission
