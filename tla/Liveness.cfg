CONSTANTS
    k1 = k1
    k2 = k2
    w1 = w1
    None = None
    Conns = {c1, c2}
    Workers = {w1}
    MaxPending = 0
    RequestQueueSize = 2
    ConnectionTimeout = TRUE
    Senders = {"whole", "stalled"}
    Closers = {k1, w1}
    Scripts <- LivenessScripts
    Faults = {}
SPECIFICATION FairSpec
PROPERTIES AcceptedIsClosed BacklogIsTaken QueuedIsServed CallsReturn PermitsComeBack
