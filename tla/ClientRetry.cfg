CONSTANTS
    None = None
    Procs = {p1, p2}
    Users = {u1}
    MaxCalls = 1
    MaxDeaths = 1
SPECIFICATION Spec
INVARIANT CallsRunOnce
CHECK_DEADLOCK FALSE
