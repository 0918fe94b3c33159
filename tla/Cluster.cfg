CONSTANTS
    None = None
    Procs = {p1, p2}
    Users = {u1, u2}
    MaxCalls = 1
    MaxDeaths = 2
SPECIFICATION FairSpec
INVARIANTS TypeOK OneDeathIsHidden TwiceOnlyAfterDeath
PROPERTIES CallsEnd ImplementsCalls
CHECK_DEADLOCK FALSE
