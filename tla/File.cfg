SPECIFICATION FairSpec
CONSTANTS
    Procs = {p1, p2}
    Tenants = {a, b}
    SeedFails = FALSE
    MaxCalls = 4
    MaxDeaths = 1
CHECK_DEADLOCK FALSE
PROPERTIES
    Implements
    CallsReturn
    WatchCatchesUp
