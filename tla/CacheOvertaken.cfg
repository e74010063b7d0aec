SPECIFICATION CacheSpec
CONSTANTS
    Cells = {here, dflt}
    NoCell = noCell
    Here = here
    Default = dflt
    Requests = {r1, r2}
    Freshness = FALSE
    Buffer = 2
    MaxEpoch = 3
    MaxDeletes = 0
    MaxFaults = 0
SYMMETRY Symmetry
CHECK_DEADLOCK FALSE
INVARIANTS
    CacheConverges
