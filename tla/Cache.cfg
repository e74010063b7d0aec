SPECIFICATION CacheSpec
CONSTANTS
    Cells = {here, c2}
    NoCell = noCell
    Here = here
    Default = here
    Requests = {r1, r2}
    Freshness = TRUE
    Buffer = 1
    MaxEpoch = 3
    MaxDeletes = 1
    MaxFaults = 1
SYMMETRY Symmetry
CHECK_DEADLOCK FALSE
INVARIANTS
    AdmitsAtKnownEpoch
    ConvergesUnlessMissed
