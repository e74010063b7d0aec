SPECIFICATION FairSpec
CONSTANTS
    Cells = {here, c2}
    NoCell = noCell
    Here = here
    HereIsDefault = TRUE
    Requests = {r1, r2}
    Drains = {d1}
    Buffer = 1
    MaxEpoch = 3
    MaxDeletes = 1
    MaxSeq = 2
    MaxRestarts = 0
CHECK_DEADLOCK FALSE
PROPERTIES
    CutoffHolds
    DrainCompletes
