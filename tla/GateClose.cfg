SPECIFICATION StuckHandlerSpec
CONSTANTS
    Cells = {here, c2}
    NoCell = noCell
    Here = here
    HereIsDefault = FALSE
    Requests = {r1}
    Drains = {d1}
    Buffer = 2
    MaxEpoch = 3
    MaxDeletes = 1
    MaxSeq = 2
    MaxRestarts = 0
CHECK_DEADLOCK FALSE
PROPERTIES
    CloseReleasesDrains
