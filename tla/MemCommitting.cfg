SPECIFICATION FairSpec
CONSTANTS
    Cells = {c1, c2}
    NoCell = noCell
    Drivers = {d1, d2}
    FencerKind = "mem"
    HasEvents = TRUE
    MaxCalls = 3
    MaxFaults = 1
    MaxCrashes = 0
    MaxDeletes = 0
CHECK_DEADLOCK FALSE
PROPERTIES
    CommittingFinishesForward
