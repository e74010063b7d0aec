SPECIFICATION RecoverySpec

CONSTANTS
    Cells = {c1, c2}
    NoCell = noCell
    Drivers = {d1, d2}
    FencerKind = "gorm"
    HasEvents = TRUE
    MaxCalls = 2
    MaxFaults = 1
    MaxCrashes = 1
    MaxDeletes = 1

CHECK_DEADLOCK FALSE

PROPERTIES
    Terminates
    Recovers
