SPECIFICATION Spec
CONSTANTS
    Cells = {c1, c2, c3}
    NoCell = noCell
    Drivers = {d1, d2}
    FencerKind = "mem"
    HasEvents = TRUE
    MaxCalls = 3
    MaxFaults = 1
    MaxCrashes = 0
    MaxDeletes = 0
SYMMETRY Symmetry
CHECK_DEADLOCK FALSE
INVARIANTS
    IInv
    StaleWritersFenced
    CutIsSealed
    NotSealedAtRest
    NoAbandonedMove
PROPERTIES
    Implements
