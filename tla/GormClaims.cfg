SPECIFICATION Spec
CONSTANTS
    Cells = {c1, c2}
    NoCell = noCell
    Drivers = {d1, d2}
    FencerKind = "gorm"
    HasEvents = TRUE
    MaxCalls = 4
    MaxFaults = 0
    MaxCrashes = 0
    MaxDeletes = 0
SYMMETRY Symmetry
CHECK_DEADLOCK FALSE
\* One claim at a time: uncomment another to see its counterexample.
INVARIANTS
    CutIsSealed
\*  NotSealedAtRest
