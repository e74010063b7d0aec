SPECIFICATION Spec
CONSTANTS
    Cells = {here, c2}
    NoCell = noCell
    Here = here
    HereIsDefault = FALSE
    Requests = {r1, r2}
    Drains = {d1}
    Buffer = 2
    MaxEpoch = 3
    MaxDeletes = 0
    MaxSeq = 2
    MaxRestarts = 0
SYMMETRY Symmetry
CHECK_DEADLOCK FALSE
\* One claim at a time: uncomment another to see its counterexample.
INVARIANTS
    StaleRouterRejected
\*  AlwaysAligned
