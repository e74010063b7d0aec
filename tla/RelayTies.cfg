SPECIFICATION Spec
CONSTANTS
    Events = {1, 2}
    NoEvent = noEvent
    Relays = {r1}
    NoRelay = noRelay
    Poison = {}
    SerialTx = TRUE
    CoarseClock = TRUE
    Sequenced = FALSE
    LeaderKind = "pg"
    MaxAttempts = 2
    Limit = 2
    MaxFaults = 0
    MaxExits = 0
    MaxLosses = 0
    MaxDrops = 0
SYMMETRY Symmetry
INVARIANTS
    InCommitOrder
