SPECIFICATION Spec
CONSTANTS
    Events = {1}
    NoEvent = noEvent
    Relays = {r1, r2, r3}
    NoRelay = noRelay
    Poison = {}
    SerialTx = TRUE
    CoarseClock = FALSE
    Sequenced = FALSE
    LeaderKind = "single"
    MaxAttempts = 2
    Limit = 2
    MaxFaults = 0
    MaxExits = 1
    MaxLosses = 0
    MaxDrops = 0
SYMMETRY Symmetry
INVARIANTS
    SingleLeader
