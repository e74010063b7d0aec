SPECIFICATION Spec
CONSTANTS
    Events = {1, 2, 3}
    NoEvent = noEvent
    Relays = {r1, r2}
    NoRelay = noRelay
    Poison = {2}
    SerialTx = TRUE
    CoarseClock = FALSE
    Sequenced = FALSE
    LeaderKind = "pg"
    MaxAttempts = 2
    Limit = 2
    MaxFaults = 1
    MaxExits = 1
    MaxLosses = 1
    MaxDrops = 0
SYMMETRY Symmetry
INVARIANTS
    TypeOK
    NoEventLost
    HeadOfLine
    EarnedDeadLetter
    NoPhantom
    SingleLeader
