SPECIFICATION FairSpec
CONSTANTS
    Events = {1}
    NoEvent = noEvent
    Relays = {r1, r2}
    NoRelay = noRelay
    Poison = {}
    SerialTx = TRUE
    CoarseClock = FALSE
    Sequenced = FALSE
    LeaderKind = "pg"
    MaxAttempts = 2
    Limit = 2
    MaxFaults = 0
    MaxExits = 0
    MaxLosses = 1
    MaxDrops = 0
PROPERTIES
    OverlapIsBrief
