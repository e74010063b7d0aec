SPECIFICATION FairSpec
CONSTANTS
    Events = {1, 2}
    NoEvent = noEvent
    Relays = {r1, r2}
    NoRelay = noRelay
    Poison = {2}
    SerialTx = FALSE
    CoarseClock = FALSE
    Sequenced = TRUE
    LeaderKind = "pg"
    MaxAttempts = 2
    Limit = 2
    MaxFaults = 1
    MaxExits = 1
    MaxLosses = 1
    MaxDrops = 1
INVARIANTS
    NoEventLost
    HeadOfLine
    EarnedDeadLetter
    SeqGapFree
PROPERTIES
    EventuallyResolved
