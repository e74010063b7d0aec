SPECIFICATION Spec
CONSTANTS
    Events = {1, 2}
    NoEvent = noEvent
    Relays = {r1}
    NoRelay = noRelay
    Poison = {}
    SerialTx = FALSE
    CoarseClock = FALSE
    Sequenced = TRUE
    LeaderKind = "pg"
    MaxAttempts = 2
    Limit = 2
    MaxFaults = 2
    MaxExits = 0
    MaxLosses = 0
    MaxDrops = 1
SYMMETRY Symmetry
\* One claim at a time: uncomment another to see its counterexample.
INVARIANTS
    InCommitOrder
\*  SeqOrder
\*  OwnFailures
\*  RetentionBehindCursor
