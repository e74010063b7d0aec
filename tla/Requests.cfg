SPECIFICATION FairSpec
CONSTANTS
    c1 = c1
    c2 = c2
    c3 = c3
    none = none
    b1 = b1
    b2 = b2
    Calls <- ThreeCalls
    NoCall = none
    Bodies <- TwoBodies
    Modes <- AllModes
    Stores <- AllStores
    Limit = 2
    MaxExpiries = 1
    MaxWindows = 2
CHECK_DEADLOCK FALSE
INVARIANTS
    EffectHasItsResponse
    OneAnswer
    RunsAlone
    QuotaExact
PROPERTIES
    Answered
