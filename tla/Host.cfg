SPECIFICATION FairSpec
CONSTANTS
    m1 = m1
    m2 = m2
    Mods <- TwoMods
    Policies <- SomePolicies
    Buses <- BothBuses
CHECK_DEADLOCK FALSE
INVARIANTS
    NothingLeaks
    CauseSurfaces
PROPERTIES
    RunReturns
