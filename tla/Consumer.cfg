SPECIFICATION FairSpec
CONSTANTS
    NumEvents = 2
    Groups = {g1, g2}
    Workers = {w1, w2}
    NumHandlers = 2
    g1 = g1
    g2 = g2
    w1 = w1
    w2 = w2
    Deployments <- TwoDeployments
    Broken <- LastBroken
    Buffer = 1
    InTx = TRUE
    MaxFaults = 1
    MaxRebalances = 1
    MaxCrashes = 1
CHECK_DEADLOCK FALSE
INVARIANTS
    EffectOnce
    NothingSkipped
    InOrder
PROPERTIES
    EventuallyApplied
