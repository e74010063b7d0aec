SPECIFICATION Spec
CONSTANTS
    c1 = c1
    c2 = c2
    none = none
    k1 = k1
    k2 = k2
    Keys <- TwoKeys
    Roots <- OneKey
    Clients <- TwoClients
    NoClient = none
    Named = TRUE
    MaxWrites = 3
    MaxDeletes = 1
    MaxBackfills = 1
SYMMETRY Symmetry
INVARIANTS
    FeedComplete
    IndexMirrors
    NoLostSave
