SPECIFICATION Spec
CONSTANTS
    Cells = {c1, c2}
    Txns = {unary, stream, stray}
    Streams = {stream}
    Strays = {stray}
    Drivers = {d1}
    MaxStmts = 2
    MaxMoves = 2
CHECK_DEADLOCK FALSE
PROPERTIES
    CutIsQuiet
    OwnersInTurn
