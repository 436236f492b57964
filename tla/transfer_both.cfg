SPECIFICATION Spec
CONSTANTS
    MaxLen = 4
    LineEnds = {3, 4}
    BufSize = 3
    Room = 2
    MaxConn = 3
    Modes = {"both"}
    MayFail = FALSE
    InOrder = TRUE
    NoChannel = NoChannel
INVARIANTS HashAgrees
CHECK_DEADLOCK FALSE
