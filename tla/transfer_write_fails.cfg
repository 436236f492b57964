SPECIFICATION Spec
CONSTANTS
    MaxLen = 4
    LineEnds = {3, 4}
    BufSize = 3
    Room = 2
    MaxConn = 3
    Modes = {"separate"}
    MayFail = TRUE
    InOrder = TRUE
    NoChannel = NoChannel
INVARIANTS AckedStored
CHECK_DEADLOCK FALSE
