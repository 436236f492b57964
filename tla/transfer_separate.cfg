SPECIFICATION Spec
CONSTANTS
    MaxLen = 4
    LineEnds = {3, 4}
    BufSize = 3
    Room = 2
    MaxConn = 3
    Modes = {"separate"}
    MayFail = FALSE
    InOrder = TRUE
    NoChannel = NoChannel
INVARIANTS SepPrefix HashAgrees AckedStored
PROPERTIES NoStaleWrite ImplementsCopy
CHECK_DEADLOCK FALSE
