SPECIFICATION Spec
CONSTANTS
    MaxLen = 4
    LineEnds = {3, 4}
    BufSize = 3
    Room = 2
    MaxConn = 3
    Modes = {"separate", "merge", "both"}
    MayFail = TRUE
    InOrder = FALSE
    NoChannel = NoChannel
INVARIANTS TypeOK StopAndWait ChannelKnown
CHECK_DEADLOCK FALSE
