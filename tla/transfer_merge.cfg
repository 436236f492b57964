SPECIFICATION Spec
CONSTANTS
    MaxLen = 4
    LineEnds = {2, 4}
    BufSize = 3
    Room = 2
    MaxConn = 3
    Modes = {"merge", "both"}
    MayFail = FALSE
    InOrder = TRUE
    NoChannel = NoChannel
INVARIANTS AckedStored SepIncreasing MergedRecords MergedCoversSep
PROPERTIES MergedEventually
CHECK_DEADLOCK FALSE
