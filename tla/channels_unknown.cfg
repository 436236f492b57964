SPECIFICATION Spec
CONSTANTS
    Patterns <- RotatingName
    MaxDay = 1
    MaxConn = 2
CHECK_DEADLOCK FALSE
INVARIANT UnknownIsInit
