SPECIFICATION Spec
CONSTANTS
    Patterns <- RotatingName
    MaxDay = 2
    MaxConn = 2
CHECK_DEADLOCK FALSE
INVARIANT NumbersDistinct OneEach NothingHeld
PROPERTY FollowsToday
