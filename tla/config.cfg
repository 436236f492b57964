SPECIFICATION Spec
CONSTANTS
    Files <- SmallFiles
    Options <- SomeOptions
    Matches <- SomeMatches
CHECK_DEADLOCK FALSE
INVARIANT ReadsAsMeant
PROPERTY LoadEnds
