SPECIFICATION Spec
CONSTANTS
    Patterns <- NamesFollowFiles
    MaxDay = 1
    MaxConn = 2
INVARIANT TypeOK TextStaysHome
PROPERTY KeepsRunning
