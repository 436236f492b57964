SPECIFICATION Spec
CONSTANTS
    faulty = faulty
    dated = dated
    Option = Option
    Patterns <- FaultyFirst
    Dated = {dated}
    Faulty = {faulty}
    Clients = {1, 2}
    Lines = 2
    NCells = 5
    MaxDay = 1
    MaxFds = 4
    Nil = Nil
    Wild = Wild
CHECK_DEADLOCK FALSE
INVARIANT TypeOK ListSound OpenedStays OnlyFirstLine
PROPERTY AlwaysListed RunAgain FirstLineAnswered
