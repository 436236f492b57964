SPECIFICATION Spec
CONSTANTS
    Conns = {c1, c2}
    Rotating = {c1}
    Roomy = {c1}
    HeadLen = 2
    Contents = {2}
    RespLen = 1
    MaxMsgs = 2
    MaxOver = 1
    NoConn = NoConn
    c1 = c1
    c2 = c2
CHECK_DEADLOCK FALSE
INVARIANT TypeOK WholeOrLast AnswersOwn
PROPERTY OutOfStep ImplementsQueue Served Reaped
