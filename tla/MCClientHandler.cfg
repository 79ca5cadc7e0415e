CONSTANTS
    MaxHeader = 3
    MaxBody = 3
    MaxRequest = 14
    Messages <- MCMessages
    MaxMessages = 3
    MaxKeepAlive = 2
    RecvSize = 3
SPECIFICATION FairSpec
INVARIANTS
    TypeOK
    ServedAsSent
    AnsweredForCause
    WireInOrder
PROPERTY
    HandlerEnds
CHECK_DEADLOCK FALSE
