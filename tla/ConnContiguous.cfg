SPECIFICATION FairSpec
CONSTANTS
    MaxRequests = 2
    MaxKeepAlive = 3
    Chunks = 2
    MayStall = TRUE
    None = None
INVARIANTS ResponsesContiguous
CHECK_DEADLOCK FALSE
