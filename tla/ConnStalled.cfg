SPECIFICATION FairSpec
CONSTANTS
    MaxRequests = 2
    MaxKeepAlive = 3
    Chunks = 2
    MayStall = TRUE
    None = None
PROPERTIES StalledEventuallyClosed
CHECK_DEADLOCK FALSE
