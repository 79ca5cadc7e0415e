\* Three pipelined requests of any kind; the keep-alive limit falls on the second.
SPECIFICATION FairSpec
CONSTANTS
    MaxRequests = 3
    MaxKeepAlive = 2
    Chunks = 2
    MayStall = TRUE
    None = None
INVARIANTS TypeOK FinalsInOrder InterimFirst NothingAfterLast InflightExact WriteRegistered
PROPERTIES ServedEventuallyAnswered
CHECK_DEADLOCK FALSE
