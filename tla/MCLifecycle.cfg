CONSTANTS
    Requests = {c1, c2}
    Actors = {"loop", "stop", "worker"}
    Closer = "loop"
    Backends = {"memory", "sqlite"}
    MayFail = TRUE
    Engines = {"threadpool", "selectors"}
    StopModes = {"thread", "signal"}
    QueueSize = 1
    Workers = 1
    MaxConns = 2
    Nobody = Nobody
SPECIFICATION FairSpec
INVARIANTS
    TypeOK
    OnlyHeldClientLost
    RecordsKept
PROPERTIES
    StoppedStays
    StopEnds
CHECK_DEADLOCK FALSE
