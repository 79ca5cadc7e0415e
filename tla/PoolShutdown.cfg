\* Two workers, a queue of two, handlers that always return.
SPECIFICATION FairSpec
CONSTANTS
    WorkerCount = 2
    QueueSize = 2
    MaxJobs = 4
    MaxRaises = 0
    Closers = {stopper}
    Acceptor = acceptor
PROPERTIES ShutdownReturns
CHECK_DEADLOCK FALSE
