\* Two workers, a queue of two, three jobs, one failing handler, two closers.
SPECIFICATION FairSpec
CONSTANTS
    WorkerCount = 2
    QueueSize = 2
    MaxJobs = 3
    MaxRaises = 1
    Closers = {stopper, acceptor}
    Acceptor = acceptor
INVARIANTS TypeOK ActiveExact Fifo NoJobLost OneShutdown BoundedLateWork
PROPERTIES DrainMissesOnlyTaken ImplementsJobService AcceptedEventuallyFinished
CHECK_DEADLOCK FALSE
