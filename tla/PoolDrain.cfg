\* The drain check while a worker holds a job it has not counted.
SPECIFICATION Spec
CONSTANTS
    WorkerCount = 2
    QueueSize = 1
    MaxJobs = 2
    MaxRaises = 0
    Closers = {stopper}
    Acceptor = acceptor
PROPERTIES DrainedMeansFinished
CHECK_DEADLOCK FALSE
