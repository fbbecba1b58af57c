SPECIFICATION FairQueueSpec
CONSTANTS
    r1 = r1
    r2 = r2
    r3 = r3
    w1 = w1
    w2 = w2
    NoJob = NoJob
    Requests <- MCRequests
    Workers <- MCWorkers
    MaxAttempts = 3
    MaxStalledCount = 1
CHECK_DEADLOCK FALSE
INVARIANTS OneWorkerPerJob AttemptsAccounted
PROPERTY JobsSettle
