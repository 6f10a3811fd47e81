SPECIFICATION LiveSpec
CONSTANTS
    j1 = j1
    w1 = w1
    w2 = w2
    Job = {j1}
    Worker = {w1, w2}
    Durable = {w2}
    NoJob = NoJob
    NoWorker = NoWorker
    MaxAttempts = 2
    MaxRetries = 1
    MaxFaults = 2
INVARIANTS NoStrandedJob FenceIsExact
PROPERTIES LeaseRespected ImplementsLifecycle EveryJobSettles CancelHonoured
CHECK_DEADLOCK FALSE
