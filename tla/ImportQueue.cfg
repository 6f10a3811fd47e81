SPECIFICATION ImportSpec
CONSTANTS
    j1 = j1
    w1 = w1
    w2 = w2
    Job = {j1}
    Worker = {w1, w2}
    Durable = {}
    NoJob = NoJob
    NoWorker = NoWorker
    MaxAttempts = 1
    MaxRetries = 1
    MaxFaults = 1
    Position = {0, 1}
SYMMETRY Symmetry
INVARIANTS ExactlyOnce CompletedImportsEverything PayloadKept
PROPERTY ImplementsJobQueue
CHECK_DEADLOCK FALSE
