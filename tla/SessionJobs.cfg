SPECIFICATION FairSpec
CONSTANTS
    h1 = h1
    h2 = h2
    worker = worker
    N = 3
    MaxAttempts = 2
    MaxCrashes = 1
    Handlers <- MCHandlers
    Requests <- MCRequests
    Commands = {"pause", "resume", "cancel"}
    Worker = worker
INVARIANTS IdempotentRequests ResultsAreStored
PROPERTY QueuedJobsRun
CHECK_DEADLOCK FALSE
