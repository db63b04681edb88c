CONSTANTS
    Task = {t1}
    Queues = 2
    QueueOf <- MCQueueOf
    Concurrency = 2
    ClaimBatch = 2
    MaxClaims = 3
SPECIFICATION Spec
CHECK_DEADLOCK FALSE
INVARIANTS
    
    SuccessIsStored
    FencedMeansLost
    WithinConcurrency
    OutcomeIsKept
PROPERTIES
    OnlyLostIsCancelled
    ShutdownCompletes
    
    BatchEnds
