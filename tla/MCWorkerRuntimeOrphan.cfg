CONSTANTS
    Task = {t1}
    Queues = 2
    QueueOf <- MCQueueOf
    Concurrency = 2
    ClaimBatch = 2
    MaxClaims = 2
SPECIFICATION Spec
CHECK_DEADLOCK FALSE
INVARIANT
    TrackedWhileHeld
