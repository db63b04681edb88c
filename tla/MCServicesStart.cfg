CONSTANTS
    Configured = 3
    Sustained = 2
    Recovery = 2
    Capacity = 2
    MaxWire = 2
    w1 = w1
    w2 = w2
    Scheduler = {w1, w2}
    t1 = t1
    t2 = t2
    t3 = t3
    k1 = k1
    Client = {w1, w2}
    Ticket = {t1, t2, t3}
    Key = {k1}
    KeyOf <- MCKeyOf
    Retried = {t1}
    Limits = {0, 2}
    Queue = Queue
    NoKey = NoKey
    NoTask = NoTask
    Nobody = Nobody
    Definition <- MCDefinition
    Policy <- MCPolicy
    StartAt <- MCStartAt
    Horizon = 4
    RetryDelay = 3
    DueCountLimit = 3
    MaxPuts = 1
    Programs <- MCPrograms
    MaxAttempts = 3
    Drains = 3
    BatchLimit = 1
    Budget = 2
    MaxBacklog = 2
    Value <- MCValue
    ResultLimit = 20
    ErrorLimit = 24
    MarkBytes = 8
    WrapBytes = 4
    RetryPolicy <- MCRetryPolicy
    MaxMultiplier = 15
    LastAttempt = 6
SPECIFICATION Spec
INVARIANT
    DueIsMaterializable
CHECK_DEADLOCK FALSE
