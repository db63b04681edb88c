CONSTANTS
    s1 = s1
    s2 = s2
    s3 = s3
    Nothing = Nothing
    Task = {t1}
    Roots = {t1}
    Step = {s1}
    Kind <- LeaseKind
    Signal = {}
    Value = {}
    MaxAttempts = 2
    MaxClaims = 4
    RunAts = {"due", "later"}
SPECIFICATION Spec
CHECK_DEADLOCK FALSE
INVARIANTS
    AttemptLedger
    RetryBudget
    ResultOfSucceededAttempt
PROPERTIES
    CheckpointImmutable
    AttemptEndIsFinal
