CONSTANTS
    s1 = s1
    s2 = s2
    s3 = s3
    Nothing = Nothing
    Task = {t1}
    Roots = {t1}
    Step = {s1, s2, s3}
    Kind <- WaitKind
    Signal = {g1}
    Value = {v1, v2}
    MaxAttempts = 2
    MaxClaims = 3
    RunAts = {"due", "later"}
SPECIFICATION Spec
CHECK_DEADLOCK FALSE
INVARIANTS
    WakeupStillToCome
    CompletedWaitIsRecorded
