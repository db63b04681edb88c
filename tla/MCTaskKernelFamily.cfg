CONSTANTS
    s1 = s1
    s2 = s2
    s3 = s3
    Nothing = Nothing
    Task = {t1, t2}
    Roots = {t1}
    Step = {s1, s2}
    Kind <- FamilyKind
    Signal = {}
    Value = {}
    MaxAttempts = 2
    MaxClaims = 2
    RunAts = {"due"}
SPECIFICATION Spec
CHECK_DEADLOCK FALSE
INVARIANTS
    TypeOK
    ParkedOnOneWait
    WakeupStillToCome
