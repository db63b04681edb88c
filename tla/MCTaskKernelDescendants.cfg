CONSTANTS
    s1 = s1
    s2 = s2
    s3 = s3
    Nothing = Nothing
    Task = {t1, t2, t3}
    Roots = {t1}
    Step = {s1, s2}
    Kind <- FamilyKind
    Signal = {}
    Value = {}
    MaxAttempts = 1
    MaxClaims = 1
    RunAts = {"due"}
SPECIFICATION Spec
CHECK_DEADLOCK FALSE
PROPERTIES
    DescendantsEndWithTask
