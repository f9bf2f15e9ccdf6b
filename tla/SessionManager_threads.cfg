SPECIFICATION Spec
CONSTANTS
    Thread = {t1, t2}
    Session = {s1, s2}
    SessionId = {0, 1}
    Value = {v}
    Lifetime <- MCLifetime
    MaxTime = 1
    NoId = NoId
    NoSession = NoSession
SYMMETRY MCSymmetry
INVARIANTS TypeOK NoForeignSession
PROPERTY DestroyedStaysAway
CHECK_DEADLOCK FALSE
