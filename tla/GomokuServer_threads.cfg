SPECIFICATION FairSpec
CONSTANTS
    Thread = {t1, t2}
    Checker = Checker
    NoOwner = NoOwner
    User = {u1, u2}
    NoUser = NoUser
INVARIANTS TypeOK MaxCoversOnline RestartsExclude
PROPERTY WaitsOnlyForAMutex
