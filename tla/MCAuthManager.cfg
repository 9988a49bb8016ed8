SPECIFICATION FairSpec
CONSTANTS
    Conns = {c1, c2}
    Endpoints = {e1, e2}
    Keys = {k1, k2}
    NoKey = NoKey
    NoConn = NoConn
    MaxFailed = 3
    Lockout = 2
    Cleanup = 3
INVARIANTS
    TypeOK
    FailuresPerLockout
    SetterKeepsAccess
PROPERTIES
    LockoutEnds
