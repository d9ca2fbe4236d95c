SPECIFICATION FairSpec
CONSTANTS
    Services = {s1, s2, s3}
    Controls = {c1, c2}
    NoOne = NoOne
    MaxCalls = 3
INVARIANTS
    TypeOK
    OneInstance
    LockIsMeant
PROPERTIES
    ImplementsSingleInstance
    RestartLaunches
CHECK_DEADLOCK FALSE
