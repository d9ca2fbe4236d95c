SPECIFICATION FairSpec
CONSTANTS
    ExitCodes = {0, 1}
    Callers = {c1, c2}
    MaxCalls = 3
INVARIANTS
    TypeOK
    ReportedStateTrue
    HeartbeatWhilePending
    EndReported
PROPERTIES
    StartTypeRespected
    StartArrives
    StopEnds
    PendingResolves
    ImplementsLifecycle
CHECK_DEADLOCK FALSE
