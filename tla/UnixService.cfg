SPECIFICATION FairSpec
CONSTANTS
    ExitCodes = {0, 1}
    MaxSignals = 4
INVARIANTS
    TypeOK
    TerminalsFollowService
    OneCommandAtATime
    HaltedOnlyWhenPaused
PROPERTIES
    ImplementsLifecycle
    QueuedStopEnds
CHECK_DEADLOCK FALSE
