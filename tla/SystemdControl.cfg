SPECIFICATION FairSpec
CONSTANTS
    ExitCodes = {0, 1}
    MaxEvents = 3
INVARIANTS
    TypeOK
    ActiveMeansRunning
    StopHelperHonest
PROPERTIES
    StopHelperEnds
    ReloadEnds
    ClientAnswered
CHECK_DEADLOCK FALSE
