SPECIFICATION Spec
CONSTANTS
    ExitCodes = {0, 1}
    MaxSignals = 2
INVARIANT BusyMeansPending
CHECK_DEADLOCK FALSE
