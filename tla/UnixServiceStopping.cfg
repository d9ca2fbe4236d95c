SPECIFICATION Spec
CONSTANTS
    ExitCodes = {0, 1}
    MaxSignals = 2
INVARIANT StoppingUntilStopped
CHECK_DEADLOCK FALSE
