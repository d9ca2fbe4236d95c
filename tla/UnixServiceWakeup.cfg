SPECIFICATION LoopSpec
CONSTANTS
    ExitCodes = {0, 1}
    MaxSignals = 2
PROPERTY ResumeWakes
CHECK_DEADLOCK FALSE
