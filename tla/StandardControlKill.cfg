SPECIFICATION Spec
CONSTANTS
    Services = {s1, s2, s3}
    Controls = {c1, c2}
    NoOne = NoOne
    MaxCalls = 3
INVARIANT StopSignalsService
CHECK_DEADLOCK FALSE
