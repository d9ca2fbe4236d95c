SPECIFICATION Spec
CONSTANTS
    Modes = {"active"}
    Args <- MCArgs
    Input <- MCInput
    Text <- MCText
    Newline = 10
    Requests = {2}
    Num = 2
    MaxOps = 1
INVARIANTS
    RequestNumArrives
CHECK_DEADLOCK FALSE
