SPECIFICATION FairSpec
CONSTANTS
    Modes = {"passive"}
    Args <- MCArgs
    Input <- MCInput
    Text <- MCText
    Newline = 10
    Requests = {}
    Num = 2
    MaxOps = 1
PROPERTIES
    InputAnnounced
CHECK_DEADLOCK FALSE
