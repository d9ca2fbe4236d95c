SPECIFICATION FairSpec
CONSTANTS
    Modes = {"active", "passive"}
    Args <- MCArgs
    Input <- MCInput
    Text <- MCText
    Newline = 10
    Requests = {1, 3}
    Num = 2
    MaxOps = 3
INVARIANTS
    TypeOK
    OutputFaithful
    InputFaithful
    HandshakeFaithful
    InputOnDemand
    DisconnectFlushes
PROPERTIES
    RequestsAnswered
    NoOrphanTerminal
CHECK_DEADLOCK FALSE
