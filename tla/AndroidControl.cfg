SPECIFICATION FairSpec
CONSTANTS
    Clients = {c1, c2}
    MaxIntents = 2
INVARIANTS
    TypeOK
    CallbackWhenReady
    DestroyedWhenStopped
PROPERTIES
    StartCommandReturns
    DestroyReturns
    ImplementsLifecycle
CHECK_DEADLOCK FALSE
