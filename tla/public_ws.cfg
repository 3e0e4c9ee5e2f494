CONSTANTS
    MaxConnections = 2
    Streams = {trades}
    ForceStates <- MCForceStates
    CarefulCaller = FALSE
    None = None
SPECIFICATION Spec
INVARIANTS
    TypeOK
    ConnectedHasReceiver
    NothingUnasked
PROPERTIES
    DeadSocketNoticed
