CONSTANTS
    MaxConnections = 2
    Streams = {trades}
    ForceStates = {}
    CarefulCaller = TRUE
    None = None
SPECIFICATION Spec
INVARIANT NoStaleReopen
