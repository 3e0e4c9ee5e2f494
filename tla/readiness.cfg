CONSTANTS
    MaxConnections = 1
    Streams = {}
    ForceStates = {}
    CarefulCaller = TRUE
    None = None
    Types <- MCTypes
    Calls <- MCCalls
    StreamStates = {"SUBSCRIBED", "DISCONNECTED"}
    Accounts <- MCAccounts
SPECIFICATION ReadinessSpec
INVARIANTS
    LastingFaultReported
    ReasonWasTrue
