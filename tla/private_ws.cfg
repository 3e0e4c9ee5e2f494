CONSTANTS
    MaxTokens = 2
    MaxSubscriptions = 2
    RaisingKinds = {}
    CarefulCaller = FALSE
    OtherCallers = TRUE
    ForceStates = {"UNKNOWN"}
    None = None
SPECIFICATION Spec
INVARIANTS
    TypeOK
    OnlyUnsubscribeSilences
PROPERTIES
    LossNoticed
