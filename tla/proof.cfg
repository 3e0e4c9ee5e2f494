CONSTANTS
    asset1 = asset1
    low = low
    order1 = order1
    open = open
    None = None
    Assets = {asset1}
    Amounts = {low}
    OrderIds = {order1}
    Views = {open}
    Trades = {}
    Messages = {}
    MaxEventIds = 1
    Versions = 2
SPECIFICATION ProofSpec
INVARIANTS
    VerifiedMeans
    FlagsInOrder
PROPERTIES
    ScriptEnds
CHECK_DEADLOCK FALSE
