CONSTANTS
    asset1 = asset1
    asset2 = asset2
    low = low
    order1 = order1
    open = open
    None = None
    Assets = {asset1, asset2}
    Amounts = {low}
    OrderIds = {order1}
    Views = {open}
    Trades = {}
    Messages <- MCMessages
    MaxEventIds = 2
    MaxAccepted = 6
SPECIFICATION Spec
INVARIANTS
    TypeOK
    SeenIsRecent
    NoReplayInWindow
    IgnoredHasTwin
