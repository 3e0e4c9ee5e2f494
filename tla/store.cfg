CONSTANTS
    asset1 = asset1
    asset2 = asset2
    low = low
    high = high
    order1 = order1
    open = open
    None = None
    Assets = {asset1, asset2}
    Amounts = {low, high}
    OrderIds = {order1}
    Views = {open}
    Trades = {}
    Messages <- MCMessages
    MaxEventIds = 2
    Versions = 2
SPECIFICATION StoreSpec
INVARIANTS
    StoreInv
    ReadersAgree
PROPERTIES
    VersionCoversState
    GateRefined
