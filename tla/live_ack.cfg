CONSTANTS
    asset1 = asset1
    low = low
    high = high
    order1 = order1
    open = open
    None = None
    Assets = {asset1}
    Amounts = {low, high}
    OrderIds = {order1}
    Views = {open}
    Trades = {}
    Messages <- MCMessages
    MaxEventIds = 1
    Versions = 2
    Initial <- MCInitial
    MaxChanges = 2
    MaxSubscriptions = 2
    ResyncFirst = FALSE
    Filtered = FALSE
SPECIFICATION LiveSpec
PROPERTY
    PayloadsHarmless
CHECK_DEADLOCK FALSE
