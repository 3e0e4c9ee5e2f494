CONSTANTS
    asset1 = asset1
    low = low
    high = high
    order1 = order1
    open = open
    r1 = r1
    r2 = r2
    None = None
    Assets = {asset1}
    Amounts = {low, high}
    Zero = low
    OrderIds = {order1}
    Views = {open}
    Trades = {}
    Messages <- MCMessages
    MaxEventIds = 1
    Versions = 2
    Resyncers = {r1}
    Serialised = TRUE
    Unparsable = {}
    Watched = asset1
    MaxUpdates = 2
    MaxCalls = 3
SPECIFICATION ReconcilerSpec
INVARIANTS
    ReconcilerTypeOK
    Converged
PROPERTIES
    ResyncEnds
    LossCloses
