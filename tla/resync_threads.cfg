CONSTANTS
    asset1 = asset1
    low = low
    high = high
    order1 = order1
    open = open
    r1 = r1
    r2 = r2
    None = None
    Assets = {asset1}
    Amounts = {low, high}
    Zero = low
    OrderIds = {order1}
    Views = {open}
    Trades = {}
    Messages <- MCMessages
    MaxEventIds = 1
    Versions = 2
    Resyncers = {r1, r2}
    Serialised = FALSE
    Unparsable = {high}
    Watched = asset1
    MaxUpdates = 1
    MaxCalls = 2
SPECIFICATION ReconcilerSafety
SYMMETRY ResyncerSymmetry
INVARIANTS
    BlockedUntilResync
