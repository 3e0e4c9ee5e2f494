CONSTANTS
    Infinity = Infinity
    NegInfinity = NegInfinity
    NaN = NaN
    Garbage = Garbage
    Scientific = Scientific
    None = None
    btcusdt = btcusdt
    Pairs = {btcusdt}
    Universes <- MCUniverses
    Listings <- MCListings
    Intents <- MCIntents
    Markets <- MCMarkets
    RequirePrice = TRUE
    RequireLot = TRUE
SPECIFICATION ListedSpec
INVARIANTS
    PassIsAdmissible
    AdmissiblePasses
    RaisesOnlyAtFilters
    PassIsBounded
    SentLimitsHold
    RouteAgrees
