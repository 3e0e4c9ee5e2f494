------------------------- MODULE MarketStructureGate -------------------------
(***************************************************************************)
(* MarketStructureGate (governance/market_structure/gate.py): the verdict  *)
(* on an order intent, from the metadata of its instrument and the health  *)
(* of the market data.                                                     *)
(***************************************************************************)
EXTENDS DecimalRules, SymbolRouter, FiniteSets

CONSTANTS
    Pairs,         \* the traded pairs
    Universes,     \* the tables of instruments set_instruments is given
    Intents,       \* the order intents validated
    Markets,       \* the market states passed along, None for no market state
    RequirePrice,  \* require_price_filter
    RequireLot     \* require_lot_filter

Symbols == [pair : Pairs, sep : {"_", "-"}]

Intent == [symbol : Symbols \cup {None}, price : Texts, quantity : Texts,
           market : BOOLEAN]

TradingStatuses == {"TRADING", "trading", "ENABLED", "enabled", "1"}

Instrument == [symbol : Symbols, symbolType : Int \cup {None}, status : STRING,
               priceFilter : Rule \cup {None}, lotSize : Rule \cup {None},
               marketLotSize : Rule \cup {None}, notional : NotionalFilter \cup {None}]

\* Ages are fresh or beyond the limit the state itself carries.
MarketState ==
    [connection : {"DISCONNECTED", "CONNECTING", "CONNECTED", "STALE", "UNKNOWN"},
     age : {"fresh", "old", None}, metadata : {"fresh", "old", None}]

ASSUME GateAssumption ==
    /\ Intents \subseteq Intent
    /\ Markets \subseteq MarketState \cup {None}
    /\ None \notin Instrument \cup MarketState \cup Symbols \cup {"fresh", "old"}
    /\ \A u \in Universes : DOMAIN u \subseteq Symbols /\ \A s \in DOMAIN u : u[s] \in Instrument
    /\ RequirePrice \in BOOLEAN
    /\ RequireLot \in BOOLEAN

VARIABLES
    instruments,  \* _instruments
    call          \* the latest validate call with its result, or None

gateVars == <<instruments, call>>

Init ==
    /\ instruments \in Universes
    /\ call = None
-----------------------------------------------------------------------------
\* _lookup: the underscored spelling first, then the given one.
Lookup(s, universe) ==
    IF Underscored(s) \in DOMAIN universe THEN universe[Underscored(s)]
    ELSE IF s \in DOMAIN universe THEN universe[s]
    ELSE None

\* MarketState.health.
Health(m) ==
    CASE m.connection = "DISCONNECTED" -> "DISCONNECTED"
      [] m.connection = "STALE" -> "STALE"
      [] m.connection \in {"UNKNOWN", "CONNECTING"} -> "UNKNOWN"
      [] m.connection = "CONNECTED" ->
            IF m.age = None THEN "UNKNOWN" ELSE IF m.age = "old" THEN "STALE" ELSE "OK"

\* metadata_ok and health; without a market state nothing is looked at, and
\* metadata of unknown age pass for fresh.
MarketObjection(m) ==
    IF m = None THEN "NONE"
    ELSE IF m.metadata = "old" THEN "METADATA_STALE"
    ELSE CASE Health(m) = "DISCONNECTED" -> "MARKET_DISCONNECTED"
           [] Health(m) = "STALE"        -> "MARKET_STALE"
           [] Health(m) = "UNKNOWN"      -> "MARKET_UNKNOWN"
           [] Health(m) = "OK"           -> "NONE"

\* Without the filter: an objection if it is required, else no check.
PriceObjection(p, inst) ==
    LET rule == inst.priceFilter
    IN  IF rule = None THEN IF RequirePrice THEN "METADATA_MISSING" ELSE "NONE"
        ELSE IF RuleRaises(p, rule) THEN "RAISES"
        ELSE IF BelowMin(p, rule) \/ AboveMax(p, rule) THEN "PRICE_FILTER"
        ELSE IF OffStep(p, rule) THEN "PRICE_TICK"
        ELSE "NONE"

LotRule(inst, market) ==
    IF market /\ inst.marketLotSize # None THEN inst.marketLotSize ELSE inst.lotSize

QuantityObjection(q, market, inst) ==
    LET rule == LotRule(inst, market)
    IN  IF ~RequireLot /\ inst.lotSize = None THEN "NONE"
        ELSE IF rule = None THEN "METADATA_MISSING"
        ELSE IF RuleRaises(q, rule) THEN "RAISES"
        ELSE IF BelowMin(q, rule) THEN "QTY_BELOW_MIN"
        ELSE IF AboveMax(q, rule) THEN "QTY_ABOVE_MAX"
        ELSE IF OffStep(q, rule) THEN "LOT_SIZE"
        ELSE "NONE"

NotionalObjection(p, q, inst) ==
    LET nf == inst.notional
    IN  IF nf = None \/ nf = [min |-> None, max |-> None] THEN "NONE"
        ELSE IF NotionalRaises(p, q, nf) THEN "RAISES"
        ELSE IF NotionalRefused(p, q, nf) THEN "NOTIONAL"
        ELSE "NONE"

FilterObjection(i, inst) ==
    IF PriceObjection(i.price, inst) # "NONE" THEN PriceObjection(i.price, inst)
    ELSE IF QuantityObjection(i.quantity, i.market, inst) # "NONE"
         THEN QuantityObjection(i.quantity, i.market, inst)
    ELSE NotionalObjection(i.price, i.quantity, inst)

\* Mutant of Reason: the market is looked at last.
ReasonMarketLast(i, m, inst) ==
    IF None \in {i.symbol, i.price, i.quantity} THEN "INVALID_INTENT"
    ELSE IF {i.price, i.quantity} \cap {Garbage, Scientific} # {} THEN "PRECISION"
    ELSE IF inst = None THEN "SYMBOL_NOT_FOUND"
    ELSE IF Classify(inst.symbolType) # "ELIGIBLE_FOR_EXECUTION" THEN "SYMBOL_TYPE_NOT_EXECUTABLE"
    ELSE IF inst.status \notin TradingStatuses THEN "INSTRUMENT_NOT_TRADING"
    ELSE IF FilterObjection(i, inst) # "NONE" THEN FilterObjection(i, inst)
    ELSE MarketObjection(m)

\* validate: the reason of the first check that fails, "NONE" when all pass,
\* "RAISES" when it raises instead of returning.
Reason(i, m, inst) ==
    IF None \in {i.symbol, i.price, i.quantity} THEN "INVALID_INTENT"
    ELSE IF {i.price, i.quantity} \cap {Garbage, Scientific} # {} THEN "PRECISION"
    ELSE IF inst = None THEN "SYMBOL_NOT_FOUND"
    ELSE IF Classify(inst.symbolType) # "ELIGIBLE_FOR_EXECUTION" THEN "SYMBOL_TYPE_NOT_EXECUTABLE"
    ELSE IF inst.status \notin TradingStatuses THEN "INSTRUMENT_NOT_TRADING"
    ELSE IF MarketObjection(m) # "NONE" THEN MarketObjection(m)
    ELSE FilterObjection(i, inst)

VerdictOf(reason) ==
    CASE reason = "NONE"           -> "PASS"
      [] reason = "MARKET_STALE"   -> "STALE"
      [] reason = "MARKET_UNKNOWN" -> "UNKNOWN"
      [] reason = "RAISES"         -> "RAISES"
      [] OTHER                     -> "BLOCK"

Validate(i, m) ==
    /\ call = None
    /\ LET inst == IF i.symbol = None THEN None ELSE Lookup(i.symbol, instruments)
       IN  call' = [intent |-> i, market |-> m, instrument |-> inst,
                    reason |-> Reason(i, m, inst)]
    /\ UNCHANGED instruments

Return ==
    /\ call # None
    /\ call' = None
    /\ UNCHANGED instruments

SetInstruments(u) ==
    /\ call = None
    /\ instruments' = u
    /\ UNCHANGED call

Next ==
    \/ \E i \in Intents, m \in Markets : Validate(i, m)
    \/ Return
    \/ \E u \in Universes : SetInstruments(u)

Spec == Init /\ [][Next]_gateVars
-----------------------------------------------------------------------------
(***************************************************************************)
(* What the exchange's filters ask, said without the gate's arithmetic.    *)
(***************************************************************************)
Conforms(v, rule) ==
    /\ rule.min <= v
    /\ rule.max = 0 \/ v <= rule.max
    /\ rule.step = 0 \/ \E n \in 0 .. v : v = n * rule.step

Worth(p, q, nf) ==
    /\ nf.min = None \/ nf.min <= p * q
    /\ nf.max = None \/ p * q <= nf.max

Executable(inst) == inst # None /\ inst.symbolType = 1 /\ inst.status \in TradingStatuses

Healthy(m) ==
    m = None \/ (m.connection = "CONNECTED" /\ m.age = "fresh" /\ m.metadata # "old")

\* Every filter that is given can be read as numbers.
Readable(inst) ==
    /\ \A rule \in {inst.priceFilter, inst.lotSize, inst.marketLotSize} :
          rule = None \/ Garbage \notin {rule.min, rule.max, rule.step}
    /\ inst.notional = None \/ Garbage \notin {inst.notional.min, inst.notional.max}

Numeric(i) == i.price \in Int /\ i.quantity \in Int

\* An intent in numbers against the filters the gate looks at.
Admissible(i, inst) ==
    /\ IF inst.priceFilter = None THEN ~RequirePrice ELSE Conforms(i.price, inst.priceFilter)
    /\ IF inst.lotSize = None /\ ~RequireLot THEN TRUE
       ELSE LotRule(inst, i.market) # None /\ Conforms(i.quantity, LotRule(inst, i.market))
    /\ inst.notional = None \/ Worth(i.price, i.quantity, inst.notional)

Passed == call # None /\ VerdictOf(call.reason) = "PASS"

(***************************************************************************)
(* "Fail-closed instrument + market + filter validation. No silent         *)
(* rounding." (gate.py:35): an order in numbers that passes is for an      *)
(* executable instrument, the market state passed along is healthy, and    *)
(* price, quantity and value are what the filters ask, unrounded.          *)
(***************************************************************************)
PassIsAdmissible ==
    Passed /\ Numeric(call.intent) =>
        /\ Executable(call.instrument)
        /\ Healthy(call.market)
        /\ Admissible(call.intent, call.instrument)

(***************************************************************************)
(* The gate refuses nothing else: an admissible order passes, with every   *)
(* zero and absent limit of the filters taken for no limit.                *)
(***************************************************************************)
AdmissiblePasses ==
    (/\ call # None
     /\ call.intent.symbol # None /\ Numeric(call.intent)
     /\ Executable(call.instrument) /\ Readable(call.instrument)
     /\ Healthy(call.market)
     /\ Admissible(call.intent, call.instrument)) => Passed

(***************************************************************************)
(* Decimal() reads "Infinity", an infinity is a multiple of every step     *)
(* (decimal_rules.py:33) and above no limit that is absent.  With the      *)
(* filters the gate looks at given, whatever passes is a number or plus    *)
(* infinity, and it is a number wherever a largest price, quantity or value*)
(* is in force.                                                            *)
(***************************************************************************)
BoundedBy(v, rule) == v \in Int \/ (v = Infinity /\ rule.max = 0)

PassIsBounded ==
    (/\ Passed
     /\ call.instrument.priceFilter # None
     /\ LotRule(call.instrument, call.intent.market) # None
     /\ call.instrument.lotSize # None) =>
        /\ BoundedBy(call.intent.price, call.instrument.priceFilter)
        /\ BoundedBy(call.intent.quantity, LotRule(call.instrument, call.intent.market))
        /\ call.instrument.notional # None /\ call.instrument.notional.max # None =>
              Numeric(call.intent)

(***************************************************************************)
(* validate raises instead of returning a verdict (decimal_rules.py:22-26, *)
(* and comparisons with NaN) only at the filters, after everything else    *)
(* agreed, and only for a filter or a number it cannot calculate with.     *)
(***************************************************************************)
RaisesOnlyAtFilters ==
    call # None /\ call.reason = "RAISES" =>
        /\ Executable(call.instrument)
        /\ Healthy(call.market)
        /\ ~Readable(call.instrument) \/ ~Numeric(call.intent)
=============================================================================
