------------------------- MODULE ListedMarket_proofs -------------------------
(***************************************************************************)
(* What a PASS of the gate means, for every table of instruments, every    *)
(* intent and every market state; and, for every list of symbols, that the *)
(* table made of it holds an order to what the exchange sent.              *)
(***************************************************************************)
EXTENDS ListedMarket, TLAPS

(***************************************************************************)
(* A number that a readable rule does not refuse is what the rule asks:    *)
(* no remainder means a whole number of steps.                             *)
(***************************************************************************)
LEMMA UnrefusedConforms ==
    ASSUME NEW v \in Int, NEW rule \in Rule,
           ~RuleRaises(v, rule), ~BelowMin(v, rule), ~AboveMax(v, rule), ~OffStep(v, rule)
    PROVE  Conforms(v, rule)
<1>1. /\ rule.min \in Nat
      /\ rule.max \in Nat
      /\ rule.step \in Nat
  BY DEF RuleRaises, Rule
<1>2. rule.min <= v
  <2>1. ~(v < rule.min)
    BY <1>1 DEF BelowMin, Less
  <2> QED  BY <2>1, <1>1
<1>3. rule.max = 0 \/ v <= rule.max
  <2>1. rule.max > 0 => ~(rule.max < v)
    BY <1>1 DEF AboveMax, Less
  <2> QED  BY <2>1, <1>1
<1>4. rule.step = 0 \/ \E n \in 0 .. v : v = n * rule.step
  <2>1. SUFFICES ASSUME rule.step # 0
                 PROVE  \E n \in 0 .. v : v = n * rule.step
    OBVIOUS
  <2>2. v % rule.step = 0
    BY <2>1, <1>1 DEF OffStep, IsMultipleOf
  <2> DEFINE n == v \div rule.step
  <2>3. n \in Int /\ v = n * rule.step
    BY <2>1, <2>2, <1>1
  <2>4. v >= 0
    BY <1>1, <1>2
  <2>5. n \in 0 .. v
    <3>1. n >= 0
      BY <2>1, <2>4, <1>1
    <3>2. n <= v
      BY <2>3, <3>1, <2>1, <1>1
    <3> QED  BY <3>1, <3>2, <2>3
  <2> QED  BY <2>3, <2>5
<1> QED  BY <1>2, <1>3, <1>4 DEF Conforms

(***************************************************************************)
(* No objection to the price, the quantity or the value.                   *)
(***************************************************************************)
LEMMA PriceAccepted ==
    ASSUME NEW p \in Int, NEW inst \in Instrument, PriceObjection(p, inst) = "NONE"
    PROVE  IF inst.priceFilter = None THEN ~RequirePrice ELSE Conforms(p, inst.priceFilter)
<1>1. CASE inst.priceFilter = None
  BY <1>1 DEF PriceObjection
<1>2. CASE inst.priceFilter # None
  <2>1. inst.priceFilter \in Rule
    BY <1>2 DEF Instrument
  <2>2. /\ ~RuleRaises(p, inst.priceFilter)
        /\ ~BelowMin(p, inst.priceFilter)
        /\ ~AboveMax(p, inst.priceFilter)
        /\ ~OffStep(p, inst.priceFilter)
    BY <1>2 DEF PriceObjection
  <2> QED  BY <1>2, <2>1, <2>2, UnrefusedConforms
<1> QED  BY <1>1, <1>2

LEMMA QuantityAccepted ==
    ASSUME NEW q \in Int, NEW market \in BOOLEAN, NEW inst \in Instrument,
           QuantityObjection(q, market, inst) = "NONE",
           inst.lotSize # None \/ RequireLot
    PROVE  LotRule(inst, market) # None /\ Conforms(q, LotRule(inst, market))
<1> DEFINE rule == LotRule(inst, market)
<1>1. rule # None
  BY DEF QuantityObjection
<1>2. rule \in Rule
  BY <1>1 DEF LotRule, Instrument
<1>3. ~RuleRaises(q, rule) /\ ~BelowMin(q, rule) /\ ~AboveMax(q, rule) /\ ~OffStep(q, rule)
  BY <1>1 DEF QuantityObjection
<1> QED  BY <1>1, <1>2, <1>3, UnrefusedConforms

LEMMA ValueAccepted ==
    ASSUME NEW p \in Int, NEW q \in Int, NEW inst \in Instrument,
           NotionalObjection(p, q, inst) = "NONE"
    PROVE  inst.notional = None \/ Worth(p, q, inst.notional)
<1>1. SUFFICES ASSUME inst.notional # None
               PROVE  Worth(p, q, inst.notional)
  OBVIOUS
<1> DEFINE nf == inst.notional
<1>2. nf \in NotionalFilter
  BY <1>1 DEF Instrument
<1>3. CASE nf = [min |-> None, max |-> None]
  BY <1>3 DEF Worth
<1>4. CASE nf # [min |-> None, max |-> None]
  <2>1. ~NotionalRaises(p, q, nf) /\ ~NotionalRefused(p, q, nf)
    BY <1>1, <1>4 DEF NotionalObjection
  <2>2. nf.min \in Nat \cup {None} /\ nf.max \in Nat \cup {None}
    BY <1>2, <2>1 DEF NotionalRaises, NotionalFilter
  <2>3. Times(p, q) = p * q /\ p * q \in Int
    BY DEF Times
  <2>4. nf.min # None => ~(p * q < nf.min)
    BY <2>1, <2>2, <2>3 DEF NotionalRefused, Less
  <2>5. nf.max # None => ~(nf.max < p * q)
    BY <2>1, <2>2, <2>3 DEF NotionalRefused, Less
  <2> QED  BY <2>2, <2>3, <2>4, <2>5 DEF Worth
<1> QED  BY <1>3, <1>4

(***************************************************************************)
(* No objection to the market state that was passed along.                 *)
(***************************************************************************)
LEMMA MarketAccepted ==
    ASSUME NEW m \in MarketState \cup {None}, MarketObjection(m) = "NONE"
    PROVE  Healthy(m)
<1>1. SUFFICES ASSUME m # None
               PROVE  m.connection = "CONNECTED" /\ m.age = "fresh" /\ m.metadata # "old"
  BY DEF Healthy
<1>2. m \in MarketState
  BY <1>1
<1>3. m.metadata # "old"
  BY <1>1 DEF MarketObjection
<1>4. Health(m) \in {"DISCONNECTED", "STALE", "UNKNOWN", "OK"}
  BY <1>2 DEF Health, MarketState
<1>5. Health(m) = "OK"
  BY <1>1, <1>3, <1>4 DEF MarketObjection
<1>6. m.connection = "CONNECTED" /\ m.age = "fresh"
  BY <1>2, <1>5 DEF Health, MarketState
<1> QED  BY <1>3, <1>6

(***************************************************************************)
(* The reason "NONE" means that every check agreed.                        *)
(***************************************************************************)
LEMMA NoReason ==
    ASSUME NEW i \in Intent, NEW m \in MarketState \cup {None},
           NEW inst \in Instrument \cup {None},
           Reason(i, m, inst) = "NONE", Numeric(i)
    PROVE  Executable(inst) /\ Healthy(m) /\ Admissible(i, inst)
<1>1. /\ inst # None
      /\ Classify(inst.symbolType) = "ELIGIBLE_FOR_EXECUTION"
      /\ inst.status \in TradingStatuses
      /\ MarketObjection(m) = "NONE"
      /\ FilterObjection(i, inst) = "NONE"
  BY DEF Reason
<1>2. inst \in Instrument
  BY <1>1
<1>3. inst.symbolType = 1
  BY <1>1 DEF Classify
<1>4. Healthy(m)
  BY <1>1, MarketAccepted
<1>5. /\ PriceObjection(i.price, inst) = "NONE"
      /\ QuantityObjection(i.quantity, i.market, inst) = "NONE"
      /\ NotionalObjection(i.price, i.quantity, inst) = "NONE"
  BY <1>1 DEF FilterObjection
<1>6. i.price \in Int /\ i.quantity \in Int /\ i.market \in BOOLEAN
  BY DEF Numeric, Intent
<1>7. Admissible(i, inst)
  BY <1>2, <1>5, <1>6, PriceAccepted, QuantityAccepted, ValueAccepted, GateAssumption
     DEF Admissible
<1> QED  BY <1>1, <1>3, <1>4, <1>7 DEF Executable

(***************************************************************************)
(* What a call under way holds: its arguments, the instrument that was     *)
(* looked up and the reason computed from them.                            *)
(***************************************************************************)
GateInv ==
    /\ instruments \in Universes
    /\ call # None =>
          /\ call.intent \in Intent
          /\ call.market \in MarketState \cup {None}
          /\ call.instrument \in Instrument \cup {None}
          /\ call.reason = Reason(call.intent, call.market, call.instrument)

LEMMA GateInvHolds == Spec => []GateInv
<1>1. Init => GateInv
  BY DEF Init, GateInv
<1>2. GateInv /\ [Next]_gateVars => GateInv'
  <2> SUFFICES ASSUME GateInv, [Next]_gateVars
               PROVE  GateInv'
    OBVIOUS
  <2>1. ASSUME NEW i \in Intents, NEW m \in Markets, Validate(i, m)
        PROVE  GateInv'
    <3> DEFINE inst == IF i.symbol = None THEN None ELSE Lookup(i.symbol, instruments)
    <3>1. i \in Intent /\ m \in MarketState \cup {None}
      BY GateAssumption
    <3>2. inst \in Instrument \cup {None}
      BY GateAssumption DEF GateInv, Lookup
    <3>3. call' = [intent |-> i, market |-> m, instrument |-> inst,
                   reason |-> Reason(i, m, inst)]
      BY <2>1 DEF Validate
    <3>4. instruments' \in Universes
      BY <2>1 DEF Validate, GateInv
    <3> HIDE DEF inst
    <3> QED  BY <3>1, <3>2, <3>3, <3>4 DEF GateInv
  <2>2. CASE Return
    BY <2>2 DEF Return, GateInv
  <2>3. ASSUME NEW u \in Universes, SetInstruments(u)
        PROVE  GateInv'
    BY <2>3 DEF SetInstruments, GateInv
  <2>4. CASE UNCHANGED gateVars
    BY <2>4 DEF gateVars, GateInv
  <2> QED  BY <2>1, <2>2, <2>3, <2>4 DEF Next
<1> QED  BY <1>1, <1>2, PTL DEF Spec

(***************************************************************************)
(* An order in numbers that the gate passes is admissible, whatever the    *)
(* instruments, filters, market states and orders are (gate.py:35, 58-216).*)
(***************************************************************************)
THEOREM PassMeansAdmissible == Spec => []PassIsAdmissible
<1>1. GateInv => PassIsAdmissible
  <2> SUFFICES ASSUME GateInv, Passed, Numeric(call.intent)
               PROVE  /\ Executable(call.instrument)
                      /\ Healthy(call.market)
                      /\ Admissible(call.intent, call.instrument)
    BY DEF PassIsAdmissible
  <2>1. call # None /\ VerdictOf(call.reason) = "PASS"
    BY DEF Passed
  <2>2. call.reason = "NONE"
    BY <2>1 DEF VerdictOf
  <2>3. /\ call.intent \in Intent
        /\ call.market \in MarketState \cup {None}
        /\ call.instrument \in Instrument \cup {None}
        /\ Reason(call.intent, call.market, call.instrument) = "NONE"
    BY <2>1, <2>2 DEF GateInv
  <2> QED  BY <2>3, NoReason
<1> QED  BY <1>1, GateInvHolds, PTL

(***************************************************************************)
(* What a rule lets through is no less than 0, and finite unless the rule  *)
(* has no maximum.                                                         *)
(***************************************************************************)
LEMMA UnrefusedBounded ==
    ASSUME NEW v \in Texts \ {Garbage, Scientific, None}, NEW rule \in Rule,
           ~RuleRaises(v, rule), ~BelowMin(v, rule), ~AboveMax(v, rule)
    PROVE  BoundedBy(v, rule) /\ (v \in Int => v >= 0)
<1>1. rule.min \in Nat /\ rule.max \in Nat
  BY DEF RuleRaises, Rule
<1>2. CASE v \in Int
  BY <1>1, <1>2 DEF BoundedBy, BelowMin, Less
<1>3. CASE v = Infinity
  <2>1. Infinity \notin Int
    BY DecimalAssumption DEF Specials
  <2>2. rule.max > 0 => AboveMax(v, rule)
    BY <1>1, <1>3, <2>1 DEF AboveMax, Less
  <2> QED  BY <1>1, <1>3, <2>1, <2>2 DEF BoundedBy
<1>4. CASE v = NegInfinity
  <2>1. NegInfinity \notin Int
    BY DecimalAssumption DEF Specials
  <2>2. BelowMin(v, rule)
    BY <1>1, <1>4, <2>1 DEF BelowMin, Less
  <2> QED  BY <2>2
<1>5. v # NaN
  BY DEF RuleRaises
<1> QED  BY <1>2, <1>3, <1>4, <1>5 DEF Texts, Specials

(***************************************************************************)
(* With a largest value in force, an infinite factor is refused: it makes  *)
(* the product infinite, or raises with a factor of 0.                     *)
(***************************************************************************)
LEMMA BoundedValueIsNumber ==
    ASSUME NEW p \in Int \cup {Infinity}, NEW q \in Int \cup {Infinity},
           p \in Int => p >= 0, q \in Int => q >= 0,
           NEW nf \in NotionalFilter, nf.max # None,
           ~NotionalRaises(p, q, nf), ~NotionalRefused(p, q, nf)
    PROVE  p \in Int /\ q \in Int
<1>1. SUFFICES ASSUME ~(p \in Int /\ q \in Int)
               PROVE  FALSE
  OBVIOUS
<1>2. nf.max \in Nat
  BY DEF NotionalRaises, NotionalFilter
<1>3. Infinity \notin Int /\ NegInfinity \notin Int /\ Infinity # NegInfinity
  BY DecimalAssumption DEF Specials
<1>4. p # 0 /\ q # 0
  BY <1>1 DEF NotionalRaises
<1>5. Sign(p) = 1 /\ Sign(q) = 1
  <2>1. ~Less(p, 0) /\ ~Less(q, 0)
    BY <1>3 DEF Less
  <2> QED  BY <2>1, <1>4 DEF Sign
<1>6. Times(p, q) = Infinity
  BY <1>1, <1>5 DEF Times
<1>7. Less(nf.max, Infinity)
  BY <1>2, <1>3 DEF Less
<1> QED  BY <1>6, <1>7 DEF NotionalRefused

(***************************************************************************)
(* What passes is finite wherever a maximum is in force, for any filters   *)
(* and any texts of price and quantity (decimal_rules.py:33, 45-90).       *)
(***************************************************************************)
THEOREM PassMeansBounded == Spec => []PassIsBounded
<1>1. GateInv => PassIsBounded
  <2> DEFINE i == call.intent
             inst == call.instrument
             rule == LotRule(inst, i.market)
  <2> SUFFICES ASSUME GateInv, Passed, inst.priceFilter # None,
                      rule # None, inst.lotSize # None
               PROVE  /\ BoundedBy(i.price, inst.priceFilter)
                      /\ BoundedBy(i.quantity, rule)
                      /\ inst.notional # None /\ inst.notional.max # None => Numeric(i)
    BY DEF PassIsBounded
  <2>1. call # None /\ call.reason = "NONE"
    BY DEF Passed, VerdictOf
  <2>2. /\ i \in Intent
        /\ inst \in Instrument \cup {None}
        /\ Reason(i, call.market, inst) = "NONE"
    BY <2>1 DEF GateInv
  <2>3. /\ inst # None
        /\ {i.price, i.quantity} \cap {None, Garbage, Scientific} = {}
        /\ FilterObjection(i, inst) = "NONE"
    BY <2>2 DEF Reason
  <2>4. inst \in Instrument /\ inst.priceFilter \in Rule /\ rule \in Rule
    BY <2>2, <2>3 DEF Instrument, LotRule
  <2>5. /\ i.price \in Texts \ {Garbage, Scientific, None}
        /\ i.quantity \in Texts \ {Garbage, Scientific, None}
    BY <2>2, <2>3 DEF Intent
  <2>6. /\ ~RuleRaises(i.price, inst.priceFilter)
        /\ ~BelowMin(i.price, inst.priceFilter)
        /\ ~AboveMax(i.price, inst.priceFilter)
    BY <2>3 DEF FilterObjection, PriceObjection
  <2>7. ~RuleRaises(i.quantity, rule) /\ ~BelowMin(i.quantity, rule) /\ ~AboveMax(i.quantity, rule)
    BY <2>3 DEF FilterObjection, QuantityObjection
  <2>8. /\ BoundedBy(i.price, inst.priceFilter) /\ (i.price \in Int => i.price >= 0)
        /\ BoundedBy(i.quantity, rule) /\ (i.quantity \in Int => i.quantity >= 0)
    BY <2>4, <2>5, <2>6, <2>7, UnrefusedBounded
  <2>9. ASSUME inst.notional # None, inst.notional.max # None
        PROVE  Numeric(i)
    <3>1. inst.notional \in NotionalFilter
      BY <2>4, <2>9 DEF Instrument
    <3>2. /\ ~NotionalRaises(i.price, i.quantity, inst.notional)
          /\ ~NotionalRefused(i.price, i.quantity, inst.notional)
      BY <2>3, <2>9 DEF FilterObjection, NotionalObjection
    <3>3. i.price \in Int \cup {Infinity} /\ i.quantity \in Int \cup {Infinity}
      BY <2>8 DEF BoundedBy
    <3> QED  BY <2>8, <2>9, <3>1, <3>2, <3>3, BoundedValueIsNumber DEF Numeric
  <2> QED  BY <2>8, <2>9
<1> QED  BY <1>1, GateInvHolds, PTL
-----------------------------------------------------------------------------
(***************************************************************************)
(* The other direction: what the filters ask is not refused.               *)
(***************************************************************************)
LEMMA NoRemainder ==
    ASSUME NEW n \in Nat, NEW s \in Nat, s > 0
    PROVE  (n * s) % s = 0
<1> DEFINE v == n * s
           d == v \div s
           r == v % s
<1>1. v \in Int /\ d \in Int /\ r \in Int /\ 0 <= r /\ r < s /\ v = s * d + r
  OBVIOUS
<1> HIDE DEF d, r
<1> DEFINE k == n - d
<1>2. k \in Int /\ r = s * k
  BY <1>1
<1> HIDE DEF k
<1>3. k < 1
  <2> SUFFICES ASSUME k >= 1 PROVE FALSE
    BY <1>2
  <2>1. s * k >= s
    BY <1>2
  <2> QED  BY <1>1, <1>2, <2>1
<1>4. k > -1
  <2> SUFFICES ASSUME k <= -1 PROVE FALSE
    BY <1>2
  <2>1. s * k <= -s
    BY <1>2
  <2> QED  BY <1>1, <1>2, <2>1
<1>5. k = 0
  BY <1>2, <1>3, <1>4
<1> QED  BY <1>2, <1>5 DEF r

LEMMA ConformingUnrefused ==
    ASSUME NEW v \in Int, NEW rule \in Rule, Garbage \notin {rule.min, rule.max, rule.step},
           Conforms(v, rule)
    PROVE  ~RuleRaises(v, rule) /\ ~BelowMin(v, rule) /\ ~AboveMax(v, rule) /\ ~OffStep(v, rule)
<1>1. rule.min \in Nat /\ rule.max \in Nat /\ rule.step \in Nat
  BY DEF Rule
<1>2. {NaN, Infinity, NegInfinity} \cap Int = {}
  BY DecimalAssumption DEF Specials
<1>3. ~RuleRaises(v, rule)
  BY <1>2 DEF RuleRaises
<1>4. ~BelowMin(v, rule) /\ ~AboveMax(v, rule)
  BY <1>1, <1>2 DEF BelowMin, AboveMax, Less, Conforms
<1>5. ~OffStep(v, rule)
  <2> SUFFICES ASSUME rule.step > 0 PROVE v % rule.step = 0
    BY DEF OffStep, IsMultipleOf
  <2>1. PICK n \in 0 .. v : v = n * rule.step
    BY <1>1 DEF Conforms
  <2>2. n \in Nat /\ rule.step \in Nat
    BY <1>1
  <2>3. (n * rule.step) % rule.step = 0
    BY <2>2, NoRemainder
  <2> QED  BY <2>1, <2>3
<1> QED  BY <1>3, <1>4, <1>5

\* A rule of a readable instrument has numbers for its limits.
LEMMA ReadableRules ==
    ASSUME NEW inst \in Instrument, Readable(inst)
    PROVE  /\ inst.priceFilter # None =>
                 inst.priceFilter \in Rule /\ Garbage \notin {inst.priceFilter.min,
                                          inst.priceFilter.max, inst.priceFilter.step}
           /\ \A market : LotRule(inst, market) # None =>
                 /\ LotRule(inst, market) \in Rule
                 /\ Garbage \notin {LotRule(inst, market).min, LotRule(inst, market).max,
                                    LotRule(inst, market).step}
           /\ inst.notional # None =>
                 inst.notional \in NotionalFilter
                 /\ Garbage \notin {inst.notional.min, inst.notional.max}
  BY DEF Readable, LotRule, Instrument

LEMMA AdmissibleUnrefused ==
    ASSUME NEW i \in Intent, NEW inst \in Instrument, Numeric(i), Readable(inst), Admissible(i, inst)
    PROVE  FilterObjection(i, inst) = "NONE"
<1>1. i.price \in Int /\ i.quantity \in Int /\ i.market \in BOOLEAN
  BY DEF Numeric, Intent
<1>2. PriceObjection(i.price, inst) = "NONE"
  <2>1. CASE inst.priceFilter = None
    BY <2>1 DEF PriceObjection, Admissible
  <2>2. CASE inst.priceFilter # None
    <3>1. Conforms(i.price, inst.priceFilter)
      BY <2>2 DEF Admissible
    <3> QED  BY <1>1, <2>2, <3>1, ReadableRules, ConformingUnrefused DEF PriceObjection
  <2> QED  BY <2>1, <2>2
<1>3. QuantityObjection(i.quantity, i.market, inst) = "NONE"
  <2>1. CASE inst.lotSize = None /\ ~RequireLot
    BY <2>1 DEF QuantityObjection
  <2>2. CASE ~(inst.lotSize = None /\ ~RequireLot)
    <3>1. LotRule(inst, i.market) # None /\ Conforms(i.quantity, LotRule(inst, i.market))
      BY <2>2 DEF Admissible
    <3> QED  BY <1>1, <3>1, ReadableRules, ConformingUnrefused DEF QuantityObjection
  <2> QED  BY <2>1, <2>2
<1>4. NotionalObjection(i.price, i.quantity, inst) = "NONE"
  <2> DEFINE nf == inst.notional
  <2> SUFFICES ASSUME nf # None PROVE NotionalObjection(i.price, i.quantity, inst) = "NONE"
    BY DEF NotionalObjection
  <2>1. nf.min \in Nat \cup {None} /\ nf.max \in Nat \cup {None} /\ Garbage \notin {nf.min, nf.max}
    BY ReadableRules DEF NotionalFilter
  <2>2. {NaN, Infinity, NegInfinity} \cap Int = {}
    BY DecimalAssumption DEF Specials
  <2>3. ~NotionalRaises(i.price, i.quantity, nf)
    BY <1>1, <2>1, <2>2 DEF NotionalRaises
  <2>4. Times(i.price, i.quantity) = i.price * i.quantity /\ i.price * i.quantity \in Int
    BY <1>1 DEF Times
  <2>5. Worth(i.price, i.quantity, nf)
    BY DEF Admissible
  <2>6. /\ nf.min # None => ~Less(i.price * i.quantity, nf.min)
        /\ nf.max # None => ~Less(nf.max, i.price * i.quantity)
    <3> DEFINE w == i.price * i.quantity
    <3>1. w \in Int /\ (nf.min # None => nf.min <= w) /\ (nf.max # None => w <= nf.max)
      BY <2>4, <2>5 DEF Worth
    <3>2. (nf.min # None => ~Less(w, nf.min)) /\ (nf.max # None => ~Less(nf.max, w))
      <4> HIDE DEF w
      <4> QED  BY <2>1, <2>2, <3>1 DEF Less
    <3> QED  BY <3>2
  <2>7. ~NotionalRefused(i.price, i.quantity, nf)
    BY <2>4, <2>6 DEF NotionalRefused
  <2> QED  BY <2>3, <2>7 DEF NotionalObjection
<1> QED  BY <1>2, <1>3, <1>4 DEF FilterObjection

LEMMA HealthyUnrefused ==
    ASSUME NEW m \in MarketState \cup {None}, Healthy(m)
    PROVE  MarketObjection(m) = "NONE"
<1>1. CASE m = None
  BY <1>1 DEF MarketObjection
<1>2. CASE m # None
  <2>1. m.connection = "CONNECTED" /\ m.age = "fresh" /\ m.metadata # "old"
    BY <1>2 DEF Healthy
  <2>2. "fresh" # None
    BY GateAssumption
  <2>3. Health(m) = "OK"
    BY <2>1, <2>2 DEF Health
  <2> QED  BY <1>2, <2>1, <2>3 DEF MarketObjection
<1> QED  BY <1>1, <1>2

(***************************************************************************)
(* The gate refuses nothing but what its filters, its metadata and the     *)
(* market give a reason for, whatever they are (gate.py:58-216).           *)
(***************************************************************************)
THEOREM AdmissibleAlwaysPasses == Spec => []AdmissiblePasses
<1>1. GateInv => AdmissiblePasses
  <2> DEFINE i == call.intent
             inst == call.instrument
  <2> SUFFICES ASSUME GateInv, call # None, i.symbol # None, Numeric(i), Executable(inst),
                      Readable(inst), Healthy(call.market), Admissible(i, inst)
               PROVE  Passed
    BY DEF AdmissiblePasses
  <2>1. /\ i \in Intent /\ inst \in Instrument /\ call.market \in MarketState \cup {None}
        /\ call.reason = Reason(i, call.market, inst)
    BY DEF GateInv, Executable
  <2>2. {i.price, i.quantity} \cap {None, Garbage, Scientific} = {}
    BY DecimalAssumption DEF Numeric, Specials
  <2>3. Classify(inst.symbolType) = "ELIGIBLE_FOR_EXECUTION" /\ inst # None
        /\ inst.status \in TradingStatuses
    BY DEF Executable, Classify
  <2>4. MarketObjection(call.market) = "NONE" /\ FilterObjection(i, inst) = "NONE"
    BY <2>1, HealthyUnrefused, AdmissibleUnrefused
  <2>5. Reason(i, call.market, inst) = "NONE"
    BY <2>2, <2>3, <2>4 DEF Reason
  <2> QED  BY <2>1, <2>5 DEF Passed, VerdictOf
<1> QED  BY <1>1, GateInvHolds, PTL

(***************************************************************************)
(* validate raises only for a filter or a number it cannot calculate with, *)
(* and never before the instrument and the market have been agreed to.     *)
(***************************************************************************)
THEOREM RaisesLast == Spec => []RaisesOnlyAtFilters
<1>1. GateInv => RaisesOnlyAtFilters
  <2> DEFINE i == call.intent
             inst == call.instrument
             m == call.market
  <2> SUFFICES ASSUME GateInv, call # None, call.reason = "RAISES"
               PROVE  /\ Executable(inst) /\ Healthy(m)
                      /\ Readable(inst) => ~Numeric(i)
    BY DEF RaisesOnlyAtFilters
  <2>1. /\ i \in Intent /\ inst \in Instrument \cup {None} /\ m \in MarketState \cup {None}
        /\ Reason(i, m, inst) = "RAISES"
    BY DEF GateInv
  <2>2. MarketObjection(m) # "RAISES"
    <3>1. m # None => Health(m) \in {"DISCONNECTED", "STALE", "UNKNOWN", "OK"}
      BY <2>1 DEF Health, MarketState
    <3> QED  BY <3>1 DEF MarketObjection
  <2>3. /\ inst # None
        /\ Classify(inst.symbolType) = "ELIGIBLE_FOR_EXECUTION"
        /\ inst.status \in TradingStatuses
        /\ MarketObjection(m) = "NONE"
        /\ FilterObjection(i, inst) = "RAISES"
    BY <2>1, <2>2 DEF Reason
  <2>4. Executable(inst) /\ Healthy(m)
    BY <2>1, <2>3, MarketAccepted DEF Executable, Classify
  <2>5. ASSUME Readable(inst), Numeric(i) PROVE FALSE
    <3>1. inst \in Instrument /\ i.price \in Int /\ i.quantity \in Int
      BY <2>1, <2>3, <2>5 DEF Numeric
    <3>2. NaN \notin Int
      BY DecimalAssumption DEF Specials
    <3>3. PriceObjection(i.price, inst) # "RAISES"
      BY <2>5, <3>1, <3>2, ReadableRules DEF PriceObjection, RuleRaises
    <3>4. QuantityObjection(i.quantity, i.market, inst) # "RAISES"
      BY <2>5, <3>1, <3>2, ReadableRules DEF QuantityObjection, RuleRaises
    <3>5. NotionalObjection(i.price, i.quantity, inst) # "RAISES"
      BY <2>5, <3>1, <3>2, ReadableRules DEF NotionalObjection, NotionalRaises
    <3> QED  BY <2>3, <3>3, <3>4, <3>5 DEF FilterObjection
  <2> QED  BY <2>4, <2>5
<1> QED  BY <1>1, GateInvHolds, PTL
-----------------------------------------------------------------------------
(***************************************************************************)
(* From here on the table of instruments is the one made of a list of      *)
(* symbols.  Loading a list is setting the instruments.                    *)
(***************************************************************************)
THEOREM ListedIsGate == ListedSpec => Spec
<1>1. ListedInit => Init
  BY ListingAssumption DEF ListedInit, Init
<1>2. [ListedNext]_listedVars => [Next]_gateVars
  <2> SUFFICES ASSUME [ListedNext]_listedVars
               PROVE  [Next]_gateVars
    OBVIOUS
  <2>1. ASSUME NEW body \in Loadable, LoadSymbols(body)
        PROVE  Next
    BY <2>1, ListingAssumption DEF LoadSymbols, Next
  <2>2. ASSUME NEW i \in Intents, NEW m \in Markets, Validate(i, m)
        PROVE  Next
    BY <2>2 DEF Next
  <2>3. CASE Return
    BY <2>3 DEF Next
  <2>4. CASE UNCHANGED listedVars
    BY <2>4 DEF listedVars, gateVars
  <2> QED  BY <2>1, <2>2, <2>3, <2>4 DEF ListedNext
<1> QED  BY <1>1, <1>2, PTL DEF ListedSpec, Spec

\* What is proved of any tables holds of those made of the exchange's lists.
COROLLARY ListedGateHolds ==
    ListedSpec => []/\ PassIsAdmissible
                    /\ AdmissiblePasses
                    /\ PassIsBounded
                    /\ RaisesOnlyAtFilters
  BY ListedIsGate, PassMeansAdmissible, AdmissibleAlwaysPasses, PassMeansBounded, RaisesLast, PTL

(***************************************************************************)
(* The table is the one made of the latest answer, and a call under way    *)
(* has looked its instrument up there.                                     *)
(***************************************************************************)
ListedInv ==
    /\ listing \in Loadable
    /\ instruments = TableOf(GetSymbols(listing))
    /\ call # None =>
          call.instrument = IF call.intent.symbol = None THEN None
                            ELSE Lookup(call.intent.symbol, instruments)

LEMMA ListedInvHolds == ListedSpec => []ListedInv
<1>1. ListedInit => ListedInv
  BY DEF ListedInit, ListedInv
<1>2. ListedInv /\ [ListedNext]_listedVars => ListedInv'
  <2> SUFFICES ASSUME ListedInv, [ListedNext]_listedVars
               PROVE  ListedInv'
    OBVIOUS
  <2>1. ASSUME NEW body \in Loadable, LoadSymbols(body)
        PROVE  ListedInv'
    BY <2>1 DEF LoadSymbols, SetInstruments, ListedInv
  <2>2. ASSUME NEW i \in Intents, NEW m \in Markets, Validate(i, m), UNCHANGED listing
        PROVE  ListedInv'
    <3> DEFINE inst == IF i.symbol = None THEN None ELSE Lookup(i.symbol, instruments)
    <3>1. /\ call' = [intent |-> i, market |-> m, instrument |-> inst,
                      reason |-> Reason(i, m, inst)]
          /\ UNCHANGED <<instruments, listing>>
      BY <2>2 DEF Validate
    <3>2. call'.instrument = inst /\ call'.intent = i
      BY <3>1
    <3> QED  BY <3>1, <3>2 DEF ListedInv
  <2>3. CASE Return /\ UNCHANGED listing
    BY <2>3 DEF Return, ListedInv
  <2>4. CASE UNCHANGED listedVars
    BY <2>4 DEF listedVars, gateVars, ListedInv
  <2> QED  BY <2>1, <2>2, <2>3, <2>4 DEF ListedNext
<1> QED  BY <1>1, <1>2, PTL DEF ListedSpec

(***************************************************************************)
(* The parsers: j.get(key) decides where there is one name to look under.  *)
(***************************************************************************)
LEMMA OneName ==
    ASSUME NEW j, NEW k
    PROVE  LET v == Rest!Get(j, k, Rest!Null)
           IN  Rest!FirstTrue(j, <<k>>) = IF Rest!Truthy(v) THEN v ELSE Rest!Null
  <1> DEFINE keys == <<k>>
             hits == {i \in 1 .. 1 : Rest!Truthy(Rest!Get(j, keys[i], Rest!Null))}
  <1>1. DOMAIN keys = 1 .. 1 /\ keys[1] = k
    OBVIOUS
  <1>2. Rest!FirstTrue(j, keys)
          = IF hits = {} THEN Rest!Null
            ELSE Rest!Get(j, keys[CHOOSE i \in hits : \A n \in hits : i <= n], Rest!Null)
    BY <1>1 DEF Rest!FirstTrue, Rest!Min
  <1> QED
    BY <1>1, <1>2

\* A symbol keeps its name.
LEMMA NameKept ==
    ASSUME NEW raw, WellListed(raw)
    PROVE  Rest!ParseInstrument(raw).symbol = raw.of["symbol"].of
<1>1. Rest!Get(raw, "symbol", Rest!Null) = raw.of["symbol"] /\ raw.of["symbol"].is = "atom"
  BY DEF WellListed, Rest!Get
<1>2. Rest!Truthy(raw.of["symbol"])
  BY <1>1 DEF Rest!Truthy
<1>3. Rest!FirstTrue(raw, <<"symbol">>) = raw.of["symbol"]
  BY <1>1, <1>2, OneName
<1> QED  BY <1>2, <1>3 DEF Rest!ParseInstrument, Rest!ValueOr

(***************************************************************************)
(* _filter_by_type finds the filter of the type, if there is one.          *)
(***************************************************************************)
LEMMA FilterFound ==
    ASSUME NEW raw, WellListed(raw), NEW type
    PROVE  LET f == Rest!FilterByType(Rest!FirstTrue(raw, <<"filters">>), type)
               rows == {g \in Rest!Rows(raw.of["filters"]) : g.of["filterType"].of = type}
           IN  /\ rows = IF f = Rest!Null THEN {} ELSE {f}
               /\ f # Rest!Null => WellFormed(f)
<1> DEFINE filters == raw.of["filters"]
           parsed == Rest!FirstTrue(raw, <<"filters">>)
           f == Rest!FilterByType(parsed, type)
           places == {i \in Rest!Positions(filters) : filters.of[i].of["filterType"].of = type}
           hits == {i \in Rest!Positions(parsed) :
                       Rest!Get(parsed.of[i], "filterType", Rest!Null) = Rest!Atom(type)}
<1>1. parsed = IF Rest!Truthy(filters) THEN filters ELSE Rest!Null
  BY OneName DEF WellListed, Rest!Get
<1>2. /\ InOrder(filters)
      /\ \A i \in Rest!Positions(filters) :
            /\ WellFormed(filters.of[i])
            /\ \A j \in Rest!Positions(filters) :
                  filters.of[i].of["filterType"].of = filters.of[j].of["filterType"].of => i = j
  BY DEF WellListed, SameLimit
<1>3. Rest!Rows(filters) = {filters.of[i] : i \in Rest!Positions(filters)}
  BY DEF Rest!Rows, Rest!Positions, Rest!Range
<1>4. {g \in Rest!Rows(filters) : g.of["filterType"].of = type} = {filters.of[i] : i \in places}
  BY <1>3
<1>5. hits = places
  <2>1. CASE ~Rest!Truthy(filters)
    <3>1. Rest!Positions(filters) = {}
      BY <2>1 DEF Rest!Positions, Rest!Truthy
    <3>2. Rest!Positions(parsed) = {}
      BY <1>1, <2>1 DEF Rest!Positions, Rest!Null
    <3> QED  BY <3>1, <3>2
  <2>2. CASE Rest!Truthy(filters)
    <3>1. parsed = filters
      BY <1>1, <2>2
    <3>2. ASSUME NEW i \in Rest!Positions(filters)
          PROVE  Rest!Get(filters.of[i], "filterType", Rest!Null) = Rest!Atom(type)
                    <=> filters.of[i].of["filterType"].of = type
      <4>1. WellFormed(filters.of[i])
        BY <1>2
      <4>2. /\ "filterType" \in DOMAIN filters.of[i].of
            /\ filters.of[i].of["filterType"] = Rest!Atom(filters.of[i].of["filterType"].of)
        BY <4>1 DEF WellFormed
      <4> QED  BY <4>2 DEF Rest!Get, Rest!Atom
    <3> QED  BY <3>1, <3>2
  <2> QED  BY <2>1, <2>2
<1>6. f = IF hits = {} THEN Rest!Null ELSE parsed.of[CHOOSE i \in hits : \A n \in hits : i <= n]
  BY DEF Rest!FilterByType, Rest!Min
<1>7. CASE places = {}
  BY <1>4, <1>5, <1>6, <1>7
<1>8. CASE places # {}
  <2>1. PICK i \in places : TRUE
    BY <1>8
  <2>2. places = {i}
    BY <1>2, <2>1
  <2>3. filters.is = "array" /\ i \in DOMAIN filters.of /\ filters.of[i].is = "object"
    BY <2>1 DEF Rest!Positions
  <2>4. i \in Int
    BY <1>2, <2>3 DEF InOrder
  <2>5. Rest!Truthy(filters)
    BY <2>3 DEF Rest!Truthy
  <2>6. (CHOOSE k \in places : \A n \in places : k <= n) = i
    BY <2>2, <2>4
  <2>7. f = filters.of[i]
    BY <1>1, <1>5, <1>6, <1>8, <2>5, <2>6
  <2>8. f # Rest!Null
    BY <2>3, <2>7 DEF Rest!Null
  <2>9. WellFormed(f)
    BY <1>2, <2>1, <2>7
  <2> QED  BY <1>4, <2>2, <2>7, <2>8, <2>9
<1> QED  BY <1>7, <1>8

(***************************************************************************)
(* The instrument found in the table of a list is the one parsed from the  *)
(* place where the list has the symbol, under either spelling.             *)
(***************************************************************************)
HasSymbol(body, i, s) ==
    /\ i \in Rest!Positions(SymbolList(body))
    /\ Underscored(SymbolList(body).of[i].of["symbol"].of) = Underscored(s)

LEMMA InstrumentFound ==
    ASSUME NEW body \in Loadable, NEW s \in Symbols,
           Lookup(s, TableOf(GetSymbols(body))) # None
    PROVE  \E i : /\ HasSymbol(body, i, s)
                  /\ Lookup(s, TableOf(GetSymbols(body)))
                        = Rest!ParseInstrument(SymbolList(body).of[i])
<1> DEFINE list == SymbolList(body)
           parsed == GetSymbols(body)
           raw(i) == list.of[i]
<1>1. /\ DOMAIN parsed = Rest!Positions(list)
      /\ \A i \in DOMAIN parsed : parsed[i] = Rest!ParseInstrument(raw(i))
  BY DEF GetSymbols, Rest!ParseSymbols, SymbolList
<1>2. \A i \in Rest!Positions(list) :
         /\ WellListed(raw(i))
         /\ \A j \in Rest!Positions(list) :
               Underscored(raw(i).of["symbol"].of) = Underscored(raw(j).of["symbol"].of) => i = j
  BY ListingAssumption
<1>3. \A i \in DOMAIN parsed : parsed[i].symbol = raw(i).of["symbol"].of
  BY <1>1, <1>2, NameKept
<1> HIDE DEF parsed, list
<1>4. ASSUME NEW t \in DOMAIN TableOf(parsed)
      PROVE  \E i \in DOMAIN parsed : parsed[i].symbol = t /\ TableOf(parsed)[t] = parsed[i]
  <2>1. PICK i \in DOMAIN parsed : parsed[i].symbol = t
    BY <1>4 DEF TableOf
  <2>2. \A j \in DOMAIN parsed : parsed[j].symbol = t => j = i
    BY <1>1, <1>2, <1>3, <2>1
  <2> DEFINE last(j) == parsed[j].symbol = t /\ \A k \in DOMAIN parsed : k > j => parsed[k].symbol # t
  <2>3. TableOf(parsed)[t] = parsed[CHOOSE j \in DOMAIN parsed : last(j)]
    BY <1>4 DEF TableOf
  <2>4. ~(i > i)
    <3>1. i \in Rest!Positions(list)
      BY <1>1, <2>1
    <3>2. i \in Int
      BY <3>1, ListingAssumption DEF Rest!Positions, InOrder, list
    <3> QED  BY <3>2
  <2>5. last(i)
    BY <2>1, <2>2, <2>4
  <2>6. \A j \in DOMAIN parsed : last(j) => j = i
    BY <2>2
  <2> HIDE DEF last
  <2>7. (CHOOSE j \in DOMAIN parsed : last(j)) = i
    BY <2>1, <2>5, <2>6
  <2> QED  BY <2>1, <2>3, <2>7
<1>5. PICK t \in DOMAIN TableOf(parsed) :
         t \in {Underscored(s), s} /\ Lookup(s, TableOf(parsed)) = TableOf(parsed)[t]
  BY DEF Lookup, parsed
<1>6. PICK i \in DOMAIN parsed : parsed[i].symbol = t /\ TableOf(parsed)[t] = parsed[i]
  BY <1>4
<1>7. Underscored(t) = Underscored(s)
  BY <1>5 DEF Underscored, Symbols
<1>8. HasSymbol(body, i, s)
  BY <1>1, <1>3, <1>6, <1>7 DEF HasSymbol, list
<1> QED  BY <1>1, <1>5, <1>6, <1>8 DEF parsed, list

\* The list has a symbol in one place only.
LEMMA SymbolOnce ==
    ASSUME NEW body \in Loadable, NEW s, NEW i, NEW j, HasSymbol(body, i, s), HasSymbol(body, j, s)
    PROVE  i = j
  BY ListingAssumption DEF HasSymbol

(***************************************************************************)
(* What passes has a symbol and an instrument, and they belong together.   *)
(***************************************************************************)
LEMMA PassedIsListed ==
    ASSUME GateInv, ListedInv, Passed
    PROVE  /\ call.intent \in Intent /\ call.intent.symbol \in Symbols
           /\ call.instrument \in Instrument
           /\ Classify(call.instrument.symbolType) = "ELIGIBLE_FOR_EXECUTION"
           /\ \E i : /\ HasSymbol(listing, i, call.intent.symbol)
                     /\ call.instrument = Rest!ParseInstrument(SymbolList(listing).of[i])
<1>1. call # None /\ call.reason = "NONE"
  BY DEF Passed, VerdictOf
<1>2. /\ call.intent \in Intent
      /\ call.instrument \in Instrument \cup {None}
      /\ Reason(call.intent, call.market, call.instrument) = "NONE"
  BY <1>1 DEF GateInv
<1>3. /\ call.intent.symbol # None /\ call.instrument # None
      /\ Classify(call.instrument.symbolType) = "ELIGIBLE_FOR_EXECUTION"
  BY <1>2 DEF Reason
<1>4. call.intent.symbol \in Symbols
  BY <1>2, <1>3 DEF Intent
<1>5. listing \in Loadable /\ call.instrument = Lookup(call.intent.symbol, TableOf(GetSymbols(listing)))
  BY <1>1, <1>3 DEF ListedInv
<1> QED  BY <1>2, <1>3, <1>4, <1>5, InstrumentFound

(***************************************************************************)
(* The router, which takes the first of a list, and the table, made of the *)
(* last, agree on every pair that is listed once.                          *)
(***************************************************************************)
THEOREM GateAgreesWithRouter == ListedSpec => []RouteAgrees
<1>1. GateInv /\ ListedInv => RouteAgrees
  <2> SUFFICES ASSUME GateInv, ListedInv, Passed
               PROVE  RouteForSymbol(call.intent.symbol, GetSymbols(listing))
                         = "ELIGIBLE_FOR_EXECUTION"
    BY DEF RouteAgrees
  <2> DEFINE s == call.intent.symbol
             list == SymbolList(listing)
             parsed == GetSymbols(listing)
             hits == {j \in DOMAIN parsed : Underscored(parsed[j].symbol) = Underscored(s)}
  <2>1. listing \in Loadable
    BY DEF ListedInv
  <2>2. PICK i : /\ HasSymbol(listing, i, s)
                 /\ call.instrument = Rest!ParseInstrument(list.of[i])
    BY PassedIsListed
  <2>3. /\ DOMAIN parsed = Rest!Positions(list)
        /\ \A j \in DOMAIN parsed : parsed[j] = Rest!ParseInstrument(list.of[j])
    BY DEF GetSymbols, Rest!ParseSymbols, SymbolList
  <2>4. \A j \in DOMAIN parsed : parsed[j].symbol = list.of[j].of["symbol"].of
    BY <2>1, <2>3, NameKept, ListingAssumption
  <2>5. \A j : j \in hits <=> HasSymbol(listing, j, s)
    BY <2>3, <2>4 DEF HasSymbol
  <2>6. hits = {i}
    BY <2>1, <2>2, <2>5, SymbolOnce
  <2>7. i \in Int
    BY <2>1, <2>2, ListingAssumption DEF HasSymbol, Rest!Positions, InOrder
  <2>8. (CHOOSE k \in hits : \A n \in hits : k <= n) = i
    BY <2>6, <2>7
  <2>9. parsed[i] = call.instrument
    BY <2>2, <2>3, <2>6
  <2>10. RouteForSymbol(s, parsed) = Classify(parsed[i].symbolType)
    BY <2>6, <2>8 DEF RouteForSymbol, Min
  <2> QED  BY <2>9, <2>10, PassedIsListed
<1> QED  BY <1>1, GateInvHolds, ListedIsGate, ListedInvHolds, PTL

(***************************************************************************)
(* The filters sent for a symbol are those the parser finds.               *)
(***************************************************************************)
ParsedFilters(i) == Rest!FirstTrue(SymbolList(listing).of[i], <<"filters">>)

LEMMA SentForPlace ==
    ASSUME listing \in Loadable, NEW s, NEW i, HasSymbol(listing, i, s), NEW types
    PROVE  SentFilters(s, types)
              = {g \in Rest!Rows(SymbolList(listing).of[i].of["filters"]) :
                    g.of["filterType"].of \in types}
<1> DEFINE list == SymbolList(listing)
           raws == {r \in Rest!Rows(list) : Underscored(r.of["symbol"].of) = Underscored(s)}
<1>1. Rest!Rows(list) = {list.of[j] : j \in Rest!Positions(list)}
  BY DEF Rest!Rows, Rest!Positions, Rest!Range
<1>2. \A j \in Rest!Positions(list) :
         Underscored(list.of[j].of["symbol"].of) = Underscored(s) => j = i
  BY SymbolOnce DEF HasSymbol
<1>3. raws = {list.of[i]}
  BY <1>1, <1>2 DEF HasSymbol
<1> QED  BY <1>3 DEF SentFilters

LEMMA SentIsFound ==
    ASSUME listing \in Loadable, NEW s, NEW i, HasSymbol(listing, i, s), NEW type
    PROVE  LET f == Rest!FilterByType(ParsedFilters(i), type)
           IN  /\ SentFilters(s, {type}) = IF f = Rest!Null THEN {} ELSE {f}
               /\ f # Rest!Null => WellFormed(f)
<1> DEFINE raw == SymbolList(listing).of[i]
<1>1. WellListed(raw)
  BY ListingAssumption DEF HasSymbol
<1>2. SentFilters(s, {type}) = {g \in Rest!Rows(raw.of["filters"]) : g.of["filterType"].of = type}
  BY SentForPlace
<1> HIDE DEF raw
<1> QED  BY <1>1, <1>2, FilterFound DEF ParsedFilters, raw

\* The limits of an order's value have two names, of which one is used.
LEMMA SentNotionalIsFound ==
    ASSUME listing \in Loadable, NEW s, NEW i, HasSymbol(listing, i, s)
    PROVE  LET f == Rest!NotionalRow(ParsedFilters(i))
           IN  /\ SentFilters(s, {"NOTIONAL", "MIN_NOTIONAL"})
                     = IF f = Rest!Null THEN {} ELSE {f}
               /\ f # Rest!Null => WellFormed(f)
<1> DEFINE raw == SymbolList(listing).of[i]
           filters == raw.of["filters"]
           sent(types) == {g \in Rest!Rows(filters) : g.of["filterType"].of \in types}
           new == Rest!FilterByType(ParsedFilters(i), "NOTIONAL")
           old == Rest!FilterByType(ParsedFilters(i), "MIN_NOTIONAL")
<1>1. WellListed(raw)
  BY ListingAssumption DEF HasSymbol
<1>2. /\ SentFilters(s, {"NOTIONAL"}) = sent({"NOTIONAL"})
      /\ SentFilters(s, {"MIN_NOTIONAL"}) = sent({"MIN_NOTIONAL"})
      /\ SentFilters(s, {"NOTIONAL", "MIN_NOTIONAL"}) = sent({"NOTIONAL", "MIN_NOTIONAL"})
  BY SentForPlace
<1>3. sent({"NOTIONAL", "MIN_NOTIONAL"}) = sent({"NOTIONAL"}) \cup sent({"MIN_NOTIONAL"})
  OBVIOUS
<1>4. sent({"NOTIONAL"}) = {} \/ sent({"MIN_NOTIONAL"}) = {}
  <2> SUFFICES ASSUME NEW g \in sent({"NOTIONAL"}), NEW h \in sent({"MIN_NOTIONAL"})
               PROVE  FALSE
    OBVIOUS
  <2>1. Rest!Rows(filters) = {filters.of[k] : k \in Rest!Positions(filters)}
    BY DEF Rest!Rows, Rest!Positions, Rest!Range
  <2>2. PICK k \in Rest!Positions(filters) : g = filters.of[k]
    BY <2>1
  <2>3. PICK m \in Rest!Positions(filters) : h = filters.of[m]
    BY <2>1
  <2>4. /\ filters.of[k].of["filterType"].of = "NOTIONAL"
        /\ filters.of[m].of["filterType"].of = "MIN_NOTIONAL"
    BY <2>2, <2>3
  <2>5. SameLimit(filters.of[k].of["filterType"].of, filters.of[m].of["filterType"].of)
    BY <2>4 DEF SameLimit
  <2>6. k = m
    BY <1>1, <2>5 DEF WellListed
  <2> QED  BY <2>4, <2>6
<1>5. /\ SentFilters(s, {"NOTIONAL"}) = IF new = Rest!Null THEN {} ELSE {new}
      /\ SentFilters(s, {"MIN_NOTIONAL"}) = IF old = Rest!Null THEN {} ELSE {old}
      /\ new # Rest!Null => WellFormed(new)
      /\ old # Rest!Null => WellFormed(old)
  BY SentIsFound
<1> HIDE DEF sent, new, old
<1>6. Rest!NotionalRow(ParsedFilters(i)) = IF new # Rest!Null THEN new ELSE old
  BY DEF Rest!NotionalRow, new, old
<1> QED  BY <1>2, <1>3, <1>4, <1>5, <1>6

(***************************************************************************)
(* A number that was sent is the limit of the rule parsed from it.         *)
(***************************************************************************)
LEMMA NumberIsLimit ==
    ASSUME NEW f, NEW key, NEW n \in SentNumbers(f, key)
    PROVE  n \in Int /\ Rest!LimitText(f, key) = n /\ Rest!GetOrMissing(f, key) = n
<1>1. key \in DOMAIN f.of /\ f.of[key] # Rest!Null /\ n = f.of[key].of /\ n \in Int
  BY DEF SentNumbers
<1> QED  BY <1>1 DEF Rest!LimitText, Rest!GetOrMissing, Rest!Get

LEMMA ParsedRule ==
    ASSUME NEW f, WellFormed(f), f # Rest!Null,
           NEW least \in LimitKeys, NEW largest \in LimitKeys, NEW step \in LimitKeys
    PROVE  /\ Rest!ParseRule(f, least, largest, step) \in Rule
           /\ Rest!ParseRule(f, least, largest, step) # None
           /\ Rest!ParseRule(f, least, largest, step).min = Rest!LimitText(f, least)
           /\ Rest!ParseRule(f, least, largest, step).max = Rest!LimitText(f, largest)
           /\ Rest!ParseRule(f, least, largest, step).step = Rest!LimitText(f, step)
<1>1. ASSUME NEW key \in LimitKeys
      PROVE  Rest!LimitText(f, key) \in Nat \cup {Garbage}
  <2>1. CASE key \in DOMAIN f.of
    <3>1. f.of[key] = Rest!Null \/ f.of[key].of \in Nat \cup {Garbage}
      BY <2>1 DEF WellFormed
    <3> QED  BY <2>1, <3>1 DEF Rest!LimitText, Rest!Get
  <2>2. CASE key \notin DOMAIN f.of
    BY <2>2 DEF Rest!LimitText, Rest!Get, Rest!Atom, Rest!Null
  <2> QED  BY <2>1, <2>2
<1>2. Rest!ParseRule(f, least, largest, step)
         = [min |-> Rest!LimitText(f, least), max |-> Rest!LimitText(f, largest),
            step |-> Rest!LimitText(f, step)]
  BY DEF Rest!ParseRule
<1>3. Rest!ParseRule(f, least, largest, step) \in Rule
  BY <1>1, <1>2 DEF Rule
<1> QED  BY <1>2, <1>3, DecimalAssumption

LEMMA ParsedNotional ==
    ASSUME NEW f, WellFormed(f), f # Rest!Null
    PROVE  Rest!ParseNotional(f) # None
<1>1. ASSUME NEW key \in LimitKeys
      PROVE  Rest!GetOrMissing(f, key) \in Nat \cup {Garbage, None}
  <2>1. CASE key \in DOMAIN f.of
    <3>1. f.of[key] = Rest!Null \/ f.of[key].of \in Nat \cup {Garbage}
      BY <2>1 DEF WellFormed
    <3> QED  BY <2>1, <3>1 DEF Rest!GetOrMissing, Rest!Get
  <2>2. CASE key \notin DOMAIN f.of
    BY <2>2 DEF Rest!GetOrMissing, Rest!Get
  <2> QED  BY <2>1, <2>2
<1>2. Rest!ParseNotional(f) \in NotionalFilter
  BY <1>1 DEF Rest!ParseNotional, NotionalFilter, LimitKeys
<1> QED  BY <1>2, DecimalAssumption

\* A value that is what a rule asks is within the limits that were sent for it, and
\* on the steps.
LEMMA ConformingIsWithin ==
    ASSUME NEW v \in Int, NEW f, NEW least, NEW largest, NEW step, NEW rule,
           rule.min = Rest!LimitText(f, least), rule.max = Rest!LimitText(f, largest),
           rule.step = Rest!LimitText(f, step), Conforms(v, rule)
    PROVE  Within(v, {f}, least, largest) /\ OnSteps(v, {f}, step)
<1>1. ASSUME NEW n \in SentNumbers(f, least)
      PROVE  n <= v
  BY NumberIsLimit DEF Conforms
<1>2. ASSUME NEW n \in SentNumbers(f, largest)
      PROVE  n = 0 \/ v <= n
  BY NumberIsLimit DEF Conforms
<1>3. ASSUME NEW n \in SentNumbers(f, step)
      PROVE  n = 0 \/ \E k \in 0 .. v : v = k * n
  <2>1. rule.step = n
    BY NumberIsLimit
  <2> QED  BY <2>1 DEF Conforms
<1> QED  BY <1>1, <1>2, <1>3 DEF Within, OnSteps

LEMMA WorthIsWithin ==
    ASSUME NEW p \in Int, NEW q \in Int, NEW f, f # Rest!Null, Worth(p, q, Rest!ParseNotional(f))
    PROVE  Within(p * q, {f}, "minNotional", "maxNotional")
<1> DEFINE nf == Rest!ParseNotional(f)
           w == p * q
<1>1. /\ nf.min = Rest!GetOrMissing(f, "minNotional")
      /\ nf.max = Rest!GetOrMissing(f, "maxNotional")
  BY DEF Rest!ParseNotional
<1>2. (nf.min = None \/ nf.min <= w) /\ (nf.max = None \/ w <= nf.max)
  BY DEF Worth
<1> HIDE DEF nf, w
<1>3. None \notin Int
  BY DecimalAssumption DEF Specials
<1>4. ASSUME NEW n \in SentNumbers(f, "minNotional")
      PROVE  n <= w
  BY <1>1, <1>2, <1>3, <1>4, NumberIsLimit
<1>5. ASSUME NEW n \in SentNumbers(f, "maxNotional")
      PROVE  n = 0 \/ w <= n
  BY <1>1, <1>2, <1>3, <1>5, NumberIsLimit
<1> QED  BY <1>4, <1>5 DEF Within, w

(***************************************************************************)
(* Whatever limits the exchange sends, under whichever names, a passed     *)
(* order in numbers is within them and on their ticks and steps            *)
(* (parsers.py:22-84, gate.py:53-208).                                     *)
(* A gate told to do without LOT_SIZE takes a market order for unlimited   *)
(* where only MARKET_LOT_SIZE is listed, hence the hypothesis.             *)
(***************************************************************************)
THEOREM SentLimitsEnforced ==
    ASSUME RequireLot
    PROVE  ListedSpec => []SentLimitsHold
<1>1. GateInv /\ ListedInv /\ PassIsAdmissible => SentLimitsHold
  <2> DEFINE o == call.intent
             inst == call.instrument
             marketLots == SentFilters(o.symbol, {"MARKET_LOT_SIZE"})
             lots == IF o.market /\ marketLots # {} THEN marketLots
                     ELSE SentFilters(o.symbol, {"LOT_SIZE"})
             prices == SentFilters(o.symbol, {"PRICE_FILTER"})
             values == SentFilters(o.symbol, {"NOTIONAL", "MIN_NOTIONAL"})
  <2> SUFFICES ASSUME GateInv, ListedInv, PassIsAdmissible, Passed, Numeric(o)
               PROVE  /\ Within(o.price, prices, "minPrice", "maxPrice")
                      /\ OnSteps(o.price, prices, "tickSize")
                      /\ Within(o.quantity, lots, "minQty", "maxQty")
                      /\ OnSteps(o.quantity, lots, "stepSize")
                      /\ Within(o.price * o.quantity, values, "minNotional", "maxNotional")
    BY DEF SentLimitsHold
  <2>1. listing \in Loadable /\ o.price \in Int /\ o.quantity \in Int /\ o.market \in BOOLEAN
    BY PassedIsListed DEF ListedInv, Numeric, Intent
  <2>2. Admissible(o, inst) /\ inst \in Instrument
    BY PassedIsListed DEF PassIsAdmissible
  <2>3. PICK i : /\ HasSymbol(listing, i, o.symbol)
                 /\ inst = Rest!ParseInstrument(SymbolList(listing).of[i])
    BY PassedIsListed
  <2> DEFINE found(type) == Rest!FilterByType(ParsedFilters(i), type)
  <2>4. /\ inst.priceFilter
             = Rest!ParseRule(found("PRICE_FILTER"), "minPrice", "maxPrice", "tickSize")
        /\ inst.lotSize = Rest!ParseRule(found("LOT_SIZE"), "minQty", "maxQty", "stepSize")
        /\ inst.marketLotSize
             = Rest!ParseRule(found("MARKET_LOT_SIZE"), "minQty", "maxQty", "stepSize")
        /\ inst.notional = Rest!ParseNotional(Rest!NotionalRow(ParsedFilters(i)))
    BY <2>3 DEF Rest!ParseInstrument, ParsedFilters
  <2>5. \A type : /\ SentFilters(o.symbol, {type})
                        = IF found(type) = Rest!Null THEN {} ELSE {found(type)}
                  /\ found(type) # Rest!Null => WellFormed(found(type))
    BY <2>1, <2>3, SentIsFound
  <2> HIDE DEF found
  <2>6. {"minPrice", "maxPrice", "tickSize", "minQty", "maxQty", "stepSize"} \subseteq LimitKeys
    BY DEF LimitKeys
  <2>7. Within(o.price, prices, "minPrice", "maxPrice") /\ OnSteps(o.price, prices, "tickSize")
    <3> DEFINE f == found("PRICE_FILTER")
    <3>1. CASE f = Rest!Null
      BY <2>5, <3>1 DEF Within, OnSteps
    <3>2. CASE f # Rest!Null
      <4>1. WellFormed(f)
        BY <2>5, <3>2
      <4>2. /\ inst.priceFilter # None
            /\ inst.priceFilter.min = Rest!LimitText(f, "minPrice")
            /\ inst.priceFilter.max = Rest!LimitText(f, "maxPrice")
            /\ inst.priceFilter.step = Rest!LimitText(f, "tickSize")
        BY <2>4, <2>6, <3>2, <4>1, ParsedRule
      <4>3. Conforms(o.price, inst.priceFilter)
        BY <2>2, <4>2 DEF Admissible
      <4>4. prices = {f}
        BY <2>5, <3>2
      <4> QED  BY <2>1, <4>2, <4>3, <4>4, ConformingIsWithin
    <3> QED  BY <3>1, <3>2
  <2>8. Within(o.quantity, lots, "minQty", "maxQty") /\ OnSteps(o.quantity, lots, "stepSize")
    <3> DEFINE rule == LotRule(inst, o.market)
               f == IF o.market /\ found("MARKET_LOT_SIZE") # Rest!Null
                    THEN found("MARKET_LOT_SIZE") ELSE found("LOT_SIZE")
    <3>1. lots = IF f = Rest!Null THEN {} ELSE {f}
      BY <2>1, <2>5
    <3>2. CASE f = Rest!Null
      BY <3>1, <3>2 DEF Within, OnSteps
    <3>3. CASE f # Rest!Null
      <4>1. WellFormed(f)
        BY <2>5, <3>3
      <4>2. \A type : found(type) # Rest!Null =>
               Rest!ParseRule(found(type), "minQty", "maxQty", "stepSize") # None
        BY <2>5, <2>6, ParsedRule
      <4>3. found("MARKET_LOT_SIZE") = Rest!Null => inst.marketLotSize = None
        BY <2>4 DEF Rest!ParseRule
      <4>4. rule = Rest!ParseRule(f, "minQty", "maxQty", "stepSize")
        BY <2>1, <2>4, <4>2, <4>3 DEF LotRule
      <4>5. /\ rule.min = Rest!LimitText(f, "minQty")
            /\ rule.max = Rest!LimitText(f, "maxQty")
            /\ rule.step = Rest!LimitText(f, "stepSize")
        BY <2>6, <3>3, <4>1, <4>4, ParsedRule
      <4>6. Conforms(o.quantity, rule)
        BY <2>2 DEF Admissible
      <4>7. lots = {f}
        BY <3>1, <3>3
      <4> HIDE DEF rule, f
      <4>8. Within(o.quantity, {f}, "minQty", "maxQty") /\ OnSteps(o.quantity, {f}, "stepSize")
        BY <2>1, <4>5, <4>6, ConformingIsWithin
      <4> QED  BY <4>7, <4>8
    <3> QED  BY <3>2, <3>3
  <2>9. Within(o.price * o.quantity, values, "minNotional", "maxNotional")
    <3> DEFINE f == Rest!NotionalRow(ParsedFilters(i))
    <3>1. values = IF f = Rest!Null THEN {} ELSE {f}
      BY <2>1, <2>3, SentNotionalIsFound
    <3>2. CASE f = Rest!Null
      BY <3>1, <3>2 DEF Within
    <3>3. CASE f # Rest!Null
      <4>1. Worth(o.price, o.quantity, inst.notional)
        <5>1. WellFormed(f)
          BY <2>1, <2>3, <3>3, SentNotionalIsFound
        <5>2. inst.notional # None
          BY <2>4, <3>3, <5>1, ParsedNotional
        <5> QED  BY <2>2, <5>2 DEF Admissible
      <4> QED  BY <2>1, <2>4, <3>1, <3>3, <4>1, WorthIsWithin
    <3> QED  BY <3>2, <3>3
  <2> QED  BY <2>7, <2>8, <2>9
<1> QED  BY <1>1, GateInvHolds, PassMeansAdmissible, ListedIsGate, ListedInvHolds, PTL

=============================================================================
