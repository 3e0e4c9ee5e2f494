----------------------------- MODULE DecimalRules -----------------------------
(***************************************************************************)
(* The rules an order's price, quantity and value are checked by           *)
(* (governance/market_structure/decimal_rules.py).                         *)
(*                                                                         *)
(* A decimal is a number of smallest units, or what else Decimal() makes of*)
(* a text: an infinity or NaN.  Quotients and products are exact, as they  *)
(* are in Python while they have no more than 28 digits.                   *)
(***************************************************************************)
EXTENDS Integers

CONSTANTS
    Infinity, NegInfinity, NaN,
    Garbage,     \* a text that Decimal() rejects
    Scientific,  \* a number in scientific notation
    None         \* Python's None, and the empty text

Specials == {Infinity, NegInfinity, NaN, Garbage, Scientific, None}

\* The texts a price or a quantity may be.
Texts == Int \cup Specials

\* PriceFilter and LotSizeFilter: least, largest (0: no limit), step (0: any).
Rule == [min : Nat \cup {Garbage}, max : Nat \cup {Garbage}, step : Nat \cup {Garbage}]

NotionalFilter == [min : Nat \cup {Garbage, None}, max : Nat \cup {Garbage, None}]

ASSUME DecimalAssumption ==
    /\ Specials \cap Int = {}
    /\ Infinity # NegInfinity
    /\ {Infinity, NegInfinity} \cap {NaN, Garbage, Scientific, None} = {}
    /\ NaN \notin {Garbage, Scientific, None}
    /\ Garbage \notin {Scientific, None}
    /\ Scientific # None
    /\ None \notin Rule \cup NotionalFilter

\* Mutant of Less: only numbers are compared.
LessFinite(a, b) == a \in Int /\ b \in Int /\ a < b

Less(a, b) ==
    \/ a # b /\ (a = NegInfinity \/ b = Infinity)
    \/ a \in Int /\ b \in Int /\ a < b

Sign(a) == IF Less(a, 0) THEN -1 ELSE IF a = 0 THEN 0 ELSE 1

\* The product, but for infinity times zero, which raises.
Times(a, b) ==
    IF a \in Int /\ b \in Int THEN a * b
    ELSE IF Sign(a) = Sign(b) THEN Infinity ELSE NegInfinity

\* Mutant of IsMultipleOf: a value below the step passes for a multiple.
IsMultipleOfFloor(v, step) == v \notin Int \/ v % step = 0 \/ v < step

\* An infinite quotient equals its integral value.
IsMultipleOf(v, step) == v \notin Int \/ v % step = 0

\* validate_price and validate_quantity: what they raise for and what they refuse.
RuleRaises(v, rule) == Garbage \in {rule.min, rule.max, rule.step} \/ v = NaN

BelowMin(v, rule) == Less(v, rule.min)

\* Mutant of AboveMax: a limit of 0 is taken for a limit.
AboveMaxAlways(v, rule) == Less(rule.max, v)

AboveMax(v, rule) == rule.max > 0 /\ Less(rule.max, v)

OffStep(v, rule) == rule.step > 0 /\ ~IsMultipleOf(v, rule.step)

\* validate_notional, given a filter that has a limit.
NotionalRaises(p, q, nf) ==
    \/ Garbage \in {nf.min, nf.max}
    \/ NaN \in {p, q}
    \/ ~({p, q} \subseteq Int) /\ 0 \in {p, q}

NotionalRefused(p, q, nf) ==
    \/ nf.min # None /\ Less(Times(p, q), nf.min)
    \/ nf.max # None /\ Less(nf.max, Times(p, q))
=============================================================================
