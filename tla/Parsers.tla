------------------------------- MODULE Parsers -------------------------------
(***************************************************************************)
(* What the REST client makes of an answer's body (tokocrypto/rest):       *)
(* TokocryptoRestClient._signed_get and the functions of parsers.py.       *)
(*                                                                         *)
(* A JSON value is a record that says what it is.  A blank is what is false*)
(* without being null or empty: "", 0, false.  Of a symbol, an account and *)
(* an order only what the rest of the program acts on is parsed; that the  *)
(* text of a number is a number is left to those who convert it.           *)
(***************************************************************************)
EXTENDS FiniteSetsExt, Sequences

CONSTANTS
    Zero,        \* the text "0"
    NoneText,    \* the text str(None)
    Missing      \* Python's None

Object(d) == [is |-> "object", of |-> d]
Array(s) == [is |-> "array", of |-> s]
Atom(v) == [is |-> "atom", of |-> v]
Blank == [is |-> "blank"]
Null == [is |-> "null"]

Truthy(j) == j.is = "atom" \/ (j.is \in {"object", "array"} /\ DOMAIN j.of # {})

\* j.get(key, default) of an object.
Get(j, key, default) == IF key \in DOMAIN j.of THEN j.of[key] ELSE default

\* j.get(k1) or j.get(k2) or ... : the first that is true, or Null for none.
FirstTrue(j, keys) ==
    LET hits == {i \in DOMAIN keys : Truthy(Get(j, keys[i], Null))}
    IN  IF hits = {} THEN Null
        ELSE Get(j, keys[Min(hits)], Null)

\* Where the objects of an array are; whatever is no array has none.
Positions(j) == IF j.is = "array" THEN {i \in DOMAIN j.of : j.of[i].is = "object"} ELSE {}

\* The objects themselves, where their order does not matter.
Rows(j) == IF j.is = "array" THEN {e \in Range(j.of) : e.is = "object"} ELSE {}

ValueOr(j, default) == IF Truthy(j) THEN j.of ELSE default

\* str(j.get(key, "0")): null becomes a text of its own.
LimitText(j, key) ==
    LET v == Get(j, key, Atom(Zero)) IN IF v = Null THEN NoneText ELSE v.of

\* j.get(key), which is None for null too.
GetOrMissing(j, key) ==
    LET v == Get(j, key, Null) IN IF v = Null THEN Missing ELSE v.of
-----------------------------------------------------------------------------
\* _signed_get: an error code raises, and what is no object is wrapped in one.
SignedGetRaises(body) ==
    body.is = "object" /\ Get(body, "code", Null) \notin {Null, Blank, Atom(Zero)}

SignedGet(body) ==
    IF body.is = "object" THEN body ELSE Object([k \in {"data"} |-> body])

Data(body) == Get(body, "data", body)

\* A list of things: the data themselves, or under the first of the names.
Listed(body, names) ==
    LET data == Data(body)
    IN  IF data.is = "object" THEN FirstTrue(data, names) ELSE data

\* parse_account_snapshot, the balances: without a list of them there are none,
\* and an entry without an asset is left out.  No asset is listed twice.
ParseAccount(body) ==
    LET data == IF Data(body).is = "object" THEN Data(body) ELSE Object(<<>>)
        asset(b) == FirstTrue(b, <<"asset", "a">>)
        rows == {b \in Rows(FirstTrue(data, <<"balances", "assets">>)) : asset(b) # Null}
    IN  [a \in {asset(b).of : b \in rows} |->
            ValueOr(FirstTrue(CHOOSE b \in rows : asset(b).of = a, <<"free", "f">>), Zero)]

\* parse_open_orders, the ids and what is said of each order.
ParseOpenOrders(body) ==
    {[id |-> ValueOr(FirstTrue(o, <<"orderId", "bOrderId", "i">>), Missing),
      view |-> ValueOr(FirstTrue(o, <<"status", "X">>), Missing)] :
        o \in Rows(Listed(body, <<"list", "orders">>))}
-----------------------------------------------------------------------------
\* _filter_by_type: the first of the type, or Null.
FilterByType(filters, type) ==
    LET hits == {i \in Positions(filters) : Get(filters.of[i], "filterType", Null) = Atom(type)}
    IN  IF hits = {} THEN Null ELSE filters.of[Min(hits)]

\* The loop of _filter_by_type reads filters up to the one of its type, and raises
\* at one that is no object, or where there is no list to go through.
FilterRaises(filters, type) ==
    /\ Truthy(filters)
    /\ \/ filters.is # "array"
       \/ LET ends == {i \in DOMAIN filters.of : i \notin Positions(filters)
                                \/ filters.of[i] = FilterByType(filters, type)}
          IN  ends # {} /\ filters.of[Min(ends)].is # "object"

ParseRule(f, min, max, step) ==
    IF f = Null THEN Missing
    ELSE [min |-> LimitText(f, min), max |-> LimitText(f, max), step |-> LimitText(f, step)]

\* Mutant of NotionalRow: the older name is forgotten.
NotionalRowNewName(filters) == FilterByType(filters, "NOTIONAL")

\* NOTIONAL, or else MIN_NOTIONAL.
NotionalRow(filters) ==
    IF FilterByType(filters, "NOTIONAL") # Null
    THEN FilterByType(filters, "NOTIONAL")
    ELSE FilterByType(filters, "MIN_NOTIONAL")

ParseNotional(f) ==
    IF f = Null THEN Missing
    ELSE [min |-> GetOrMissing(f, "minNotional"), max |-> GetOrMissing(f, "maxNotional")]

\* parse_instrument
ParseInstrument(raw) ==
    LET filters == FirstTrue(raw, <<"filters">>)
        type == GetOrMissing(raw, "type")
    IN  [symbol |-> ValueOr(FirstTrue(raw, <<"symbol">>), Missing),
         symbolType |-> IF type # Missing THEN type ELSE GetOrMissing(raw, "symbolType"),
         status |-> ValueOr(FirstTrue(raw, <<"status", "symbolStatus">>), "UNKNOWN"),
         priceFilter |-> ParseRule(FilterByType(filters, "PRICE_FILTER"),
                                   "minPrice", "maxPrice", "tickSize"),
         lotSize |-> ParseRule(FilterByType(filters, "LOT_SIZE"),
                               "minQty", "maxQty", "stepSize"),
         marketLotSize |-> ParseRule(FilterByType(filters, "MARKET_LOT_SIZE"),
                                     "minQty", "maxQty", "stepSize"),
         notional |-> ParseNotional(NotionalRow(filters))]

\* get_symbols raises at a body that is no object, and wherever parse_instrument does
\* (which looks for MIN_NOTIONAL only after it went through all filters).
SymbolsRaise(body) ==
    \/ body.is # "object"
    \/ LET list == Listed(body, <<"list", "symbols", "symbolList">>)
       IN  \E i \in Positions(list),
              type \in {"PRICE_FILTER", "LOT_SIZE", "MARKET_LOT_SIZE", "NOTIONAL"} :
                FilterRaises(FirstTrue(list.of[i], <<"filters">>), type)

\* parse_symbols_response: the instruments under their positions in the answer.
ParseSymbols(body) ==
    LET list == Listed(body, <<"list", "symbols", "symbolList">>)
    IN  [i \in Positions(list) |-> ParseInstrument(list.of[i])]
=============================================================================
