----------------------------- MODULE ListedMarket -----------------------------
(***************************************************************************)
(* From the exchange's list of symbols to a verdict: the answer of         *)
(* /open/v1/common/symbols, the parsers, the table the gate is given and   *)
(* the list the router searches.                                           *)
(***************************************************************************)
EXTENDS MarketStructureGate

CONSTANT Listings  \* the answers the exchange may give

VARIABLE listing   \* the answer the current table was made from

Rest == INSTANCE Parsers WITH Zero <- 0, NoneText <- Garbage, Missing <- None

listedVars == <<gateVars, listing>>

\* {inst.symbol: inst for inst in get_symbols()}, done by the callers of the gate.
TableOf(list) ==
    [s \in {list[i].symbol : i \in DOMAIN list} |->
        list[CHOOSE i \in DOMAIN list :
                list[i].symbol = s /\ \A j \in DOMAIN list : j > i => list[j].symbol # s]]

\* get_symbols, where it returns.
GetSymbols(body) == Rest!ParseSymbols(body)

\* At any other answer it raises, and the gate keeps the table it has.
Loadable == {body \in Listings : ~Rest!SymbolsRaise(body)}

SymbolList(body) == Rest!Listed(body, <<"list", "symbols", "symbolList">>)

LimitKeys == {"minPrice", "maxPrice", "tickSize", "minQty", "maxQty", "stepSize",
              "minNotional", "maxNotional"}

\* A filter with its type, and limits that are texts or null.
WellFormed(filter) ==
    /\ "filterType" \in DOMAIN filter.of
    /\ filter.of["filterType"] = Rest!Atom(filter.of["filterType"].of)
    /\ \A k \in LimitKeys \cap DOMAIN filter.of :
          filter.of[k] = Rest!Null \/ filter.of[k].of \in Nat \cup {Garbage}

\* The types of filters that set the same limit.
SameLimit(type, other) == type = other \/ {type, other} = {"NOTIONAL", "MIN_NOTIONAL"}

InOrder(array) == array.is = "array" => DOMAIN array.of = 1 .. Len(array.of)

\* A symbol with its name and its filters, which set every limit once.
WellListed(raw) ==
    LET filters == raw.of["filters"]
        type(i) == filters.of[i].of["filterType"].of
    IN  /\ {"symbol", "filters"} \subseteq DOMAIN raw.of
        /\ raw.of["symbol"].is = "atom"
        /\ InOrder(filters)
        /\ \A i \in Rest!Positions(filters) :
              /\ WellFormed(filters.of[i])
              /\ \A j \in Rest!Positions(filters) : SameLimit(type(i), type(j)) => i = j

(***************************************************************************)
(* What is relied on of the lists that load: each pair is listed once, and *)
(* with it each limit.  The code takes the last of two like symbols for the*)
(* table, the first for the router, and of two like filters the first.     *)
(***************************************************************************)
ASSUME ListingAssumption ==
    \A body \in Loadable :
        LET list == SymbolList(body)
            name(i) == Underscored(list.of[i].of["symbol"].of)
        IN  /\ TableOf(GetSymbols(body)) \in Universes
            /\ InOrder(list)
            /\ \A i \in Rest!Positions(list) :
                  /\ WellListed(list.of[i])
                  /\ \A j \in Rest!Positions(list) : name(i) = name(j) => i = j

ListedInit ==
    /\ listing \in Loadable
    /\ instruments = TableOf(GetSymbols(listing))
    /\ call = None

LoadSymbols(body) ==
    /\ SetInstruments(TableOf(GetSymbols(body)))
    /\ listing' = body

ListedNext ==
    \/ \E body \in Loadable : LoadSymbols(body)
    \/ \E i \in Intents, m \in Markets : Validate(i, m) /\ UNCHANGED listing
    \/ Return /\ UNCHANGED listing

ListedSpec == ListedInit /\ [][ListedNext]_listedVars
-----------------------------------------------------------------------------
\* The filters of a type in the listed object of the symbol, as they were sent.
SentFilters(s, types) ==
    UNION {{f \in Rest!Rows(raw.of["filters"]) : f.of["filterType"].of \in types} :
             raw \in {r \in Rest!Rows(SymbolList(listing)) :
                        Underscored(r.of["symbol"].of) = Underscored(s)}}

\* The number sent under a key, if one was.
SentNumbers(f, key) ==
    {v.of : v \in {f.of[k] : k \in {key} \cap DOMAIN f.of} \ {Rest!Null}} \cap Int

Within(v, filters, least, largest) ==
    \A f \in filters :
        /\ \A n \in SentNumbers(f, least) : n <= v
        /\ \A n \in SentNumbers(f, largest) : n = 0 \/ v <= n

OnSteps(v, filters, step) ==
    \A f \in filters : \A n \in SentNumbers(f, step) : n = 0 \/ \E k \in 0 .. v : v = k * n

(***************************************************************************)
(* The limits the exchange sent are the ones enforced: no minimum, maximum,*)
(* tick or step is lost between its list of symbols and the verdict, under *)
(* whichever names, shapes and spellings it lists them (parsers.py:22-84,  *)
(* gate.py:53-56).  Market orders answer to MARKET_LOT_SIZE where it is    *)
(* listed.                                                                 *)
(***************************************************************************)
SentLimitsHold ==
    Passed /\ Numeric(call.intent) =>
        LET i == call.intent
            prices == SentFilters(i.symbol, {"PRICE_FILTER"})
            marketLots == SentFilters(i.symbol, {"MARKET_LOT_SIZE"})
            lots == IF i.market /\ marketLots # {} THEN marketLots
                    ELSE SentFilters(i.symbol, {"LOT_SIZE"})
        IN  /\ Within(i.price, prices, "minPrice", "maxPrice")
            /\ OnSteps(i.price, prices, "tickSize")
            /\ Within(i.quantity, lots, "minQty", "maxQty")
            /\ OnSteps(i.quantity, lots, "stepSize")
            /\ Within(i.price * i.quantity, SentFilters(i.symbol, {"NOTIONAL", "MIN_NOTIONAL"}),
                      "minNotional", "maxNotional")

(***************************************************************************)
(* Gate and router find the same instrument: what passes the gate is what  *)
(* route_for_symbol, searching the list the table was made from, finds     *)
(* eligible (symbol_router.py:56-60, gate.py:53-56).                       *)
(***************************************************************************)
RouteAgrees ==
    Passed => RouteForSymbol(call.intent.symbol, GetSymbols(listing)) = "ELIGIBLE_FOR_EXECUTION"
=============================================================================
