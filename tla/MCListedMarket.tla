---------------------------- MODULE MCListedMarket ----------------------------
(***************************************************************************)
(* One pair, listed under either spelling and in either shape of the       *)
(* answer, with filters that are absent, unlimited, unreadable or in force,*)
(* answers the parser cannot read, and intents on both sides of every limit*)
(* and between steps.                                                      *)
(***************************************************************************)
EXTENDS ListedMarket, TLC

CONSTANT btcusdt

Text(v) == IF v = Garbage THEN Rest!Null ELSE Rest!Atom(v)

\* A filter as sent: what is None is not in it.
Filter(type, keys, values) ==
    Rest!Object([k \in {keys[i] : i \in {j \in DOMAIN keys : values[j] # None}} |->
                    Text(values[CHOOSE i \in DOMAIN keys : keys[i] = k])]
                @@ "filterType" :> Rest!Atom(type))

Rows(type, keys, rule) == IF rule = <<>> THEN <<>> ELSE <<Filter(type, keys, rule)>>

LotKeys == <<"minQty", "maxQty", "stepSize">>

\* A symbol as sent, in the newer or the older form.
Symbol(sep, type, status, price, lot, marketLot, notional) ==
    LET new == sep = "_"
    IN  Rest!Object(
          ("symbol" :> Rest!Atom([pair |-> btcusdt, sep |-> sep])
           @@ "filters" :> Rest!Array(
                 Rows("PRICE_FILTER", <<"minPrice", "maxPrice", "tickSize">>, price)
                 \o Rows(IF new THEN "NOTIONAL" ELSE "MIN_NOTIONAL",
                         <<"minNotional", "maxNotional">>, notional)
                 \o Rows("LOT_SIZE", LotKeys, lot)
                 \o Rows("MARKET_LOT_SIZE", LotKeys, marketLot))
           @@ (IF new THEN "status" ELSE "symbolStatus") :> Rest!Atom(status)
           @@ (IF new THEN "type" ELSE "symbolType") :>
                 (IF type = None THEN Rest!Null ELSE Rest!Atom(type))))

Answer(sep, symbol) ==
    IF sep = "_" THEN Rest!Object("code" :> Rest!Blank @@ "data" :> Rest!Array(<<symbol>>))
    ELSE Rest!Object("data" :> Rest!Object("list" :> Rest!Array(<<>>)
                                           @@ "symbols" :> Rest!Array(<<symbol>>)))

Filtered(filters) ==
    Rest!Object("symbol" :> Rest!Atom([pair |-> btcusdt, sep |-> "_"])
                @@ "type" :> Rest!Atom(1) @@ "status" :> Rest!Atom("TRADING")
                @@ "filters" :> filters)

\* Every type that is looked for, and the same after or before what is no filter.
AllFilters ==
    Rows("PRICE_FILTER", <<"minPrice", "maxPrice", "tickSize">>, <<2, 6, 2>>)
    \o Rows("LOT_SIZE", LotKeys, <<1, 4, 1>>) \o Rows("MARKET_LOT_SIZE", LotKeys, <<2, 4, 2>>)
    \o Rows("NOTIONAL", <<"minNotional">>, <<8>>)

\* A bare list, no answer at all, and lists of filters that are hard to go through.
OddListings ==
    {Rest!Array(<<Filtered(Rest!Array(AllFilters)), Rest!Null, Rest!Null>>), Rest!Null}
    \cup {Rest!Object("data" :> Rest!Array(<<Filtered(filters)>>)) : filters \in
              {Rest!Array(AllFilters \o <<Rest!Null>>), Rest!Array(<<Rest!Null>> \o AllFilters),
               Rest!Object("filterType" :> Rest!Atom("LOT_SIZE")), Rest!Blank, Rest!Null}}

MCListings ==
    OddListings
    \cup {Answer("_", Symbol("_", 1, "TRADING", pf, lot, mlot, nf)) :
            pf \in {<<>>, <<2, 6, 2>>, <<None, None, 3>>, <<0, Garbage, 1>>},
            lot \in {<<>>, <<1, 4, 1>>, <<2, 0, 2>>},
            mlot \in {<<>>, <<None, 3, 3>>},
            nf \in {<<>>, <<8, None>>, <<None, 15>>, <<Garbage, None>>}}
    \cup {Answer("-", Symbol("-", 1, "TRADING", <<2, 6, 2>>, lot, <<>>, nf)) :
            lot \in {<<1, 4, 1>>, <<2, 0, 2>>}, nf \in {<<8, None>>, <<None, 15>>}}
    \cup {Answer(sep, Symbol(sep, t, status, <<2, 6, 2>>, <<1, 4, 1>>, <<>>, <<>>)) :
            sep \in {"_", "-"}, t \in {1, 3, None}, status \in {"TRADING", "BREAK"}}

MCUniverses == {TableOf(GetSymbols(body)) : body \in Loadable}

MCIntents ==
    [symbol : {[pair |-> btcusdt, sep |-> "-"]},
     price : {-2, 0, 2, 3, 6, 8} \cup Specials,
     quantity : {0, 1, 2, 3, 4, 6, Infinity, NaN},
     market : BOOLEAN]
    \cup [symbol : {None, [pair |-> btcusdt, sep |-> "_"]}, price : {4}, quantity : {2},
          market : {FALSE}]

Market(c, a, md) == [connection |-> c, age |-> a, metadata |-> md]

MCMarkets ==
    {None, Market("CONNECTED", "old", "fresh"), Market("CONNECTED", None, "fresh")}
    \cup {Market("CONNECTED", "fresh", md) : md \in {"fresh", "old", None}}
    \cup {Market(c, "fresh", "fresh") : c \in {"DISCONNECTED", "CONNECTING", "STALE", "UNKNOWN"}}
=============================================================================
