----------------------------- MODULE SymbolRouter -----------------------------
(***************************************************************************)
(* TokocryptoSymbolRouter (exchange/tokocrypto/symbol_router.py): what the *)
(* type of an instrument allows.  A symbol is a pair and the separator it  *)
(* is spelled with; upper and lower case are not told apart, as neither    *)
(* the router nor the gate does.                                           *)
(***************************************************************************)
EXTENDS FiniteSetsExt, Sequences

\* classify
Classify(symbolType) ==
    CASE symbolType = 1 -> "ELIGIBLE_FOR_EXECUTION"
      [] symbolType = 3 -> "DISCOVERED_BUT_EXECUTION_BLOCKED"
      [] OTHER          -> "BLOCK"

PrivateWsSupported(symbolType) == symbolType = 1

Underscored(s) == [s EXCEPT !.sep = "_"]

\* Mutant of RouteForSymbol: the spelling of the list is taken as it is.
RouteForSymbolAsListed(s, list) ==
    LET hits == {i \in DOMAIN list : list[i].symbol = Underscored(s)}
    IN  IF hits = {} THEN "BLOCK" ELSE Classify(list[Min(hits)].symbolType)

\* route_for_symbol: the first of the list under either spelling.
RouteForSymbol(s, list) ==
    LET hits == {i \in DOMAIN list : Underscored(list[i].symbol) = Underscored(s)}
    IN  IF hits = {} THEN "BLOCK" ELSE Classify(list[Min(hits)].symbolType)
=============================================================================
