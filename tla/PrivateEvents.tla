---------------------------- MODULE PrivateEvents ----------------------------
(***************************************************************************)
(* The messages of the private user stream, and what                       *)
(* normalize_private_event (runtime/state/events.py) makes of them.  A     *)
(* message stands for the body _event_body selects; symbol, side, price,   *)
(* quantities and status of an order are one abstract view, and the free   *)
(* and locked amounts of an asset one abstract amount.                     *)
(***************************************************************************)
EXTENDS Naturals, Sequences, FiniteSets, Functions

CONSTANTS
    Assets,     \* asset names
    Amounts,    \* the (free, locked) pairs of a balance
    OrderIds,   \* non-empty exchange order ids
    Views,      \* what a report says of an order that stays open
    Trades,     \* trade ids, field "t"
    None        \* Python's None

\* Dictionaries from some of the keys in S to values in T.
Dicts(S, T) == UNION {[D -> T] : D \in SUBSET S}

\* dict.update: the entries of new over those of old.
Overlay(new, old) ==
    [k \in DOMAIN new \cup DOMAIN old |->
        IF k \in DOMAIN new THEN new[k] ELSE old[k]]

\* dict.pop(key, None).
Drop(k, d) == Restrict(d, DOMAIN d \ {k})

\* What a REST snapshot does to the marker that tells baselines apart.
NextBaseline(b) == IF b = 1 THEN 2 ELSE 1

Balances == Dicts(Assets, Amounts)

Stamps == Nat \cup {None}

\* eventStreamTerminated.
TerminatedMsg == [kind : {"terminated"}, time : Stamps]

\* outboundAccountPosition, outboundAccountInfo and balanceUpdate.
AccountMsg == [kind : {"account"}, time : Stamps, bals : Balances]

\* executionReport; oid is None when the report carries no order id.
OrderMsg == [kind : {"order"}, time : Stamps, oid : OrderIds \cup {None},
             trade : Trades \cup {None}, terminal : BOOLEAN, view : Views]

\* Anything else: acknowledgements of the subscription, other event types.
OtherMsg == [kind : {"other"}]

Message == TerminatedMsg \cup AccountMsg \cup OrderMsg \cup OtherMsg

(***************************************************************************)
(* The UNKNOWN branch formats str(...) % 10_000_000, which raises TypeError*)
(* (the body's text has no conversion specifier): no event comes out of it *)
(* and the caller gets the exception.                                      *)
(***************************************************************************)
Normalizable(m) == m.kind # "other"

\* Mutant of EventId: reports are told apart by order and trade only.
EventIdTimeless(m) ==
    CASE m.kind = "terminated" -> <<"term", m.time>>
      [] m.kind = "account"    -> <<"acct", m.time, Cardinality(DOMAIN m.bals)>>
      [] m.kind = "order"      -> <<"exec", m.oid, m.trade>>

(***************************************************************************)
(* The event_id a message is deduplicated by.  For an account message it   *)
(* is the time and the NUMBER of balances, not their contents.             *)
(***************************************************************************)
EventId(m) ==
    CASE m.kind = "terminated" -> <<"term", m.time>>
      [] m.kind = "account"    -> <<"acct", m.time, Cardinality(DOMAIN m.bals)>>
      [] m.kind = "order"      -> <<"exec", m.oid, m.time, m.trade>>

\* Mutant of Remember: the window is trimmed one id too early.
RememberTooFew(seen, id, max) ==
    LET s == Append(seen, id)
    IN  IF Len(s) >= max THEN SubSeq(s, Len(s) - max + 2, Len(s)) ELSE s

\* Mutant of Remember: the newest id is dropped instead of the oldest.
RememberOldest(seen, id, max) ==
    LET s == Append(seen, id)
    IN  IF Len(s) > max THEN SubSeq(s, 1, max) ELSE s

(***************************************************************************)
(* _seen_event_ids is an insertion-ordered dict used as a bounded FIFO: the*)
(* id is added at the end, then the oldest ones go while there are more    *)
(* than max.                                                               *)
(***************************************************************************)
Remember(seen, id, max) ==
    LET s == Append(seen, id)
    IN  IF Len(s) > max THEN SubSeq(s, Len(s) - max + 1, Len(s)) ELSE s

IsDuplicate(m, seen) == EventId(m) \in Range(seen)
=============================================================================
