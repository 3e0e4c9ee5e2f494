--------------------------- MODULE FailClosedGate ---------------------------
(***************************************************************************)
(* What the account state promises the risk layer (contracts/              *)
(* account_state.py: "Reconciliation UNKNOWN -> BLOCK execution", "Never   *)
(* invent balances or positions").  The risk layer sees either nothing or  *)
(* a table of balances.  A table appears only when a REST snapshot is      *)
(* applied, and then it is that snapshot; the private stream may update or *)
(* add entries of a visible table but never makes one visible.             *)
(***************************************************************************)
EXTENDS PrivateEvents

VARIABLES
    view,     \* what the risk layer sees: a table of balances, or None
    baseline  \* 0 until a REST snapshot is applied after a (re)start, then
              \* flipped between 1 and 2 by every further one

vars == <<view, baseline>>

Init ==
    /\ view = None
    /\ baseline = 0

Resync ==
    /\ baseline' = NextBaseline(baseline)
    /\ view' \in Balances

Fault ==
    /\ view' = None
    /\ UNCHANGED baseline

StreamUpdate ==
    /\ view # None
    /\ \E delta \in Balances : view' = Overlay(delta, view)
    /\ UNCHANGED baseline

Restart ==
    /\ view' = None
    /\ baseline' = 0

Next == Resync \/ Fault \/ StreamUpdate \/ Restart

Spec == Init /\ [][Next]_vars
=============================================================================
