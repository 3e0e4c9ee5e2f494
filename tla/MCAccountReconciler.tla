------------------------- MODULE MCAccountReconciler -------------------------
(***************************************************************************)
(* Small instances of AccountReconciler: one asset, one order that opens   *)
(* and closes, an exchange that can end the stream.                        *)
(***************************************************************************)
EXTENDS AccountReconciler, TLC

CONSTANTS r1, r2, asset1, low, high, order1, open

MCMessages ==
    {[kind |-> "account", time |-> t, bals |-> asset1 :> high] : t \in 1 .. MaxUpdates}
    \cup {[kind |-> "order", time |-> t, oid |-> order1, trade |-> None,
           terminal |-> end, view |-> open] : t \in 1 .. MaxUpdates, end \in BOOLEAN}
    \cup {[kind |-> "terminated", time |-> t] : t \in 1 .. MaxUpdates}
\* Sound for invariants: nothing tells the resyncers apart.
ResyncerSymmetry == Permutations(Resyncers)
=============================================================================
