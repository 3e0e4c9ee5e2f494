--------------------------- MODULE MCEventIdWindow ---------------------------
(***************************************************************************)
(* Small instance of EventIdWindow: two position messages of one instant   *)
(* and one size, two reports of an order, the end of the stream.           *)
(***************************************************************************)
EXTENDS EventIdWindow, TLC

CONSTANTS asset1, asset2, low, order1, open

MCMessages ==
    {[kind |-> "account", time |-> 1, bals |-> a :> low] : a \in {asset1, asset2}}
    \cup {[kind |-> "order", time |-> t, oid |-> order1, trade |-> None,
           terminal |-> FALSE, view |-> open] : t \in 1 .. 2}
    \cup {[kind |-> "terminated", time |-> None]}
=============================================================================
