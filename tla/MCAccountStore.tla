--------------------------- MODULE MCAccountStore ---------------------------
(***************************************************************************)
(* Small instance of AccountStore: two assets, one order, a message of     *)
(* every kind.                                                             *)
(***************************************************************************)
EXTENDS AccountStore, TLC

CONSTANTS asset1, asset2, low, high, order1, open

Report(t, end) == [kind |-> "order", time |-> t, oid |-> order1, trade |-> None,
                   terminal |-> end, view |-> open]

MCMessages ==
    { [kind |-> "account", time |-> 1, bals |-> asset1 :> high],
      [kind |-> "account", time |-> None, bals |-> <<>>],
      Report(1, FALSE),
      Report(2, TRUE),
      [Report(2, FALSE) EXCEPT !.oid = None],
      [kind |-> "terminated", time |-> None],
      [kind |-> "other"] }
=============================================================================
