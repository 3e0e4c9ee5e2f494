---------------------------- MODULE MCLiveAccount ----------------------------
(***************************************************************************)
(* One asset whose balance goes up and down again, and two subscriptions.  *)
(***************************************************************************)
EXTENDS LiveAccount, TLC

CONSTANTS asset1, low, high, order1, open

MCInitial == asset1 :> low

MCMessages ==
    {[kind |-> "account", time |-> t, bals |-> asset1 :> IF t = 1 THEN high ELSE low] :
        t \in 1 .. MaxChanges}
=============================================================================
