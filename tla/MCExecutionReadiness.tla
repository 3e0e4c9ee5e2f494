------------------------- MODULE MCExecutionReadiness -------------------------
(***************************************************************************)
(* A public socket with one connection, and calls given all of the parts  *)
(* or some.                                                                *)
(***************************************************************************)
EXTENDS ExecutionReadiness

MCAccounts == {[status |-> "RECONCILED", snapshot |-> TRUE],
               [status |-> "STALE", snapshot |-> TRUE]}

MCCalls == {{"public", "private", "account"}, {"private"}}

MCTypes == {1, 3}
=============================================================================
