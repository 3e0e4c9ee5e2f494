--------------------------- MODULE MCPublicMarketWS ---------------------------
(***************************************************************************)
(* PublicMarketWS with two connections: the thread of the first may still  *)
(* be running, anywhere in its loop, when the second is in use.            *)
(***************************************************************************)
EXTENDS PublicMarketWS

MCForceStates == {"DISCONNECTED", "UNKNOWN"}
=============================================================================
