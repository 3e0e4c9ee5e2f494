---------------------------- MODULE MCRuntimeProof ----------------------------
(***************************************************************************)
(* One run of the script; the account holds one asset, or nothing.         *)
(***************************************************************************)
EXTENDS RuntimeProof

CONSTANTS asset1, low, order1, open
=============================================================================
