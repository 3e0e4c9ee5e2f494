------------------------- MODULE MCPrivateUserStream -------------------------
(***************************************************************************)
(* PrivateUserStream with two sockets: the thread of the first may still be*)
(* running, anywhere in its loop, when the second is in use.               *)
(***************************************************************************)
EXTENDS PrivateUserStream
=============================================================================
