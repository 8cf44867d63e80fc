---------------------------- MODULE MCSocketAuth ----------------------------
(***************************************************************************)
(* A small instance of SocketAuth: tokens that live for a few seconds.     *)
(***************************************************************************)
EXTENDS SocketAuth
=============================================================================
