--------------------------- MODULE MCRealtimeCall ---------------------------
(***************************************************************************)
(* A small instance of RealtimeCall: two calls, which are alike.         *)
(***************************************************************************)
EXTENDS RealtimeCall, TLC

CONSTANTS c1, c2

Alike == Permutations(Calls)
=============================================================================
