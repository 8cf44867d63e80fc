------------------------- MODULE MCRealtimeRequests -------------------------
(***************************************************************************)
(* A small instance of RealtimeRequests: three calls that use one request  *)
(* id, and one input for each handler of a mutation.                       *)
(***************************************************************************)
EXTENDS RealtimeRequests, TLC

CONSTANTS c1, c2, c3, r1

Alike == Permutations(Calls)

OperationNames == [i \in Inputs |-> i]
=============================================================================
