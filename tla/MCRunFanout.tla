---------------------------- MODULE MCRunFanout ----------------------------
(***************************************************************************)
(* Small instances of RunFanout.  The browsers are alike: where only       *)
(* safety is checked, states that differ by their names are one.           *)
(***************************************************************************)
EXTENDS RunFanout, TLC

Alike == Permutations(Clients)
=============================================================================
