----------------------------- MODULE RunClaims -----------------------------
(***************************************************************************)
(* What the design says of the run lifecycle and the code does not keep:   *)
(* the run of this module ends with the behaviour that refutes it.         *)
(***************************************************************************)
EXTENDS MCRunCoordinator

(* One run of a conversation at most is open (design, "Agent runs").       *)
(* approve() looks at the status of its ActiveRun after the call to Hermes *)
(* and not at the row, which its owner may have closed meanwhile.          *)
OneActiveRun ==
  \A t \in Turns : Cardinality(active_run_for_conversation(t)) <= 1
=============================================================================
