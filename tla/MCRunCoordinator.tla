-------------------------- MODULE MCRunCoordinator --------------------------
(***************************************************************************)
(* Small instances of RunCoordinator: turns of one conversation.           *)
(***************************************************************************)
EXTENDS RunCoordinator

CONSTANTS t1, t2

SameTalk == [t \in Turns |-> "c1"]
OneScope == [c \in {"c1"} |-> "owner_target"]
=============================================================================
