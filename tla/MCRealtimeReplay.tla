-------------------------- MODULE MCRealtimeReplay --------------------------
(***************************************************************************)
(* A small instance of RealtimeReplay.                                     *)
(***************************************************************************)
EXTENDS RealtimeReplay
=============================================================================
