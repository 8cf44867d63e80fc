---------------------------- MODULE MCVoiceSocket ----------------------------
(***************************************************************************)
(* A small instance of VoiceSocket: two turns, spoken or typed, beside a   *)
(* run from elsewhere.                                                     *)
(***************************************************************************)
EXTENDS VoiceSocket

CONSTANTS t1, t2
=============================================================================
