--------------------------- MODULE MCSpokenReplies ---------------------------
(***************************************************************************)
(* A small instance of SpokenReplies: two replies of two sentences, the    *)
(* second of which replaces, is cancelled with, or follows the first, or   *)
(* is to a turn begun while the first is spoken.                           *)
(***************************************************************************)
EXTENDS SpokenReplies
=============================================================================
