------------------------------ MODULE EventFeed ------------------------------
(***************************************************************************)
(* What the realtime control channel promises a page: the page shows the   *)
(* events of a conversation in order, each once and none left out, and     *)
(* never goes back.  It may be told of several at once, by a snapshot.     *)
(***************************************************************************)
EXTENDS Naturals, Sequences

CONSTANT MaxEvents  (* bound: events of the conversation *)

VARIABLES
  log,   (* events so far: 1 .. log   *)
  view   (* the events the page shows *)

vars == <<log, view>>

\* The first n events.
UpTo(n) == [i \in 1 .. n |-> i]

Init ==
  /\ log \in 0 .. MaxEvents
  /\ view = <<>>

Happens ==
  /\ log < MaxEvents
  /\ log' = log + 1
  /\ UNCHANGED view

Shows ==
  /\ Len(view) < log
  /\ view' = Append(view, Len(view) + 1)
  /\ UNCHANGED log

CatchesUp ==
  /\ \E n \in Len(view) .. log : view' = UpTo(n)
  /\ UNCHANGED log

Next == Happens \/ Shows \/ CatchesUp

Spec == Init /\ [][Next]_vars
=============================================================================
