----------------------------- MODULE TurnLedger -----------------------------
(***************************************************************************)
(* What the console promises about the turns of a conversation, whatever   *)
(* happens to the browser, to the console process or to Hermes: a turn is  *)
(* opened once, is undecided or uncertain until it is decided, and stays   *)
(* decided.  A conversation has one open turn at most, and while the       *)
(* acceptance of one turn is uncertain nobody opens another one for the    *)
(* same owner and target.  RunCoordinator is shown to implement this.      *)
(***************************************************************************)

CONSTANTS
  Turns,          (* the turns that may be submitted                       *)
  ConversationOf, (* the conversation of each turn                         *)
  ScopeOf         (* the (owner, target) pair of each conversation         *)

VARIABLE phase

Phases == {"new", "undecided", "uncertain", "decided"}

Open(t) == phase[t] \in {"undecided", "uncertain"}

SameConversation(t, u) == ConversationOf[t] = ConversationOf[u]

SameScope(t, u) == ScopeOf[ConversationOf[t]] = ScopeOf[ConversationOf[u]]

Move(t, from, to) ==
  /\ phase[t] = from
  /\ phase' = [phase EXCEPT ![t] = to]

Begin(t) ==
  /\ \A u \in Turns : SameConversation(t, u) => ~Open(u)
  /\ \A u \in Turns : SameScope(t, u) => phase[u] # "uncertain"
  /\ Move(t, "new", "undecided")

LoseTrack(t) == Move(t, "undecided", "uncertain")

Decide(t) == Move(t, "undecided", "decided")

Acknowledge(t) == Move(t, "uncertain", "decided")

Init == phase = [t \in Turns |-> "new"]

Next == \E t \in Turns : Begin(t) \/ LoseTrack(t) \/ Decide(t) \/ Acknowledge(t)

Spec == Init /\ [][Next]_phase
=============================================================================
