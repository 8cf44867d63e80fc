--------------------------- MODULE RealtimeReplay ---------------------------
(***************************************************************************)
(* The replay of Hermes events to a page: the replay loop of the realtime  *)
(* socket (realtime/socket.py of backend/voice_console) with the calls it  *)
(* makes of RealtimeProxyService.events and conversation, the row of the   *)
(* session in RealtimeMappingStore, and the page's RealtimeControlClient   *)
(* (frontend, lib/realtimeControlClient.ts).                               *)
(*                                                                         *)
(* Events are numbered; Hermes keeps the latest and forgets older ones.  A *)
(* snapshot of the conversation stands for all events up to its number.    *)
(* The page sends its own cursor when it subscribes, and the socket only   *)
(* says in return whether it starts elsewhere: it always starts from a     *)
(* fresh snapshot.                                                         *)
(***************************************************************************)
EXTENDS Naturals, Sequences

CONSTANTS
  MaxEvents,  (* bound: events of the conversation                        *)
  MaxDrops,   (* bound: times the connection is lost                      *)
  MaxWire     (* bound: frames between the socket and the page            *)

ASSUME BoundsAssumption == {MaxEvents, MaxDrops} \subseteq Nat /\ MaxWire \in Nat \ {0}

VARIABLES
  log,      (* events at Hermes: 1 .. log                                  *)
  floor,    (* events Hermes has forgotten: 1 .. floor                     *)
  session,  (* state of the session at Hermes                              *)
  row,      (* state of the session's row in the store                     *)
  deleting, (* a DELETE of the session that Hermes did, not yet answered   *)
  stage,    (* what the socket of the page is at                           *)
  cursor,   (* its cursor                                                  *)
  sent,     (* the last event of the batch it has sent                     *)
  upto,     (* the last event of the batch                                 *)
  polled,   (* session state it read before it asked for events            *)
  wire,     (* frames the page has not taken                               *)
  page,     (* RealtimeControlClient: away, connecting, ready, or closed   *)
            (* for good by the page itself                                 *)
  view,     (* the events the page shows                                   *)
  seen,     (* event ids it took as events (the code keeps the last 2000)  *)
  degraded, (* it was told that replay stopped                             *)
  drops     (* connections lost                                            *)

hermesVars == <<log, floor, session>>
socketVars == <<stage, cursor, sent, upto, polled>>
pageVars == <<page, view, seen, degraded>>
vars == <<hermesVars, row, deleting, socketVars, wire, pageVars, drops>>

UpTo(n) == [i \in 1 .. n |-> i]
Frame(type, n) == [type |-> type, id |-> n]

-----------------------------------------------------------------------------
(* Hermes *)

EventHappens ==
  /\ log < MaxEvents
  /\ log' = log + 1
  /\ UNCHANGED <<floor, session, row, deleting, socketVars, wire, pageVars, drops>>

Forgets ==
  /\ floor < log
  /\ floor' = floor + 1
  /\ UNCHANGED <<log, session, row, deleting, socketVars, wire, pageVars, drops>>

-----------------------------------------------------------------------------
(* DELETE of the session: by this page, which closes its connection first,  *)
(* or by another.                                                          *)

\* A client closed by its owner takes nothing more and never reconnects.
Close ==
  /\ page # "closed"
  /\ page' = "closed"
  /\ wire' = <<>>
  /\ UNCHANGED <<hermesVars, row, deleting, socketVars, view, seen, degraded, drops>>

\* The socket finds that the page has gone, and cancels the replay.
HangsUp ==
  /\ page = "closed"
  /\ stage # "none"
  /\ stage' = "none"
  /\ UNCHANGED <<hermesVars, row, deleting, cursor, sent, upto, polled, wire, pageVars, drops>>

Delete ==
  /\ session = "active"
  /\ session' = "closed"
  /\ deleting' = TRUE
  /\ UNCHANGED <<log, floor, row, socketVars, wire, pageVars, drops>>

\* Variant: it leaves the row to the next poll.
CloseRow_Never == UNCHANGED row
CloseRow == row' = "closed"

Deleted ==
  /\ deleting
  /\ deleting' = FALSE
  /\ CloseRow
  /\ UNCHANGED <<hermesVars, socketVars, wire, pageVars, drops>>

-----------------------------------------------------------------------------
(* The socket *)

\* A send waits while the buffers of the connection are full; nobody takes what
\* is sent to a page that has closed.
Send(frame) ==
  /\ Len(wire) < MaxWire
  /\ wire' = IF page = "closed" THEN wire ELSE Append(wire, frame)

\* Variant: it starts after what the page has, as its subscription says.
Starts_AtClient == cursor' = Len(view)
Starts == cursor' = log

\* The page is authenticated and owns the session: it gets the snapshot, and
\* the replay starts after it.
Subscribe ==
  /\ stage = "subscribing"
  /\ Send(Frame("snapshot", log))
  /\ Starts
  /\ stage' = "asleep"
  /\ UNCHANGED <<hermesVars, row, deleting, sent, upto, polled, pageVars, drops>>

\* events() first asks Hermes for the session.
ReadSession ==
  /\ stage = "asleep"
  /\ stage' = "asking"
  /\ polled' = session
  /\ UNCHANGED <<hermesVars, row, deleting, cursor, sent, upto, wire, pageVars, drops>>

\* The row gets the state read before the events were asked for.
update_session == row' = IF log > 0 THEN polled ELSE row

Events ==
  /\ stage = "asking"
  /\ cursor >= floor
  /\ sent' = cursor
  /\ upto' = log
  /\ stage' = IF cursor < log THEN "sending" ELSE "asleep"
  /\ update_session
  /\ UNCHANGED <<hermesVars, deleting, cursor, polled, wire, pageVars, drops>>

\* Variant: the cursor moves with the first event of a batch.
Moves_Early == cursor' = upto
Moves == cursor' = IF sent' = upto THEN upto ELSE cursor

\* The cursor moves when the whole batch is sent.
SendEvent ==
  /\ stage = "sending"
  /\ Send(Frame("event", sent + 1))
  /\ sent' = sent + 1
  /\ stage' = IF sent' = upto THEN "asleep" ELSE "sending"
  /\ Moves
  /\ UNCHANGED <<hermesVars, row, deleting, upto, polled, pageVars, drops>>

\* event_replay_gap: Hermes has forgotten events after the cursor.
Gap ==
  /\ stage = "asking"
  /\ cursor < floor
  /\ stage' = "gap"
  /\ UNCHANGED <<hermesVars, row, deleting, cursor, sent, upto, polled, wire, pageVars, drops>>

Recover ==
  /\ stage = "gap"
  /\ Send(Frame("replay.gap", log))
  /\ cursor' = log
  /\ stage' = "asleep"
  /\ UNCHANGED <<hermesVars, row, deleting, sent, upto, polled, pageVars, drops>>

\* An exception in the handler of the gap ends the task, and nobody is told.
RecoverFails ==
  /\ stage = "gap"
  /\ stage' = "dead"
  /\ UNCHANGED <<hermesVars, row, deleting, cursor, sent, upto, polled, wire, pageVars, drops>>

\* Variant: the page is not told.
Tell_Nothing == UNCHANGED wire
\* The frame has no number: it gets here the one the page is at when it comes.
Tell == Send(Frame("error", cursor))

\* Any other RealtimeProxyError of a poll ends the replay; the socket stays.
PollFails ==
  /\ stage \in {"asleep", "asking"}
  /\ Tell
  /\ stage' = "stopped"
  /\ UNCHANGED <<hermesVars, row, deleting, cursor, sent, upto, polled, pageVars, drops>>

\* An error of another class is not caught: an identifier in Hermes' answer that
\* does not validate (ValueError), or the store (sqlite3.Error).  The task ends
\* and nobody is told.
PollDies ==
  /\ stage \in {"asleep", "asking"}
  /\ stage' = "dead"
  /\ UNCHANGED <<hermesVars, row, deleting, cursor, sent, upto, polled, wire, pageVars, drops>>

\* The network, a page that is too slow (4410) or answers no heartbeat (4408),
\* or a control frame that is refused (4400): frames on the way are lost.
Drop ==
  /\ page \notin {"away", "closed"}
  /\ drops < MaxDrops
  /\ drops' = drops + 1
  /\ page' = "away"
  /\ stage' = "none"
  /\ wire' = <<>>
  /\ UNCHANGED <<hermesVars, row, deleting, cursor, sent, upto, polled, view, seen, degraded>>

-----------------------------------------------------------------------------
(* The page *)

Connect ==
  /\ page = "away"
  /\ page' = "connecting"
  /\ stage' = "subscribing"
  /\ UNCHANGED <<hermesVars, row, deleting, cursor, sent, upto, polled, wire, view, seen,
                 degraded, drops>>

Takes(types) ==
  /\ wire # <<>>
  /\ Head(wire).type \in types
  /\ wire' = Tail(wire)
  /\ UNCHANGED <<hermesVars, row, deleting, socketVars, drops>>

TakeSnapshot ==
  /\ Takes({"snapshot", "replay.gap"})
  /\ view' = UpTo(Head(wire).id)
  /\ page' = "ready"
  /\ degraded' = IF Head(wire).type = "snapshot" THEN FALSE ELSE degraded
  /\ UNCHANGED seen

TakeEvent ==
  /\ Takes({"event"})
  /\ LET n == Head(wire).id IN
     IF page = "ready" /\ n \notin seen
     THEN view' = Append(view, n) /\ seen' = seen \cup {n}
     ELSE UNCHANGED <<view, seen>>
  /\ UNCHANGED <<page, degraded>>

TakeError ==
  /\ Takes({"error"})
  /\ degraded' = TRUE
  /\ UNCHANGED <<page, view, seen>>

-----------------------------------------------------------------------------

Init ==
  /\ log \in 0 .. MaxEvents
  /\ floor \in 0 .. log
  /\ session = "active" /\ row = "active" /\ deleting = FALSE
  /\ stage = "none" /\ polled = "active"
  /\ cursor = 0 /\ sent = 0 /\ upto = 0
  /\ wire = <<>>
  /\ page = "away" /\ view = <<>> /\ seen = {} /\ degraded = FALSE
  /\ drops = 0

Replay ==
  \/ Subscribe \/ ReadSession \/ Events \/ SendEvent \/ Gap \/ Recover \/ RecoverFails
  \/ PollFails \/ PollDies

Page == Connect \/ TakeSnapshot \/ TakeEvent \/ TakeError

Next ==
  \/ EventHappens \/ Forgets \/ Close \/ HangsUp \/ Delete \/ Deleted
  \/ Replay \/ Drop \/ Page

Spec == Init /\ [][Next]_vars

\* Hermes answers or the call times out, the socket polls again after its
\* pause, and a page that has not closed reconnects and takes its frames.  The
\* end of a connection is noticed, and a DELETE that Hermes did is answered.
\* Nothing says that a page closes, or that one that has closed comes back.
Fairness == WF_vars(Replay) /\ WF_vars(Page) /\ WF_vars(HangsUp) /\ WF_vars(Deleted)

FairSpec == Spec /\ Fairness

-----------------------------------------------------------------------------
(* Properties *)

TypeOK ==
  /\ log \in 0 .. MaxEvents /\ floor \in 0 .. log
  /\ {session, row, polled} \subseteq {"active", "closed"} /\ deleting \in BOOLEAN
  /\ stage \in {"none", "subscribing", "asleep", "asking", "sending", "gap", "stopped", "dead"}
  /\ {cursor, sent, upto} \subseteq 0 .. log
  /\ stage = "sending" => cursor <= sent /\ sent < upto
  /\ wire \in Seq([type : {"snapshot", "event", "replay.gap", "error"}, id : 0 .. log])
  /\ Len(wire) <= MaxWire
  /\ page \in {"away", "connecting", "ready", "closed"}
  /\ view \in Seq(1 .. log) /\ seen \subseteq 1 .. log
  /\ degraded \in BOOLEAN
  /\ drops \in 0 .. MaxDrops

Feed == INSTANCE EventFeed WITH MaxEvents <- MaxEvents, log <- log, view <- view

(* The page shows the events in order, each once and none left out, through *)
(* polls that race with new events, lost connections, and gaps.            *)
ImplementsFeed == Feed!Spec

(* An event reaches the page at last, unless the page closed, was told that *)
(* replay stopped, or the replay task died without a word: in the recovery *)
(* from a gap, or of an error in a poll that replay_loop does not catch.   *)
EventsArrive ==
  \A n \in 1 .. MaxEvents :
    (log >= n) ~> (Len(view) >= n \/ degraded \/ stage = "dead" \/ page = "closed")

(* The row of a session agrees with Hermes in the end, though a poll may    *)
(* write the state it read before the session was closed over the one the  *)
(* DELETE wrote: the next poll corrects it.  There is no next poll when    *)
(* replay ended, or when the page closed, as the one that deletes its own  *)
(* session does: the poll in flight can then leave the row active.         *)
RowSettles ==
  <>[](row = session \/ stage \in {"stopped", "dead"} \/ page = "closed")
=============================================================================
