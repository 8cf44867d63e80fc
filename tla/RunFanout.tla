----------------------------- MODULE RunFanout -----------------------------
(***************************************************************************)
(* The events of one accepted run on their way to the browsers: the        *)
(* bounded buffer and the bounded subscriber queues of RunCoordinator      *)
(* (backend/voice_console/run_coordinator.py), the task that copies a      *)
(* queue to a socket (voice_socket.py, stream_subscription), and the       *)
(* cursor a browser page keeps (frontend, useConsoleController.ts).        *)
(*                                                                         *)
(* An event is its sequence number.  Which events there are, and when a    *)
(* run ends, is the subject of RunCoordinator: here they come at any time. *)
(* _emit and subscribe have no await that suspends, so each is one step.   *)
(***************************************************************************)
EXTENDS Naturals, Sequences

CONSTANTS
  Clients,      (* the browsers of the owner                             *)
  MaxEvents,    (* max_events of the buffer: 250 in the code             *)
  QueueSize,    (* maxsize of a subscriber queue: 64 in the code         *)
  MaxSequence,  (* bound: events of the run                              *)
  MaxRestarts,  (* bound: crashes of the console process                 *)
  MaxReloads    (* bound: pages loaded anew                              *)

\* The buffer holds more than a backlog, or a trimmed buffer would be replayed
\* to a page without a cursor as if it were the whole run.
ASSUME SizesAssumption ==
  QueueSize \in Nat \ {0, 1, 2} /\ MaxEvents \in Nat /\ MaxEvents > QueueSize - 2
ASSUME CountsAssumption ==
  MaxSequence \in Nat \ {0} /\ MaxRestarts \in Nat /\ MaxReloads \in Nat

VARIABLES
  status,       (* of the row: "open", "unrecoverable" or "terminal"      *)
  recorded,     (* that status in ActiveRun.record, which _emit goes by   *)
  last,         (* last_sequence of the row and of the record             *)
  final,        (* sequence number of the terminal event, 0 without one   *)
  up,           (* the console process is running                         *)
  run,          (* the ActiveRun: "none", in _active ("listed"), taken out *)
                (* of it while open ("detached"), or after its end ("over") *)
  working,      (* ActiveRun.task is consuming or reconciling             *)
  events,       (* the buffer of the ActiveRun                            *)
  stopping,     (* a stop() waits for Hermes, holding the ActiveRun ...   *)
  approving,    (* ... and so does an approve(): one of each at a time    *)
  reopened,     (* history: an approve() has set a terminal row open      *)
  subscribers,  (* clients whose queue is in ActiveRun.subscribers        *)
  queue,        (* the queue a client's stream_subscription reads         *)
  reader,       (* that task: "away" without a socket, "reading", "ended" *)
  cursor,       (* last_sequence the page would send in its hello         *)
  tracking,     (* the page knows the run: it moves its cursor            *)
  shown,        (* highest event the page has shown                       *)
  expected,     (* next event of this connection, 0 after a gap snapshot  *)
  restarts,     (* crashes so far                                         *)
  reloads       (* page loads so far                                      *)

rowVars    == <<status, recorded, reopened>>
taskVars   == <<run, working, stopping, approving>>
runVars    == <<rowVars, last, final, events, taskVars>>
queueVars  == <<subscribers, queue, reader>>
pageVars   == <<cursor, tracking, shown, expected>>
boundVars  == <<restarts, reloads>>
vars == <<runVars, up, queueVars, pageVars, boundVars>>

-----------------------------------------------------------------------------
(* What is in a queue: an event, a snapshot of the row, or None *)

Event(n) == [kind |-> "event", sequence |-> n, over |-> FALSE]
Snapshot == [kind |-> "snapshot", sequence |-> last, over |-> status = "terminal"]
None     == [kind |-> "none", sequence |-> 0, over |-> FALSE]

Items == [kind : {"event", "snapshot", "none"}, sequence : 0..MaxSequence, over : BOOLEAN]

\* The literal 62: a snapshot, the backlog and one more event fit in a queue.
Backlog == QueueSize - 2

Numbered(s) == [i \in 1..Len(s) |-> Event(s[i])]

LastOf(s, n) == IF Len(s) > n THEN SubSeq(s, Len(s) - n + 1, Len(s)) ELSE s

-----------------------------------------------------------------------------
(* _emit *)

\* Variant: sequence numbers count the events in the buffer.
NextSequence_OfBuffer == Len(events) + 1
NextSequence == last + 1

HasRoom(c, n) == Len(queue[c]) + n <= QueueSize

\* Variant: an event that finds a queue full is dropped, the queue is kept.
Publish_KeepsFull(item) ==
  /\ queue' = [c \in Clients |-> IF c \in subscribers /\ HasRoom(c, 1)
                                 THEN Append(queue[c], item) ELSE queue[c]]
  /\ UNCHANGED subscribers

\* A queue without room leaves the subscribers, and nobody tells its reader.
Publish(item) ==
  /\ queue' = [c \in Clients |-> IF c \in subscribers /\ HasRoom(c, 1)
                                 THEN Append(queue[c], item) ELSE queue[c]]
  /\ subscribers' = {c \in subscribers : HasRoom(c, 1)}

\* Variant: None is put only where nothing else is waiting.
PublishEnd_IdleOnly(item) ==
  /\ queue' = [c \in Clients |->
                 IF c \in subscribers /\ queue[c] = <<>> THEN <<item, None>>
                 ELSE IF c \in subscribers /\ HasRoom(c, 1) THEN Append(queue[c], item)
                 ELSE queue[c]]
  /\ subscribers' = {c \in subscribers : HasRoom(c, 1)}

\* The terminal event, then None for whoever has room for it as well.
PublishEnd(item) ==
  /\ queue' = [c \in Clients |->
                 IF c \in subscribers /\ HasRoom(c, 2) THEN queue[c] \o <<item, None>>
                 ELSE IF c \in subscribers /\ HasRoom(c, 1) THEN Append(queue[c], item)
                 ELSE queue[c]]
  /\ subscribers' = {c \in subscribers : HasRoom(c, 1)}

\* Variant: the buffer is not trimmed.
Record_Untrimmed(n) == last' = n /\ events' = Append(events, n)
Record(n) ==
  /\ last' = n
  /\ events' = LastOf(Append(events, n), MaxEvents)

\* Variant: the record keeps the status it was read with.
Writes_RowOnly(s) == status' = s /\ UNCHANGED recorded
\* update_run reads the row back: after it the record is the row.
Writes(s) == status' = s /\ recorded' = s

\* An event other than a terminal one does not move a run that the record says
\* has ended.
StatusAfter(s) == IF recorded = "terminal" THEN status ELSE s

\* start(): the first client is subscribed before agent.run.started is emitted.
Begin(c) ==
  /\ up
  /\ last = 0
  /\ run = "none"
  /\ reader[c] = "away"
  /\ run' = "listed"
  /\ working' = TRUE
  /\ Record(NextSequence)
  /\ Writes("open")
  /\ subscribers' = {c}
  /\ queue' = [queue EXCEPT ![c] = <<Event(NextSequence)>>]
  /\ reader' = [reader EXCEPT ![c] = "reading"]
  /\ expected' = [expected EXCEPT ![c] = 1]
  /\ UNCHANGED <<reopened, final, stopping, approving, up, cursor, tracking, shown, boundVars>>

\* _emit, for an event that is not a terminal one.
EmitAs(s) ==
  /\ last < MaxSequence
  /\ Record(NextSequence)
  /\ Publish(Event(NextSequence))
  /\ Writes(StatusAfter(s))
  /\ UNCHANGED <<final, run, up, reader, pageVars, boundVars>>

\* The task of the run, wherever the run is listed: an event, ...
Emit ==
  /\ working
  /\ EmitAs(status)
  /\ UNCHANGED <<working, stopping, approving, reopened>>

\* ... its end, ...
EmitTerminal ==
  /\ working
  /\ last < MaxSequence
  /\ Record(NextSequence)
  /\ PublishEnd(Event(NextSequence))
  /\ Writes("terminal")
  /\ final' = NextSequence
  /\ run' = "over"
  /\ working' = FALSE
  /\ UNCHANGED <<reopened, stopping, approving, up, reader, pageVars, boundVars>>

\* ... run.unrecoverable, the last event of a reconciliation Hermes refused, ...
GiveUp ==
  /\ working
  /\ EmitAs("unrecoverable")
  /\ working' = FALSE
  /\ UNCHANGED <<stopping, approving, reopened>>

\* ... or nothing: its polls are used up, or it has announced that the details
\* of an approval are missing.
TaskEnds ==
  /\ working
  /\ working' = FALSE
  /\ UNCHANGED <<rowVars, last, final, run, stopping, approving, events>>
  /\ UNCHANGED <<up, queueVars, pageVars, boundVars>>

\* stop() and approve() take the ActiveRun before the call to Hermes ...
Stop ==
  /\ up
  /\ run = "listed"
  /\ ~stopping
  /\ stopping' = TRUE
  /\ UNCHANGED <<rowVars, last, final, run, working, approving, events>>
  /\ UNCHANGED <<up, queueVars, pageVars, boundVars>>

Approve ==
  /\ up
  /\ run = "listed"
  /\ ~approving
  /\ approving' = TRUE
  /\ UNCHANGED <<rowVars, last, final, run, working, stopping, events>>
  /\ UNCHANGED <<up, queueVars, pageVars, boundVars>>

\* ... and emit after it, wherever the run is by then: stop() in any case, ...
StopReturns ==
  /\ stopping
  /\ stopping' = FALSE
  /\ EmitAs(status)
  /\ UNCHANGED <<working, approving, reopened>>

\* ... approve() unless its record has ended.  The record of a run that was
\* acknowledged meanwhile has not: its row is set running again.
ApproveReturns ==
  /\ approving
  /\ approving' = FALSE
  /\ IF recorded = "terminal"
     THEN UNCHANGED <<rowVars, last, final, run, events, up, queueVars, pageVars, boundVars>>
     ELSE /\ EmitAs("open")
          /\ reopened' = (reopened \/ status = "terminal")
  /\ UNCHANGED <<working, stopping>>

\* Hermes refuses the call, or its answer is lost: nothing is emitted.
CallFails ==
  /\ \/ stopping /\ stopping' = FALSE /\ UNCHANGED approving
     \/ approving /\ approving' = FALSE /\ UNCHANGED stopping
  /\ UNCHANGED <<rowVars, last, final, run, working, events>>
  /\ UNCHANGED <<up, queueVars, pageVars, boundVars>>

\* acknowledge_unrecoverable takes the run out of _active in any case, and
\* closes the row of one that is unrecoverable without a look at its record.
Acknowledge ==
  /\ up
  /\ last > 0
  /\ run' = IF run = "listed" THEN "detached" ELSE run
  /\ status' = IF status = "unrecoverable" THEN "terminal" ELSE status
  /\ UNCHANGED <<recorded, reopened, last, final, working, stopping, approving, events>>
  /\ UNCHANGED <<up, queueVars, pageVars, boundVars>>

-----------------------------------------------------------------------------
(* subscribe() and unsubscribe() *)

\* The buffer is ascending: what the page has not seen is what follows the last
\* event that it has.
Pending(c) ==
  LET first == CHOOSE k \in 1..Len(events) + 1 :
                 /\ \A i \in k..Len(events) : events[i] > cursor[c]
                 /\ k > 1 => events[k - 1] <= cursor[c]
  IN  SubSeq(events, first, Len(events))

\* Variant: only a cursor below the buffer is a gap.
IsGap_CursorOnly(c) == cursor[c] # 0 /\ events # <<>> /\ cursor[c] + 1 < Head(events)
IsGap(c) ==
  \/ cursor[c] # 0 /\ events # <<>> /\ cursor[c] + 1 < Head(events)
  \/ Len(Pending(c)) > Backlog

Replay(c) ==
  IF IsGap(c)
  THEN <<Snapshot>> \o Numbered(LastOf(Pending(c), Backlog))
  ELSE Numbered(Pending(c))

\* Without an ActiveRun: a snapshot, and None if nothing will follow.
\* Variant: None follows in any case.
SnapshotQueue_AlwaysNone == <<Snapshot, None>>
SnapshotQueue ==
  IF status = "terminal" THEN <<Snapshot, None>> ELSE <<Snapshot>>

\* hello: with a cursor the page resumes its run, without one the open run of
\* the conversation is resumed for it.  A page whose stream has ended may have
\* lost its socket since, and says hello like any other.
Connect(c) ==
  /\ up
  /\ last > 0
  /\ reader[c] # "reading"
  /\ cursor[c] # 0 \/ status = "open"
  /\ reader' = [reader EXCEPT ![c] = "reading"]
  /\ expected' = [expected EXCEPT ![c] = cursor[c] + 1]
  /\ IF run = "listed"
     THEN /\ queue' = [queue EXCEPT ![c] = Replay(c)]
          /\ subscribers' = subscribers \cup {c}
     ELSE /\ queue' = [queue EXCEPT ![c] = SnapshotQueue]
          /\ UNCHANGED subscribers
  /\ UNCHANGED <<runVars, up, cursor, tracking, shown, boundVars>>

\* The queue of a reader that is gone is forgotten with it.
LeaveQueue(c) ==
  /\ subscribers' = subscribers \ {c}
  /\ queue' = [queue EXCEPT ![c] = <<>>]

Disconnect(c) ==
  /\ reader[c] = "reading"
  /\ reader' = [reader EXCEPT ![c] = "away"]
  /\ LeaveQueue(c)
  /\ UNCHANGED <<runVars, up, pageVars, boundVars>>

-----------------------------------------------------------------------------
(* stream_subscription, and the page *)

\* run.started tells the page which run it follows, its end makes it forget.
MoveCursor(c, n) ==
  IF n = final
  THEN /\ cursor' = [cursor EXCEPT ![c] = 0]
       /\ tracking' = [tracking EXCEPT ![c] = FALSE]
  ELSE IF tracking[c] \/ n = 1
  THEN /\ cursor' = [cursor EXCEPT ![c] = n]
       /\ tracking' = [tracking EXCEPT ![c] = TRUE]
  ELSE UNCHANGED <<cursor, tracking>>

DeliverEvent(c) ==
  /\ reader[c] = "reading"
  /\ queue[c] # <<>>
  /\ Head(queue[c]).kind = "event"
  /\ LET n == Head(queue[c]).sequence
     IN  /\ MoveCursor(c, n)
         /\ shown' = [shown EXCEPT ![c] = n]
         /\ expected' = [expected EXCEPT ![c] = n + 1]
  /\ queue' = [queue EXCEPT ![c] = Tail(@)]
  /\ UNCHANGED <<runVars, up, subscribers, reader, boundVars>>

DeliverSnapshot(c) ==
  /\ reader[c] = "reading"
  /\ queue[c] # <<>>
  /\ Head(queue[c]).kind = "snapshot"
  /\ expected' = [expected EXCEPT ![c] = 0]
  /\ queue' = [queue EXCEPT ![c] = Tail(@)]
  /\ UNCHANGED <<runVars, up, subscribers, reader, cursor, tracking, shown, boundVars>>

DeliverNone(c) ==
  /\ reader[c] = "reading"
  /\ queue[c] # <<>>
  /\ Head(queue[c]).kind = "none"
  /\ reader' = [reader EXCEPT ![c] = "ended"]
  /\ LeaveQueue(c)
  /\ UNCHANGED <<runVars, up, pageVars, boundVars>>

\* The page is loaded again: its session storage keeps the cursor, or it is
\* opened in another tab and has none.
Reload(c) ==
  /\ reader[c] # "reading"
  /\ reloads < MaxReloads
  /\ reloads' = reloads + 1
  /\ tracking' = [tracking EXCEPT ![c] = FALSE]
  /\ shown' = [shown EXCEPT ![c] = 0]
  /\ cursor' \in {cursor, [cursor EXCEPT ![c] = 0]}
  /\ reader' = [reader EXCEPT ![c] = "away"]
  /\ UNCHANGED <<runVars, up, subscribers, queue, expected, restarts>>

-----------------------------------------------------------------------------
(* The process stops and is started again *)

Crash ==
  /\ up
  /\ restarts < MaxRestarts
  /\ restarts' = restarts + 1
  /\ up' = FALSE
  /\ run' = "none"
  /\ working' = FALSE
  /\ events' = <<>>
  /\ stopping' = FALSE
  /\ approving' = FALSE
  /\ subscribers' = {}
  /\ queue' = [c \in Clients |-> <<>>]
  /\ reader' = [c \in Clients |-> IF reader[c] = "reading" THEN "away" ELSE reader[c]]
  /\ UNCHANGED <<rowVars, last, final, pageVars, reloads>>

\* recover() reconciles a run whose row is open, with the record just read.
Recover ==
  /\ ~up
  /\ up' = TRUE
  /\ IF last > 0 /\ status = "open"
     THEN run' = "listed" /\ working' = TRUE /\ recorded' = status
     ELSE UNCHANGED <<run, working, recorded>>
  /\ UNCHANGED <<status, reopened, last, final, events, stopping, approving>>
  /\ UNCHANGED <<queueVars, pageVars, boundVars>>

-----------------------------------------------------------------------------

Init ==
  /\ status = "open"
  /\ recorded = "open"
  /\ reopened = FALSE
  /\ last = 0
  /\ final = 0
  /\ up = TRUE
  /\ run = "none"
  /\ working = FALSE
  /\ events = <<>>
  /\ stopping = FALSE
  /\ approving = FALSE
  /\ subscribers = {}
  /\ queue = [c \in Clients |-> <<>>]
  /\ reader = [c \in Clients |-> "away"]
  /\ cursor = [c \in Clients |-> 0]
  /\ tracking = [c \in Clients |-> FALSE]
  /\ shown = [c \in Clients |-> 0]
  /\ expected = [c \in Clients |-> 0]
  /\ restarts = 0
  /\ reloads = 0

Deliver(c) == DeliverEvent(c) \/ DeliverSnapshot(c) \/ DeliverNone(c)

Next ==
  \/ Emit \/ EmitTerminal \/ GiveUp \/ TaskEnds
  \/ Stop \/ StopReturns \/ Approve \/ ApproveReturns \/ CallFails \/ Acknowledge
  \/ Crash \/ Recover
  \/ \E c \in Clients :
       Begin(c) \/ Connect(c) \/ Disconnect(c) \/ Deliver(c) \/ Reload(c)

Spec == Init /\ [][Next]_vars

(* The event loop runs the task of every subscription.  Nothing is assumed *)
(* of Hermes, of the owner or of the pages.                                *)
FairSpec == Spec /\ \A c \in Clients : WF_vars(Deliver(c))

-----------------------------------------------------------------------------
(* Properties *)

Statuses == {"open", "unrecoverable", "terminal"}

(* The variables keep their types; in particular no queue ever exceeds its *)
(* size, so no put_nowait of subscribe() can raise QueueFull.              *)
TypeOK ==
  /\ status \in Statuses /\ recorded \in Statuses /\ reopened \in BOOLEAN
  /\ last \in 0..MaxSequence /\ final \in 0..MaxSequence
  /\ up \in BOOLEAN /\ working \in BOOLEAN
  /\ stopping \in BOOLEAN /\ approving \in BOOLEAN
  /\ run \in {"none", "listed", "detached", "over"}
  /\ events \in Seq(1..MaxSequence) /\ Len(events) <= MaxEvents
  /\ subscribers \subseteq Clients
  /\ queue \in [Clients -> Seq(Items)]
  /\ \A c \in Clients : Len(queue[c]) <= QueueSize
  /\ reader \in [Clients -> {"away", "reading", "ended"}]
  /\ cursor \in [Clients -> 0..MaxSequence]
  /\ tracking \in [Clients -> BOOLEAN]
  /\ shown \in [Clients -> 0..MaxSequence]
  /\ expected \in [Clients -> 0..MaxSequence + 1]
  /\ restarts \in 0..MaxRestarts /\ reloads \in 0..MaxReloads

Shows(c, n) ==
  /\ reader[c] = "reading" /\ queue[c] # <<>>
  /\ Head(queue[c]) = Event(n)
  /\ queue'[c] = Tail(queue[c])

(* A page is shown the events of a connection without a hole: the first    *)
(* one is the successor of its cursor, each other one the successor of the *)
(* one before, and a hole is announced by a gap snapshot.  It holds as     *)
(* long as the console is not restarted: with the empty buffer of a        *)
(* recovered run _subscribe_active looks for no gap at all.                *)
NoSilentGap ==
  [][\A c \in Clients : \A n \in 1..MaxSequence :
       Shows(c, n) /\ restarts = 0 => expected[c] \in {0, n}]_vars

(* A page that saw its run start is shown each later event once and in     *)
(* order, however often its socket or the console is lost and resumed.     *)
(* (A page loaded during the run does not move its cursor: what it was     *)
(* shown is replayed to it when it loses its socket again.)                *)
ShownOnceInOrder ==
  [][\A c \in Clients : \A n \in 1..MaxSequence :
       Shows(c, n) /\ tracking[c] => n > shown[c]]_vars

(* A run that ended with a terminal event stays ended: neither an          *)
(* approve() nor a stop() that was sent before and returns after it sets   *)
(* the row running again, also across a restart.                           *)
OutcomeStands == final # 0 => status = "terminal"

(* The end of a stream is believed only when there is nothing more: the    *)
(* page was shown the terminal event, or was told the state of the run in  *)
(* a snapshot, and its row has ended.  There is one exception: a run       *)
(* closed by acknowledge_unrecoverable, without a terminal event, is       *)
(* reopened by an approve() that was in flight.                            *)
EndIsTrue ==
  \A c \in Clients : reader[c] = "ended" =>
    /\ status = "terminal" \/ (final = 0 /\ reopened)
    /\ expected[c] = 0 \/ (final # 0 /\ shown[c] = final)

Waiting(c) == {i \in 1..Len(queue[c]) : queue[c][i].kind = "event"}

(* The queue of a subscriber holds the newest events of the run, one after *)
(* the other: what is waiting and what was shown add up to the history.    *)
QueueIsCurrent ==
  \A c \in subscribers : \A i \in Waiting(c) :
    LET n     == queue[c][i].sequence
        later == {j \in Waiting(c) : j > i}
    IN  IF later = {} THEN n = last
        ELSE \E j \in later : queue[c][j].sequence = n + 1 /\ \A k \in later : j <= k

(* A subscriber of a run that ends gets to the end of its stream, unless   *)
(* its socket is lost: its task is not left waiting for an event that      *)
(* cannot come.  It holds as long as no queue overflows.                   *)
SubscriberHearsTheEnd ==
  \A c \in Clients :
    reader[c] = "reading" /\ c \in subscribers /\ final # 0 ~> reader[c] # "reading"
=============================================================================
