--------------------------- MODULE RunCoordinator ---------------------------
(***************************************************************************)
(* The life of a run in the console: RunCoordinator over ConsoleStore      *)
(* (backend/voice_console/run_coordinator.py, run_store.py) with the       *)
(* Hermes API server it talks to as the environment.                       *)
(*                                                                         *)
(* The coordinator runs on one asyncio event loop, so the code between two *)
(* awaits is one step; every await on Hermes is a step boundary at which   *)
(* any other handler, a crash or Hermes itself may move.  The row of a run *)
(* is durable; everything else in the process is lost by a crash.          *)
(*                                                                         *)
(* Events that do not change a status (deltas, tool progress, the notices  *)
(* run.started, stop.requested, run.unrecoverable, context_missing), their *)
(* sequence numbers and the subscriber queues are the subject of RunFanout *)
(* and are not represented here.                                           *)
(***************************************************************************)
EXTENDS Naturals, Sequences, FiniteSets

CONSTANTS
  Turns,          (* local_turn_id values; a Hermes run is named by its turn *)
  ConversationOf, (* conversation_id of each turn                            *)
  ScopeOf,        (* (owner_key, target_name) of each conversation           *)
  AsksApproval,   (* the turns whose work in Hermes may ask for approval     *)
  Faults,         (* what may go wrong outside the console process           *)
  MaxPolls,       (* polls of one reconciliation: 120 in the code            *)
  MaxRestarts,    (* bound: crashes of the console process                   *)
  MaxStream       (* bound: Hermes events not yet read from one stream       *)

FaultKinds ==
  {"garbled_reply",    \* a 2xx reply to POST /v1/runs without a usable run_id
   "stream_loss",      \* the event stream ends or fails before its last event
   "poll_refused",     \* GET /v1/runs/{id} answers with an error status
   "poll_unreachable", \* GET /v1/runs/{id} gets no answer, or no JSON
   "hermes_restart"}   \* Hermes forgets a run

ASSUME TurnsAssumption ==
  ConversationOf \in [Turns -> DOMAIN ScopeOf]
ASSUME EnvironmentAssumption ==
  AsksApproval \subseteq Turns /\ Faults \subseteq FaultKinds
ASSUME BoundsAssumption ==
  MaxPolls \in Nat \ {0} /\ MaxRestarts \in Nat /\ MaxStream \in Nat \ {0}

VARIABLES
  status,       (* status column; "absent" before the row, "deleted" after it  *)
  runId,        (* turns whose row has a run_id                                *)
  terminalAt,   (* turns whose row has a terminal_at                           *)
  acknowledged, (* turns closed by their owner: failure_category owner_ack...  *)
  up,           (* the console process is running                              *)
  starting,     (* where start() of the turn is suspended                      *)
  active,       (* turns in RunCoordinator._active                             *)
  cached,       (* status in ActiveRun.record, "none" without an ActiveRun     *)
  task,         (* the task of the ActiveRun                                   *)
  polls,        (* polls made by the current reconciliation                    *)
  document,     (* answer of Hermes to a poll, not yet handled                 *)
  approval,     (* where approve() is suspended                                *)
  shown,        (* an approval.request event was emitted: "live" by this       *)
                (* process, "stale" by an earlier one, else "no"               *)
  hermes,       (* the submission and the run as Hermes has them               *)
  stream,       (* events Hermes sent that the console has not read            *)
  restarts      (* crashes so far                                              *)

storeVars   == <<status, runId, terminalAt, acknowledged>>
runVars     == <<active, cached, task>>
pollVars    == <<polls, document>>
approveVars == <<approval, shown>>
hermesVars  == <<hermes, stream>>
nodeVars    == <<up, restarts>>
vars == <<storeVars, starting, runVars, pollVars, approveVars, hermesVars, nodeVars>>

-----------------------------------------------------------------------------
(* Statuses and events *)

TERMINAL_STATUSES == {"completed", "failed", "cancelled", "rejected"}

\* The list in the store's queries, a literal of its own in the code.
ClosedStatuses == {"completed", "failed", "cancelled", "rejected"}

OpenStatuses == {"submitting", "running", "waiting_for_approval",
                 "acceptance_unknown", "unrecoverable"}

TerminalEvents == {"agent.completed", "agent.failed", "agent.stopped"}

\* Variant: a stopped run is recorded as failed.
EventStatus_StoppedFails ==
  [e \in TerminalEvents \cup {"agent.approval.request", "agent.approval.responded",
                              "agent.approval.resolved"} |->
     CASE e = "agent.completed" -> "completed"
       [] e \in {"agent.failed", "agent.stopped"} -> "failed"
       [] e = "agent.approval.request" -> "waiting_for_approval"
       [] OTHER -> "running"]

EventStatus ==
  [e \in TerminalEvents \cup {"agent.approval.request", "agent.approval.responded",
                              "agent.approval.resolved"} |->
     CASE e = "agent.completed" -> "completed"
       [] e = "agent.failed" -> "failed"
       [] e = "agent.stopped" -> "cancelled"
       [] e = "agent.approval.request" -> "waiting_for_approval"
       [] OTHER -> "running"]

\* The statuses with which Hermes ends a run, and the event that reports each.
HermesOutcomes == {"completed", "failed", "cancelled"}
OutcomeEvent == [o \in HermesOutcomes |-> CASE o = "completed" -> "agent.completed"
                                           [] o = "failed" -> "agent.failed"
                                           [] OTHER -> "agent.stopped"]

HermesBusy == {"wire", "running", "waiting", "stopping"}
HermesStates == HermesBusy \cup HermesOutcomes \cup {"none", "lost", "refused", "gone"}

\* Hermes answered the submission with a run id.
HermesAccepted == HermesStates \ {"none", "lost", "refused", "wire"}

-----------------------------------------------------------------------------
(* Queries of the store *)

SameConversation(t, u) == ConversationOf[t] = ConversationOf[u]
SameScope(t, u) == ScopeOf[ConversationOf[t]] = ScopeOf[ConversationOf[u]]

active_run_for_conversation(t) ==
  {u \in Turns : SameConversation(t, u)
                 /\ status[u] \notin ClosedStatuses \cup {"absent", "deleted"}}

acceptance_unknown_for_owner_target(t) ==
  {u \in Turns : SameScope(t, u) /\ status[u] = "acceptance_unknown"}

list_recoverable_runs ==
  {u \in Turns : status[u] \notin ClosedStatuses \cup {"absent", "deleted"}}

\* The per-conversation asyncio.Lock: start() of some turn is inside it.
Locked(t) == \E u \in Turns : SameConversation(t, u) /\ starting[u] # "no"

-----------------------------------------------------------------------------
(* Updates of a row and of the ActiveRun record that caches it *)

SetStatus(t, s) == status' = [status EXCEPT ![t] = s]

\* Variant: the update forgets terminal = TRUE.
CloseRow_NotStamped(t, s) ==
  /\ SetStatus(t, s)
  /\ UNCHANGED terminalAt

\* update_run of a row no ActiveRun refers to, terminal = TRUE.
CloseRow(t, s) ==
  /\ SetStatus(t, s)
  /\ terminalAt' = terminalAt \cup {t}

\* The status an event gives to the row: the guard reads the cached record.
EmittedStatus(t, event) ==
  IF event \in TerminalEvents \/ cached[t] \notin TERMINAL_STATUSES
  THEN EventStatus[event]
  ELSE status[t]

\* The record update_run returns replaces the one in the ActiveRun.
KeepRecord_Forgotten(t, s) == UNCHANGED cached   \* variant: it is dropped
KeepRecord(t, s) == cached' = [cached EXCEPT ![t] = s]

\* _emit, for an event that carries a status.
Emit(t, event) ==
  /\ SetStatus(t, EmittedStatus(t, event))
  /\ KeepRecord(t, EmittedStatus(t, event))
  /\ terminalAt' = IF event \in TerminalEvents THEN terminalAt \cup {t} ELSE terminalAt
  /\ active' = IF event \in TerminalEvents THEN active \ {t} ELSE active
  /\ shown' = IF event = "agent.approval.request"
              THEN [shown EXCEPT ![t] = "live"] ELSE shown

\* _terminal: the status it writes first is the one its event gives.
Terminal(t, outcome) == Emit(t, OutcomeEvent[outcome])

BeginTask(t) == task' = [task EXCEPT ![t] = "consume"]

EndTask(t) == task' = [task EXCEPT ![t] = "done"]

-----------------------------------------------------------------------------
(* start(): the guards and insert_run are one step *)

MayStart_NoConversationLock(t) == acceptance_unknown_for_owner_target(t) = {}
MayStart(t) ==
  /\ acceptance_unknown_for_owner_target(t) = {}
  /\ active_run_for_conversation(t) = {}

Start(t) ==
  /\ up
  /\ status[t] = "absent"
  /\ ~Locked(t)
  /\ MayStart(t)
  /\ SetStatus(t, "submitting")
  /\ starting' = [starting EXCEPT ![t] = "history"]
  /\ UNCHANGED <<runId, terminalAt, acknowledged, runVars, pollVars,
                 approveVars, hermesVars, nodeVars>>

\* History unreadable or not visible in three attempts, target without the
\* runs capability, or a connection that was never made.
StartFails(t) ==
  /\ starting[t] = "history"
  /\ CloseRow(t, "rejected")
  /\ starting' = [starting EXCEPT ![t] = "no"]
  /\ UNCHANGED <<runId, acknowledged, runVars, pollVars, approveVars,
                 hermesVars, nodeVars>>

\* POST /v1/runs leaves the console.
Post(t) ==
  /\ starting[t] = "history"
  /\ starting' = [starting EXCEPT ![t] = "posting"]
  /\ hermes' = [hermes EXCEPT ![t] = "wire"]
  /\ UNCHANGED <<storeVars, runVars, pollVars, approveVars, stream, nodeVars>>

\* The reply carries a run_id: ActiveRun registered, consumer task created.
StartAccepted(t) ==
  /\ starting[t] = "posting"
  /\ hermes[t] \in HermesAccepted
  /\ starting' = [starting EXCEPT ![t] = "no"]
  /\ SetStatus(t, "running")
  /\ runId' = runId \cup {t}
  /\ active' = active \cup {t}
  /\ KeepRecord(t, "running")
  /\ BeginTask(t)
  /\ UNCHANGED <<terminalAt, acknowledged, pollVars, approveVars, hermesVars,
                 nodeVars>>

\* An error status, or a 2xx reply without a usable run_id: both are rejected.
StartRefused(t) ==
  /\ starting[t] = "posting"
  /\ \/ hermes[t] = "refused"
     \/ "garbled_reply" \in Faults /\ hermes[t] \in HermesAccepted
  /\ CloseRow(t, "rejected")
  /\ starting' = [starting EXCEPT ![t] = "no"]
  /\ UNCHANGED <<runId, acknowledged, runVars, pollVars, approveVars,
                 hermesVars, nodeVars>>

\* Variant: an ambiguous submission is treated as a failed one.
StartAmbiguous_Rejected(t) ==
  /\ starting[t] = "posting"
  /\ CloseRow(t, "rejected")
  /\ starting' = [starting EXCEPT ![t] = "no"]
  /\ UNCHANGED <<runId, acknowledged, runVars, pollVars, approveVars,
                 hermesVars, nodeVars>>

\* Variant: an ambiguous submission is tried again.
StartAmbiguous_Retried(t) ==
  /\ starting[t] = "posting"
  /\ starting' = [starting EXCEPT ![t] = "history"]
  /\ UNCHANGED <<storeVars, runVars, pollVars, approveVars, hermesVars,
                 nodeVars>>

\* HermesAmbiguousSubmission: a timeout or a reset after the request was sent.
StartAmbiguous(t) ==
  /\ starting[t] = "posting"
  /\ SetStatus(t, "acceptance_unknown")
  /\ starting' = [starting EXCEPT ![t] = "no"]
  /\ UNCHANGED <<runId, terminalAt, acknowledged, runVars, pollVars,
                 approveVars, hermesVars, nodeVars>>

-----------------------------------------------------------------------------
(* _consume *)

ConsumeEvent(t) ==
  /\ task[t] = "consume"
  /\ stream[t] # <<>>
  /\ Emit(t, Head(stream[t]))
  /\ stream' = [stream EXCEPT ![t] = Tail(@)]
  /\ IF Head(stream[t]) \in TerminalEvents THEN EndTask(t) ELSE UNCHANGED task
  /\ UNCHANGED <<runId, acknowledged, starting, pollVars, approval, hermes,
                 nodeVars>>

\* The stream ends without a terminal event: reconcile inside the try block.
\* It fails: reconcile inside the except block, where a second failure escapes.
StreamLost(t) ==
  /\ task[t] = "consume"
  /\ \/ "stream_loss" \in Faults
     \/ hermes[t] = "gone" /\ stream[t] = <<>>
  /\ \/ task' = [task EXCEPT ![t] = "reconcile_in_try"]
     \/ task' = [task EXCEPT ![t] = "reconcile"]
  /\ stream' = [stream EXCEPT ![t] = <<>>]
  /\ polls' = [polls EXCEPT ![t] = 0]
  /\ UNCHANGED <<storeVars, starting, active, cached, document, approveVars,
                 hermes, nodeVars>>

-----------------------------------------------------------------------------
(* _reconcile: a poll is answered by Hermes, then the answer is handled *)

PollsLeft(t) == polls[t] < MaxPolls

Reconciling(t) == task[t] \in {"reconcile_in_try", "reconcile"}

HermesAnswersPoll(t) ==
  /\ Reconciling(t)
  /\ document[t] = "none"
  /\ PollsLeft(t)
  /\ \E answer \in {hermes[t], "refused", "unreachable"} :
       /\ answer = "refused" => "poll_refused" \in Faults \/ hermes[t] = "gone"
       /\ answer = "unreachable" => "poll_unreachable" \in Faults
       /\ answer # "gone"
       /\ document' = [document EXCEPT ![t] = answer]
  /\ polls' = [polls EXCEPT ![t] = @ + 1]
  /\ UNCHANGED <<storeVars, starting, runVars, approveVars, hermesVars,
                 nodeVars>>

TakeDocument(t, documents) ==
  /\ Reconciling(t)
  /\ document[t] \in documents
  /\ document' = [document EXCEPT ![t] = "none"]

\* HermesApiError: the run is unrecoverable and the task ends.
PollRefused(t) ==
  /\ TakeDocument(t, {"refused"})
  /\ SetStatus(t, "unrecoverable")
  /\ KeepRecord(t, "unrecoverable")
  /\ EndTask(t)
  /\ UNCHANGED <<runId, terminalAt, acknowledged, starting, active, polls,
                 approveVars, hermesVars, nodeVars>>

\* Any other exception leaves _reconcile; _consume restarts it once.
PollUnreachable(t) ==
  /\ TakeDocument(t, {"unreachable"})
  /\ \/ /\ task[t] = "reconcile_in_try"
        /\ task' = [task EXCEPT ![t] = "reconcile"]
        /\ polls' = [polls EXCEPT ![t] = 0]
     \/ /\ task[t] = "reconcile"
        /\ EndTask(t)
        /\ UNCHANGED polls
  /\ UNCHANGED <<storeVars, starting, active, cached, approveVars, hermesVars,
                 nodeVars>>

PollSettled(t) ==
  /\ TakeDocument(t, HermesOutcomes)
  /\ Terminal(t, document[t])
  /\ EndTask(t)
  /\ UNCHANGED <<runId, acknowledged, starting, polls, approval, hermesVars,
                 nodeVars>>

\* agent.approval.context_missing is emitted and the task ends.
PollWaiting(t) ==
  /\ TakeDocument(t, {"waiting"})
  /\ EndTask(t)
  /\ UNCHANGED <<storeVars, starting, active, cached, polls, approveVars,
                 hermesVars, nodeVars>>

PollAgain(t) ==
  /\ TakeDocument(t, {"running", "stopping"})
  /\ UNCHANGED <<storeVars, starting, runVars, polls, approveVars, hermesVars,
                 nodeVars>>

\* The loop is exhausted: _reconcile returns.
PollsExhausted(t) ==
  /\ Reconciling(t)
  /\ document[t] = "none"
  /\ ~PollsLeft(t)
  /\ EndTask(t)
  /\ UNCHANGED <<storeVars, starting, active, cached, pollVars, approveVars,
                 hermesVars, nodeVars>>

-----------------------------------------------------------------------------
(* approve(), stop() and the acknowledgements, called for the owner *)

\* The owner answers a request the console has shown.
Approve(t) ==
  /\ up
  /\ t \in active
  /\ shown[t] # "no"
  /\ approval[t] = "no"
  /\ approval' = [approval EXCEPT ![t] = "sent"]
  /\ UNCHANGED <<storeVars, starting, runVars, pollVars, shown, hermesVars,
                 nodeVars>>

ApproveReturns(t) ==
  /\ approval[t] = "answered"
  /\ approval' = [approval EXCEPT ![t] = "no"]
  /\ IF cached[t] \in TERMINAL_STATUSES
     THEN UNCHANGED <<status, terminalAt, active, cached, shown>>
     ELSE Emit(t, "agent.approval.resolved")
  /\ UNCHANGED <<runId, acknowledged, starting, task, pollVars, hermesVars,
                 nodeVars>>

\* Hermes refuses, or its answer is lost: the exception leaves approve().
ApproveFails(t) ==
  /\ approval[t] # "no"
  /\ approval' = [approval EXCEPT ![t] = "no"]
  /\ UNCHANGED <<storeVars, starting, runVars, pollVars, shown, hermesVars,
                 nodeVars>>

\* stop() of a run Hermes is working on; its notice changes no status.
Stop(t) ==
  /\ up
  /\ t \in runId
  /\ status[t] # "deleted"
  /\ hermes[t] \in {"running", "waiting"}
  /\ hermes' = [hermes EXCEPT ![t] = "stopping"]
  /\ UNCHANGED <<storeVars, starting, runVars, pollVars, approveVars, stream,
                 nodeVars>>

acknowledge_unknown(t) ==
  /\ up
  /\ status[t] = "acceptance_unknown"
  /\ CloseRow(t, "failed")
  /\ acknowledged' = acknowledged \cup {t}
  /\ UNCHANGED <<runId, starting, runVars, pollVars, approveVars, hermesVars,
                 nodeVars>>

\* The run leaves _active before the store looks at its status.
acknowledge_unrecoverable(t) ==
  /\ up
  /\ t \in runId
  /\ active' = active \ {t}
  /\ \/ /\ status[t] = "unrecoverable"
        /\ CloseRow(t, "failed")
        /\ acknowledged' = acknowledged \cup {t}
     \/ /\ status[t] # "unrecoverable"
        /\ UNCHANGED <<status, terminalAt, acknowledged>>
  /\ UNCHANGED <<runId, starting, cached, task, pollVars, approveVars,
                 hermesVars, nodeVars>>

-----------------------------------------------------------------------------
(* The process stops, by close() or a crash, and is started again *)

Crash ==
  /\ up
  /\ restarts < MaxRestarts
  /\ restarts' = restarts + 1
  /\ up' = FALSE
  /\ starting' = [t \in Turns |-> "no"]
  /\ active' = {}
  /\ cached' = [t \in Turns |-> "none"]
  /\ task' = [t \in Turns |-> "none"]
  /\ document' = [t \in Turns |-> "none"]
  /\ approval' = [t \in Turns |-> "no"]
  /\ shown' = [t \in Turns |-> IF shown[t] = "live" THEN "stale" ELSE shown[t]]
  /\ stream' = [t \in Turns |-> <<>>]
  /\ UNCHANGED <<storeVars, polls, hermes>>

\* Variant: only running runs are recovered.
Recoverable_RunningOnly ==
  {t \in list_recoverable_runs \cap runId : status[t] = "running"}

\* recover(): cleanup_terminal, then a reconciliation for every open row with a
\* run_id that does not wait for its owner.  Any stamped row may be old enough.
Recoverable ==
  {t \in list_recoverable_runs \cap runId :
     status[t] \notin {"acceptance_unknown", "unrecoverable"}}

Recover ==
  /\ ~up
  /\ up' = TRUE
  /\ \E old \in SUBSET terminalAt :
       LET revived == Recoverable \ old
       IN  /\ status' = [t \in Turns |-> IF t \in old THEN "deleted" ELSE status[t]]
           /\ active' = revived
           /\ cached' = [t \in Turns |-> IF t \in revived THEN status[t] ELSE "none"]
           /\ task' = [t \in Turns |-> IF t \in revived THEN "reconcile" ELSE "none"]
  /\ polls' = [t \in Turns |-> 0]
  /\ UNCHANGED <<runId, terminalAt, acknowledged, starting, document,
                 approveVars, hermesVars, restarts>>

-----------------------------------------------------------------------------
(* Hermes *)

\* The console reads, or will read, the run's events.
Listening(t) == task[t] = "consume" \/ starting[t] = "posting"

Send(t, event) ==
  IF Listening(t)
  THEN /\ Len(stream[t]) < MaxStream
       /\ stream' = [stream EXCEPT ![t] = Append(@, event)]
  ELSE UNCHANGED stream

HermesMoves(t, from, to) ==
  /\ hermes[t] \in from
  /\ hermes' = [hermes EXCEPT ![t] = to]
  /\ UNCHANGED <<storeVars, starting, runVars, pollVars, shown, nodeVars>>

\* The request arrives, or never does; nothing tells the console which.
HermesReceives(t) ==
  /\ \E reaction \in {"running", "refused", "lost"} :
       HermesMoves(t, {"wire"}, reaction)
  /\ UNCHANGED <<approval, stream>>

HermesAsks(t) ==
  /\ t \in AsksApproval
  /\ HermesMoves(t, {"running"}, "waiting")
  /\ Send(t, "agent.approval.request")
  /\ UNCHANGED approval

HermesApproves(t) ==
  /\ approval[t] = "sent"
  /\ approval' = [approval EXCEPT ![t] = "answered"]
  /\ HermesMoves(t, {"waiting"}, "running")
  /\ Send(t, "agent.approval.responded")

HermesFinishes(t) ==
  /\ \E outcome \in {"completed", "failed"} :
       /\ HermesMoves(t, {"running"}, outcome)
       /\ Send(t, OutcomeEvent[outcome])
  /\ UNCHANGED approval

HermesStops(t) ==
  /\ HermesMoves(t, {"stopping"}, "cancelled")
  /\ Send(t, "agent.stopped")
  /\ UNCHANGED approval

HermesForgets(t) ==
  /\ "hermes_restart" \in Faults
  /\ HermesMoves(t, HermesAccepted \ {"gone"}, "gone")
  /\ UNCHANGED <<approval, stream>>

-----------------------------------------------------------------------------

Init ==
  /\ status = [t \in Turns |-> "absent"]
  /\ runId = {}
  /\ terminalAt = {}
  /\ acknowledged = {}
  /\ up = TRUE
  /\ starting = [t \in Turns |-> "no"]
  /\ active = {}
  /\ cached = [t \in Turns |-> "none"]
  /\ task = [t \in Turns |-> "none"]
  /\ polls = [t \in Turns |-> 0]
  /\ document = [t \in Turns |-> "none"]
  /\ approval = [t \in Turns |-> "no"]
  /\ shown = [t \in Turns |-> "no"]
  /\ hermes = [t \in Turns |-> "none"]
  /\ stream = [t \in Turns |-> <<>>]
  /\ restarts = 0

(* Each coroutine of the event loop takes its next step, until it awaits.  *)
Submit(t) ==
  StartFails(t) \/ Post(t) \/ StartAccepted(t) \/ StartRefused(t) \/ StartAmbiguous(t)

Consume(t) == ConsumeEvent(t) \/ StreamLost(t)

Reconcile(t) ==
  \/ PollRefused(t) \/ PollUnreachable(t) \/ PollSettled(t) \/ PollWaiting(t)
  \/ PollAgain(t) \/ PollsExhausted(t)

FinishApproval(t) == ApproveReturns(t) \/ ApproveFails(t)

Owner(t) ==
  \/ Start(t) \/ Approve(t) \/ Stop(t)
  \/ acknowledge_unknown(t) \/ acknowledge_unrecoverable(t)

Hermes(t) ==
  \/ HermesReceives(t) \/ HermesAnswersPoll(t) \/ HermesAsks(t)
  \/ HermesApproves(t) \/ HermesFinishes(t) \/ HermesStops(t) \/ HermesForgets(t)

Next ==
  \/ Crash
  \/ Recover
  \/ \E t \in Turns :
       Submit(t) \/ Consume(t) \/ Reconcile(t) \/ FinishApproval(t)
       \/ Owner(t) \/ Hermes(t)

Spec == Init /\ [][Next]_vars

(***************************************************************************)
(* The event loop runs every coroutine that can run, the supervisor starts *)
(* a stopped console again, and Hermes answers, stops a run it was told to *)
(* stop, and does not work for ever: an attempt that is repeatedly able to *)
(* finish finishes.  Nothing is assumed of the owner or of the faults.     *)
(***************************************************************************)
Fairness ==
  /\ WF_vars(Recover)
  /\ \A t \in Turns :
       /\ WF_vars(Submit(t))
       /\ WF_vars(Consume(t))
       /\ WF_vars(Reconcile(t))
       /\ WF_vars(FinishApproval(t))
       /\ WF_vars(HermesReceives(t))
       /\ WF_vars(HermesAnswersPoll(t))
       /\ WF_vars(HermesStops(t))
       /\ SF_vars(HermesFinishes(t))

FairSpec == Spec /\ Fairness

-----------------------------------------------------------------------------
(* Properties *)

(* The variables keep their types: in particular a record never gets a     *)
(* status the store does not know, and the unread stream stays bounded.    *)
TypeOK ==
  /\ status \in [Turns -> OpenStatuses \cup ClosedStatuses \cup {"absent", "deleted"}]
  /\ runId \subseteq Turns
  /\ terminalAt \subseteq Turns
  /\ acknowledged \subseteq Turns
  /\ up \in BOOLEAN
  /\ starting \in [Turns -> {"no", "history", "posting"}]
  /\ active \subseteq Turns
  /\ cached \in [Turns -> OpenStatuses \cup ClosedStatuses \cup {"none"}]
  /\ task \in [Turns -> {"none", "consume", "reconcile_in_try", "reconcile", "done"}]
  /\ polls \in [Turns -> 0..MaxPolls]
  /\ document \in [Turns -> HermesAccepted \cup {"none", "refused", "unreachable"}]
  /\ approval \in [Turns -> {"no", "sent", "answered"}]
  /\ shown \in [Turns -> {"no", "live", "stale"}]
  /\ hermes \in [Turns -> HermesStates]
  /\ stream \in [Turns -> Seq(DOMAIN EventStatus)]
  /\ \A t \in Turns : Len(stream[t]) <= MaxStream
  /\ restarts \in 0..MaxRestarts

(* While Hermes may be executing a turn, or may still receive it, the      *)
(* conversation of the turn is locked, unless its owner has acknowledged   *)
(* the risk: neither a lost reply, a crash, a recovery nor the cleanup of  *)
(* old rows releases the lock first.                                       *)
NoUnlockedWork ==
  \A t \in Turns :
    hermes[t] \in HermesBusy /\ t \notin acknowledged =>
      t \in active_run_for_conversation(t)

(* A run is closed with the outcome Hermes gave it, whether the console    *)
(* learnt it from the stream or from a poll; without a run id it can only  *)
(* have been rejected or acknowledged.                                     *)
OutcomeAgrees ==
  \A t \in Turns \ acknowledged :
    /\ status[t] \in HermesOutcomes => t \in runId /\ hermes[t] \in {status[t], "gone"}
    /\ status[t] = "rejected" => t \notin runId

(* A closed run keeps its outcome until its row expires: an approval or a  *)
(* poll that was in flight does not reopen it or change how it ended.  (A  *)
(* run closed by its owner's acknowledgement is not covered.)              *)
OutcomeFinal ==
  [][\A t \in Turns \ acknowledged :
       status[t] \in ClosedStatuses => status'[t] \in {status[t], "deleted"}]_vars

(* A turn is submitted to Hermes once: neither reconnection, recovery nor  *)
(* reconciliation posts it again.                                          *)
NeverReposted ==
  [][\A t \in Turns : hermes'[t] = "wire" => hermes[t] \in {"none", "wire"}]_vars

(* The coordinator implements the ledger of turns: a turn is decided when  *)
(* its row is stamped with terminal_at.                                    *)
phase ==
  [t \in Turns |->
     CASE status[t] = "absent" -> "new"
       [] t \in terminalAt -> "decided"
       [] status[t] = "acceptance_unknown" -> "uncertain"
       [] OTHER -> "undecided"]

Ledger == INSTANCE TurnLedger

ImplementsLedger == Ledger!Spec

(* Where a turn may come to rest: settled, or waiting for its owner ...    *)
Settled(t) == status[t] \in ClosedStatuses \cup {"deleted"}
AwaitsOwner(t) ==
  status[t] \in {"acceptance_unknown", "unrecoverable"} \/ hermes[t] = "waiting"
(* ... or stranded: submitting with no start() behind it, or open with its *)
(* task ended.                                                             *)
Orphaned(t) == up /\ status[t] = "submitting" /\ starting[t] = "no"
Abandoned(t) == task[t] = "done" /\ status[t] \in {"running", "waiting_for_approval"}

Underway(t) ==
  starting[t] # "no" \/ task[t] \in {"consume", "reconcile_in_try", "reconcile"}

(* A turn that is being submitted or followed is eventually settled,       *)
(* handed to its owner, or stranded in one of the two ways above: no task  *)
(* follows a run for ever and no third way to strand a run exists.         *)
SettlesOrIsStranded ==
  \A t \in Turns :
    Underway(t) ~> Settled(t) \/ AwaitsOwner(t) \/ Orphaned(t) \/ Abandoned(t)

-----------------------------------------------------------------------------
(* The inductive invariant: what relates the row, the ActiveRun, the tasks *)
(* and Hermes between steps.                                               *)

(* Nothing refers to a turn before its row exists.                         *)
Unborn ==
  \A t \in Turns : status[t] = "absent" =>
    /\ t \notin runId \cup terminalAt \cup acknowledged
    /\ hermes[t] = "none"

(* A suspended start() owns a fresh row.                                   *)
StartOwnsRow ==
  \A t \in Turns : starting[t] # "no" =>
    /\ status[t] = "submitting"
    /\ t \notin runId \cup terminalAt \cup acknowledged
    /\ starting[t] = "history" => hermes[t] = "none"

(* A run id means that Hermes accepted the turn, and excludes the statuses *)
(* of a turn that is not accepted, or not known to be.                     *)
RunIdStatus ==
  \A t \in Turns :
    /\ t \in runId =>
         /\ status[t] \notin {"absent", "submitting", "acceptance_unknown", "rejected"}
         /\ hermes[t] \in HermesAccepted
    /\ status[t] = "acceptance_unknown" => t \notin terminalAt

(* An ActiveRun belongs to an accepted run, and its cached status is that  *)
(* of the row as long as the owner has not closed the row behind it.       *)
CacheCoherent ==
  \A t \in Turns :
    /\ cached[t] # "none" => t \in runId /\ status[t] # "deleted"
    /\ approval[t] # "no" => cached[t] # "none"
    /\ t \in active => cached[t] # "none"
    /\ cached[t] # "none" /\ t \notin acknowledged => cached[t] = status[t]

(* A task works on an open run.                                            *)
TaskFollowsOpenRun ==
  \A t \in Turns : task[t] \in {"consume", "reconcile_in_try", "reconcile"} =>
    /\ status[t] \in {"running", "waiting_for_approval"}
    /\ cached[t] # "none"

(* A closed row is stamped, one its owner closed included; a stamped row   *)
(* is closed unless its owner closed it.                                   *)
Stamped ==
  \A t \in Turns :
    /\ t \in acknowledged => t \in terminalAt
    /\ status[t] \in ClosedStatuses \cup {"deleted"} => t \in terminalAt
    /\ t \in terminalAt \ acknowledged => status[t] \in ClosedStatuses \cup {"deleted"}

(* What is on its way from Hermes about the end of a run is true.          *)
ReportsAreTrue ==
  \A t \in Turns :
    /\ \A i \in 1..Len(stream[t]) : stream[t][i] \in TerminalEvents =>
         hermes[t] \in {EventStatus[stream[t][i]], "gone"}
    /\ document[t] \in HermesOutcomes => hermes[t] \in {document[t], "gone"}

(* Nothing of a stopped process remains.                                   *)
DownIsIdle ==
  ~up => active = {} /\ \A t \in Turns :
           starting[t] = "no" /\ cached[t] = "none" /\ task[t] = "none"
           /\ approval[t] = "no"

IInv ==
  /\ TypeOK
  /\ Unborn
  /\ StartOwnsRow
  /\ RunIdStatus
  /\ CacheCoherent
  /\ TaskFollowsOpenRun
  /\ Stamped
  /\ ReportsAreTrue
  /\ DownIsIdle
=============================================================================
