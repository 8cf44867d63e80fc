------------------------ MODULE RunCoordinatorProofs ------------------------
(***************************************************************************)
(* Theorems about RunCoordinator for every set of turns and conversations, *)
(* every combination of faults and every bound.                            *)
(*                                                                         *)
(* The inductive invariant IInv is needed because neither the guards of a  *)
(* handler nor the type invariant say what a suspended handler may still   *)
(* believe: that an ActiveRun caches the status of its row, that a task    *)
(* follows an open run, that a report under way is true.  It is preserved  *)
(* by every action (one lemma each), and the properties follow from it.    *)
(***************************************************************************)
EXTENDS RunCoordinator, SequenceTheorems, TLAPS

\* Names of groups of variables, and of updates of one entry.
USE DEF storeVars, runVars, pollVars, approveVars, hermesVars, nodeVars,
        SetStatus, CloseRow, KeepRecord, BeginTask, EndTask

RowStatuses == OpenStatuses \cup ClosedStatuses

-----------------------------------------------------------------------------
(* The tables of statuses and events *)

(* The status each event gives: terminal events give outcomes.             *)
LEMMA EventTable ==
  /\ DOMAIN EventStatus = TerminalEvents \cup
       {"agent.approval.request", "agent.approval.responded", "agent.approval.resolved"}
  /\ \A e \in DOMAIN EventStatus :
       IF e \in TerminalEvents THEN EventStatus[e] \in HermesOutcomes
       ELSE EventStatus[e] \in {"running", "waiting_for_approval"}
BY DEF EventStatus, TerminalEvents, HermesOutcomes

(* The event that reports an outcome of Hermes gives the row that outcome. *)
LEMMA OutcomeTable ==
  \A o \in HermesOutcomes :
    /\ OutcomeEvent[o] \in TerminalEvents
    /\ EventStatus[OutcomeEvent[o]] = o
BY DEF OutcomeEvent, HermesOutcomes, TerminalEvents, EventStatus

(* An event that carries a status, emitted for a run that has a row: a     *)
(* terminal event closes and stamps the row, another one leaves a closed   *)
(* record as it is and otherwise makes the run running or waiting.         *)
LEMMA EmitFacts ==
  ASSUME TypeOK, NEW t \in Turns, NEW e \in DOMAIN EventStatus,
         status[t] \in RowStatuses, Emit(t, e)
  PROVE  /\ EmittedStatus(t, e) \in RowStatuses
         /\ status' = [status EXCEPT ![t] = EmittedStatus(t, e)]
         /\ cached' = [cached EXCEPT ![t] = EmittedStatus(t, e)]
         /\ shown' \in [Turns -> {"no", "live", "stale"}]
         /\ e \in TerminalEvents =>
              /\ EmittedStatus(t, e) = EventStatus[e]
              /\ EmittedStatus(t, e) \in HermesOutcomes
              /\ terminalAt' = terminalAt \cup {t}
              /\ active' = active \ {t}
         /\ e \notin TerminalEvents =>
              /\ IF cached[t] \in TERMINAL_STATUSES
                 THEN EmittedStatus(t, e) = status[t]
                 ELSE EmittedStatus(t, e) \in {"running", "waiting_for_approval"}
              /\ UNCHANGED <<terminalAt, active>>
BY EventTable DEF Emit, EmittedStatus, TypeOK, RowStatuses, OpenStatuses,
                  ClosedStatuses, HermesOutcomes

(* ... and the variables it changes keep their types.                      *)
LEMMA EmitTyped ==
  ASSUME IInv, NEW t \in Turns, NEW e \in DOMAIN EventStatus,
         status[t] \in RowStatuses, Emit(t, e)
  PROVE  /\ status' \in [Turns -> OpenStatuses \cup ClosedStatuses \cup {"absent", "deleted"}]
         /\ cached' \in [Turns -> OpenStatuses \cup ClosedStatuses \cup {"none"}]
         /\ shown' \in [Turns -> {"no", "live", "stale"}]
         /\ terminalAt' \subseteq Turns
         /\ active' \subseteq Turns
<1>1. TypeOK
  BY DEF IInv
<1>2. /\ EmittedStatus(t, e) \in RowStatuses
      /\ status' = [status EXCEPT ![t] = EmittedStatus(t, e)]
      /\ cached' = [cached EXCEPT ![t] = EmittedStatus(t, e)]
      /\ shown' \in [Turns -> {"no", "live", "stale"}]
  BY <1>1, EmitFacts
<1>3. terminalAt' \subseteq Turns /\ active' \subseteq Turns
  BY <1>1 DEF Emit, TypeOK
<1> QED
  BY <1>1, <1>2, <1>3 DEF TypeOK, RowStatuses

-----------------------------------------------------------------------------
(* The initial states *)

(* The invariant holds before the first turn is submitted.                 *)
LEMMA InitIInv == Init => IInv
<1> SUFFICES ASSUME Init PROVE IInv
  OBVIOUS
<1>1. TypeOK
  BY BoundsAssumption DEF Init, TypeOK, HermesStates
<1>2. Unborn /\ StartOwnsRow /\ RunIdStatus /\ Stamped
  BY DEF Init, Unborn, StartOwnsRow, RunIdStatus, Stamped, ClosedStatuses
<1>3. CacheCoherent /\ TaskFollowsOpenRun /\ DownIsIdle
  BY DEF Init, CacheCoherent, TaskFollowsOpenRun, DownIsIdle
<1>4. ReportsAreTrue
  BY DEF Init, ReportsAreTrue, HermesOutcomes
<1> QED
  BY <1>1, <1>2, <1>3, <1>4 DEF IInv

-----------------------------------------------------------------------------
(* What is on its way from Hermes *)

(* No report of an end is under way for a run that has not ended.          *)
LEMMA NothingReported ==
  ASSUME TypeOK, ReportsAreTrue, NEW t \in Turns, hermes[t] \notin HermesOutcomes,
         hermes[t] # "gone"
  PROVE  /\ \A i \in 1..Len(stream[t]) : stream[t][i] \notin TerminalEvents
         /\ document[t] \notin HermesOutcomes
<1>1. \A i \in 1..Len(stream[t]) : stream[t][i] \in DOMAIN EventStatus
  BY DEF TypeOK
<1> QED
  BY <1>1, EventTable DEF ReportsAreTrue

(* Hermes moves without telling: what was under way remains true.          *)
LEMMA SilentMove ==
  ASSUME TypeOK, ReportsAreTrue, NEW t \in Turns, NEW to,
         hermes' = [hermes EXCEPT ![t] = to],
         UNCHANGED <<stream, document>>,
         hermes[t] \notin HermesOutcomes, hermes[t] # "gone"
  PROVE  ReportsAreTrue'
<1>1. \A u \in Turns \ {t} : hermes'[u] = hermes[u]
  BY DEF TypeOK
<1> QED
  BY <1>1, NothingReported DEF ReportsAreTrue

(* One more report, of the state Hermes moves to.                          *)
LEMMA SendTyped ==
  ASSUME TypeOK, NEW t \in Turns, NEW e \in DOMAIN EventStatus, Send(t, e)
  PROVE  /\ stream' \in [Turns -> Seq(DOMAIN EventStatus)]
         /\ \A u \in Turns : Len(stream'[u]) <= MaxStream
         /\ \A u \in Turns \ {t} : stream'[u] = stream[u]
         /\ \/ stream'[t] = stream[t]
            \/ stream'[t] = Append(stream[t], e)
<1>1. /\ stream \in [Turns -> Seq(DOMAIN EventStatus)]
      /\ \A u \in Turns : Len(stream[u]) <= MaxStream
  BY DEF TypeOK
<1>2. CASE stream' = stream
  BY <1>1, <1>2
<1>3. CASE Len(stream[t]) < MaxStream /\ stream' = [stream EXCEPT ![t] = Append(@, e)]
  <2>1. /\ Append(stream[t], e) \in Seq(DOMAIN EventStatus)
        /\ Len(Append(stream[t], e)) <= MaxStream
    BY <1>1, <1>3, BoundsAssumption
  <2> QED
    BY <1>1, <1>3, <2>1
<1> QED
  BY <1>2, <1>3 DEF Send

(* Hermes moves and reports the state it moves to: all reports are true.   *)
LEMMA ReportingMove ==
  ASSUME TypeOK, ReportsAreTrue, NEW t \in Turns, NEW to, NEW e \in DOMAIN EventStatus,
         hermes' = [hermes EXCEPT ![t] = to], Send(t, e), UNCHANGED document,
         e \in TerminalEvents => EventStatus[e] = to,
         hermes[t] \notin HermesOutcomes, hermes[t] # "gone"
  PROVE  ReportsAreTrue'
<1>1. ASSUME NEW u \in Turns, NEW i \in 1..Len(stream'[u]),
             stream'[u][i] \in TerminalEvents
      PROVE  hermes'[u] \in {EventStatus[stream'[u][i]], "gone"}
  <2>1. CASE u # t
    <3>1. hermes'[u] = hermes[u] /\ stream'[u] = stream[u]
      BY <2>1, SendTyped DEF TypeOK
    <3> QED
      BY <1>1, <3>1 DEF ReportsAreTrue
  <2>2. CASE u = t /\ stream'[t] = stream[t]
    BY <1>1, <2>2, NothingReported
  <2>3. CASE u = t /\ stream'[t] = Append(stream[t], e)
    <3>1. stream[t] \in Seq(DOMAIN EventStatus)
      BY DEF TypeOK
    <3>2. i \in 1..Len(stream[t]) => stream'[u][i] = stream[t][i]
      BY <2>3, <3>1
    <3>3. i \notin 1..Len(stream[t]) => stream'[u][i] = e
      BY <1>1, <2>3, <3>1
    <3> QED
      BY <1>1, <2>3, <3>2, <3>3, NothingReported DEF TypeOK
  <2> QED
    BY <2>1, <2>2, <2>3, SendTyped
<1>2. \A u \in Turns : document'[u] \in HermesOutcomes => hermes'[u] \in {document'[u], "gone"}
  BY NothingReported DEF ReportsAreTrue, TypeOK
<1> QED
  BY <1>1, <1>2 DEF ReportsAreTrue

-----------------------------------------------------------------------------
(* One lemma per action *)
LEMMA Start_Step ==
  ASSUME IInv, NEW t \in Turns, Start(t)
  PROVE  IInv'
<1>1. TypeOK'
BY BoundsAssumption DEF Start, IInv, TypeOK, OpenStatuses, ClosedStatuses,
     MayStart
<1>2. (Unborn /\ StartOwnsRow /\ RunIdStatus /\ Stamped)'
BY DEF Start, IInv, Unborn, StartOwnsRow, RunIdStatus, Stamped, TypeOK,
     OpenStatuses, ClosedStatuses
<1>3. (CacheCoherent /\ TaskFollowsOpenRun /\ DownIsIdle)'
BY DEF Start, IInv, CacheCoherent, TaskFollowsOpenRun, DownIsIdle,
     StartOwnsRow, Unborn, RunIdStatus, TypeOK, OpenStatuses
<1>4. ReportsAreTrue'
BY DEF Start, IInv, ReportsAreTrue, TypeOK, HermesStates, HermesAccepted,
     HermesBusy, HermesOutcomes
<1> QED
  BY <1>1, <1>2, <1>3, <1>4 DEF IInv

(* StartFails preserves the invariant.                                     *)
LEMMA StartFails_Step ==
  ASSUME IInv, NEW t \in Turns, StartFails(t)
  PROVE  IInv'
<1>1. TypeOK'
BY BoundsAssumption DEF StartFails, IInv, TypeOK, OpenStatuses, ClosedStatuses
<1>2. (Unborn /\ StartOwnsRow /\ RunIdStatus /\ Stamped)'
BY DEF StartFails, IInv, Unborn, StartOwnsRow, RunIdStatus, Stamped, TypeOK,
     OpenStatuses, ClosedStatuses
<1>3. (CacheCoherent /\ TaskFollowsOpenRun /\ DownIsIdle)'
BY DEF StartFails, IInv, CacheCoherent, TaskFollowsOpenRun, DownIsIdle,
     StartOwnsRow, Unborn, RunIdStatus, TypeOK
<1>4. ReportsAreTrue'
BY DEF StartFails, IInv, ReportsAreTrue, TypeOK, HermesStates, HermesAccepted,
     HermesBusy, HermesOutcomes
<1> QED
  BY <1>1, <1>2, <1>3, <1>4 DEF IInv

(* Post preserves the invariant.                                           *)
LEMMA Post_Step ==
  ASSUME IInv, NEW t \in Turns, Post(t)
  PROVE  IInv'
<1>1. TypeOK'
BY BoundsAssumption DEF Post, IInv, TypeOK, HermesStates, HermesAccepted,
     HermesBusy, HermesOutcomes
<1>2. (Unborn /\ StartOwnsRow /\ RunIdStatus /\ Stamped)'
BY DEF Post, IInv, Unborn, StartOwnsRow, RunIdStatus, Stamped, TypeOK
<1>3. (CacheCoherent /\ TaskFollowsOpenRun /\ DownIsIdle)'
BY DEF Post, IInv, CacheCoherent, TaskFollowsOpenRun, DownIsIdle,
     StartOwnsRow, Unborn, RunIdStatus, TypeOK
<1>4. ReportsAreTrue'
BY SilentMove DEF Post, IInv, StartOwnsRow, HermesOutcomes
<1> QED
  BY <1>1, <1>2, <1>3, <1>4 DEF IInv

(* StartAccepted preserves the invariant.                                  *)
LEMMA StartAccepted_Step ==
  ASSUME IInv, NEW t \in Turns, StartAccepted(t)
  PROVE  IInv'
<1>1. TypeOK'
BY BoundsAssumption DEF StartAccepted, IInv, TypeOK, OpenStatuses,
     ClosedStatuses
<1>2. (Unborn /\ StartOwnsRow /\ RunIdStatus /\ Stamped)'
BY DEF StartAccepted, IInv, Unborn, StartOwnsRow, RunIdStatus, Stamped,
     TypeOK, OpenStatuses, ClosedStatuses, HermesStates, HermesAccepted,
     HermesBusy, HermesOutcomes
<1>3. (CacheCoherent /\ TaskFollowsOpenRun /\ DownIsIdle)'
BY DEF StartAccepted, IInv, CacheCoherent, TaskFollowsOpenRun, DownIsIdle,
     StartOwnsRow, Unborn, RunIdStatus, TypeOK, OpenStatuses, ClosedStatuses
<1>4. ReportsAreTrue'
BY DEF StartAccepted, IInv, ReportsAreTrue, TypeOK, HermesStates,
     HermesAccepted, HermesBusy, HermesOutcomes
<1> QED
  BY <1>1, <1>2, <1>3, <1>4 DEF IInv

(* StartRefused preserves the invariant.                                   *)
LEMMA StartRefused_Step ==
  ASSUME IInv, NEW t \in Turns, StartRefused(t)
  PROVE  IInv'
<1>1. TypeOK'
BY BoundsAssumption DEF StartRefused, IInv, TypeOK, OpenStatuses,
     ClosedStatuses
<1>2. (Unborn /\ StartOwnsRow /\ RunIdStatus /\ Stamped)'
BY DEF StartRefused, IInv, Unborn, StartOwnsRow, RunIdStatus, Stamped, TypeOK,
     OpenStatuses, ClosedStatuses
<1>3. (CacheCoherent /\ TaskFollowsOpenRun /\ DownIsIdle)'
BY DEF StartRefused, IInv, CacheCoherent, TaskFollowsOpenRun, DownIsIdle,
     StartOwnsRow, Unborn, RunIdStatus, TypeOK
<1>4. ReportsAreTrue'
BY DEF StartRefused, IInv, ReportsAreTrue, TypeOK, HermesStates,
     HermesAccepted, HermesBusy, HermesOutcomes
<1> QED
  BY <1>1, <1>2, <1>3, <1>4 DEF IInv

(* StartAmbiguous preserves the invariant.                                 *)
LEMMA StartAmbiguous_Step ==
  ASSUME IInv, NEW t \in Turns, StartAmbiguous(t)
  PROVE  IInv'
<1>1. TypeOK'
BY BoundsAssumption DEF StartAmbiguous, IInv, TypeOK, OpenStatuses,
     ClosedStatuses
<1>2. (Unborn /\ StartOwnsRow /\ RunIdStatus /\ Stamped)'
BY DEF StartAmbiguous, IInv, Unborn, StartOwnsRow, RunIdStatus, Stamped,
     TypeOK, OpenStatuses, ClosedStatuses
<1>3. (CacheCoherent /\ TaskFollowsOpenRun /\ DownIsIdle)'
BY DEF StartAmbiguous, IInv, CacheCoherent, TaskFollowsOpenRun, DownIsIdle,
     StartOwnsRow, Unborn, RunIdStatus, TypeOK
<1>4. ReportsAreTrue'
BY DEF StartAmbiguous, IInv, ReportsAreTrue, TypeOK, HermesStates,
     HermesAccepted, HermesBusy, HermesOutcomes
<1> QED
  BY <1>1, <1>2, <1>3, <1>4 DEF IInv

(* StreamLost preserves the invariant.                                     *)
LEMMA StreamLost_Step ==
  ASSUME IInv, NEW t \in Turns, StreamLost(t)
  PROVE  IInv'
<1>1. TypeOK'
  <2>1. polls' \in [Turns -> 0..MaxPolls]
    BY BoundsAssumption DEF StreamLost, IInv, TypeOK
  <2>2. /\ stream' \in [Turns -> Seq(DOMAIN EventStatus)]
        /\ \A u \in Turns : Len(stream'[u]) <= MaxStream
    BY BoundsAssumption DEF StreamLost, IInv, TypeOK
  <2> QED
    BY <2>1, <2>2 DEF StreamLost, IInv, TypeOK
<1>2. (Unborn /\ StartOwnsRow /\ RunIdStatus /\ Stamped)'
BY DEF StreamLost, IInv, Unborn, StartOwnsRow, RunIdStatus, Stamped, TypeOK
<1>3. (CacheCoherent /\ TaskFollowsOpenRun /\ DownIsIdle)'
BY DEF StreamLost, IInv, CacheCoherent, TaskFollowsOpenRun, DownIsIdle,
     StartOwnsRow, Unborn, RunIdStatus, TypeOK, OpenStatuses, ClosedStatuses
<1>4. ReportsAreTrue'
BY DEF StreamLost, IInv, ReportsAreTrue, TypeOK, HermesStates, HermesAccepted,
     HermesBusy, HermesOutcomes
<1> QED
  BY <1>1, <1>2, <1>3, <1>4 DEF IInv

(* PollRefused preserves the invariant.                                    *)
LEMMA PollRefused_Step ==
  ASSUME IInv, NEW t \in Turns, PollRefused(t)
  PROVE  IInv'
<1>1. TypeOK'
BY BoundsAssumption DEF PollRefused, IInv, TypeOK, OpenStatuses,
     ClosedStatuses, TakeDocument, Reconciling
<1>2. (Unborn /\ StartOwnsRow /\ RunIdStatus /\ Stamped)'
  <2>1. status[t] \in {"running", "waiting_for_approval"} /\ t \in runId
    BY DEF PollRefused, IInv, TaskFollowsOpenRun, CacheCoherent, TakeDocument, Reconciling
  <2>2. t \notin terminalAt \ acknowledged
    BY <2>1 DEF IInv, Stamped, ClosedStatuses
  <2> QED
    BY <2>1, <2>2 DEF PollRefused, IInv, Unborn, StartOwnsRow, RunIdStatus, Stamped,
                      TypeOK, ClosedStatuses
<1>3. (CacheCoherent /\ TaskFollowsOpenRun /\ DownIsIdle)'
BY DEF PollRefused, IInv, CacheCoherent, TaskFollowsOpenRun, DownIsIdle,
     StartOwnsRow, Unborn, RunIdStatus, TypeOK, OpenStatuses, ClosedStatuses,
     TakeDocument, Reconciling
<1>4. ReportsAreTrue'
BY DEF PollRefused, IInv, ReportsAreTrue, TypeOK, HermesStates,
     HermesAccepted, HermesBusy, HermesOutcomes, TakeDocument
<1> QED
  BY <1>1, <1>2, <1>3, <1>4 DEF IInv

(* PollUnreachable preserves the invariant.                                *)
LEMMA PollUnreachable_Step ==
  ASSUME IInv, NEW t \in Turns, PollUnreachable(t)
  PROVE  IInv'
<1>1. TypeOK'
  <2>1. polls' \in [Turns -> 0..MaxPolls]
    <3>1. polls' = polls \/ polls' = [polls EXCEPT ![t] = 0]
      BY DEF PollUnreachable
    <3>2. 0 \in 0..MaxPolls /\ polls \in [Turns -> 0..MaxPolls]
      BY BoundsAssumption DEF IInv, TypeOK
    <3> QED
      BY <3>1, <3>2
  <2> QED
    BY <2>1 DEF PollUnreachable, TakeDocument, IInv, TypeOK
<1>2. (Unborn /\ StartOwnsRow /\ RunIdStatus /\ Stamped)'
BY DEF PollUnreachable, IInv, Unborn, StartOwnsRow, RunIdStatus, Stamped,
     TypeOK
<1>3. (CacheCoherent /\ TaskFollowsOpenRun /\ DownIsIdle)'
BY DEF PollUnreachable, IInv, CacheCoherent, TaskFollowsOpenRun, DownIsIdle,
     StartOwnsRow, Unborn, RunIdStatus, TypeOK, TakeDocument
<1>4. ReportsAreTrue'
BY DEF PollUnreachable, IInv, ReportsAreTrue, TypeOK, HermesStates,
     HermesAccepted, HermesBusy, HermesOutcomes, TakeDocument
<1> QED
  BY <1>1, <1>2, <1>3, <1>4 DEF IInv

(* PollWaiting preserves the invariant.                                    *)
LEMMA PollWaiting_Step ==
  ASSUME IInv, NEW t \in Turns, PollWaiting(t)
  PROVE  IInv'
<1>1. TypeOK'
BY BoundsAssumption DEF PollWaiting, IInv, TypeOK, TakeDocument
<1>2. (Unborn /\ StartOwnsRow /\ RunIdStatus /\ Stamped)'
BY DEF PollWaiting, IInv, Unborn, StartOwnsRow, RunIdStatus, Stamped, TypeOK
<1>3. (CacheCoherent /\ TaskFollowsOpenRun /\ DownIsIdle)'
  <2>1. CacheCoherent'
    BY DEF PollWaiting, IInv, CacheCoherent
  <2>2. TaskFollowsOpenRun'
    BY DEF PollWaiting, IInv, TypeOK, TaskFollowsOpenRun
  <2>3. DownIsIdle'
    BY DEF PollWaiting, IInv, DownIsIdle, TakeDocument, Reconciling
  <2> QED
    BY <2>1, <2>2, <2>3
<1>4. ReportsAreTrue'
BY DEF PollWaiting, IInv, ReportsAreTrue, TypeOK, HermesStates,
     HermesAccepted, HermesBusy, HermesOutcomes, TakeDocument
<1> QED
  BY <1>1, <1>2, <1>3, <1>4 DEF IInv

(* PollAgain preserves the invariant.                                      *)
LEMMA PollAgain_Step ==
  ASSUME IInv, NEW t \in Turns, PollAgain(t)
  PROVE  IInv'
<1>1. TypeOK'
BY BoundsAssumption DEF PollAgain, IInv, TypeOK, TakeDocument
<1>2. (Unborn /\ StartOwnsRow /\ RunIdStatus /\ Stamped)'
BY DEF PollAgain, IInv, Unborn, StartOwnsRow, RunIdStatus, Stamped, TypeOK
<1>3. (CacheCoherent /\ TaskFollowsOpenRun /\ DownIsIdle)'
BY DEF PollAgain, IInv, CacheCoherent, TaskFollowsOpenRun, DownIsIdle,
     StartOwnsRow, Unborn, RunIdStatus, TypeOK
<1>4. ReportsAreTrue'
BY DEF PollAgain, IInv, ReportsAreTrue, TypeOK, HermesStates, HermesAccepted,
     HermesBusy, HermesOutcomes, TakeDocument
<1> QED
  BY <1>1, <1>2, <1>3, <1>4 DEF IInv

(* PollsExhausted preserves the invariant.                                 *)
LEMMA PollsExhausted_Step ==
  ASSUME IInv, NEW t \in Turns, PollsExhausted(t)
  PROVE  IInv'
<1>1. TypeOK'
BY BoundsAssumption DEF PollsExhausted, IInv, TypeOK
<1>2. (Unborn /\ StartOwnsRow /\ RunIdStatus /\ Stamped)'
BY DEF PollsExhausted, IInv, Unborn, StartOwnsRow, RunIdStatus, Stamped,
     TypeOK
<1>3. (CacheCoherent /\ TaskFollowsOpenRun /\ DownIsIdle)'
  <2>1. CacheCoherent'
    BY DEF PollsExhausted, IInv, CacheCoherent
  <2>2. TaskFollowsOpenRun'
    BY DEF PollsExhausted, IInv, TypeOK, TaskFollowsOpenRun
  <2>3. DownIsIdle'
    BY DEF PollsExhausted, IInv, DownIsIdle, TakeDocument, Reconciling
  <2> QED
    BY <2>1, <2>2, <2>3
<1>4. ReportsAreTrue'
BY DEF PollsExhausted, IInv, ReportsAreTrue, TypeOK, HermesStates,
     HermesAccepted, HermesBusy, HermesOutcomes
<1> QED
  BY <1>1, <1>2, <1>3, <1>4 DEF IInv

(* Approve preserves the invariant.                                        *)
LEMMA Approve_Step ==
  ASSUME IInv, NEW t \in Turns, Approve(t)
  PROVE  IInv'
<1>1. TypeOK'
BY BoundsAssumption DEF Approve, IInv, TypeOK
<1>2. (Unborn /\ StartOwnsRow /\ RunIdStatus /\ Stamped)'
BY DEF Approve, IInv, Unborn, StartOwnsRow, RunIdStatus, Stamped, TypeOK
<1>3. (CacheCoherent /\ TaskFollowsOpenRun /\ DownIsIdle)'
BY DEF Approve, IInv, CacheCoherent, TaskFollowsOpenRun, DownIsIdle,
     StartOwnsRow, Unborn, RunIdStatus, TypeOK
<1>4. ReportsAreTrue'
BY DEF Approve, IInv, ReportsAreTrue, TypeOK, HermesStates, HermesAccepted,
     HermesBusy, HermesOutcomes
<1> QED
  BY <1>1, <1>2, <1>3, <1>4 DEF IInv

(* ApproveFails preserves the invariant.                                   *)
LEMMA ApproveFails_Step ==
  ASSUME IInv, NEW t \in Turns, ApproveFails(t)
  PROVE  IInv'
<1>1. TypeOK'
BY BoundsAssumption DEF ApproveFails, IInv, TypeOK
<1>2. (Unborn /\ StartOwnsRow /\ RunIdStatus /\ Stamped)'
BY DEF ApproveFails, IInv, Unborn, StartOwnsRow, RunIdStatus, Stamped, TypeOK
<1>3. (CacheCoherent /\ TaskFollowsOpenRun /\ DownIsIdle)'
BY DEF ApproveFails, IInv, CacheCoherent, TaskFollowsOpenRun, DownIsIdle,
     StartOwnsRow, Unborn, RunIdStatus, TypeOK
<1>4. ReportsAreTrue'
BY DEF ApproveFails, IInv, ReportsAreTrue, TypeOK, HermesStates,
     HermesAccepted, HermesBusy, HermesOutcomes
<1> QED
  BY <1>1, <1>2, <1>3, <1>4 DEF IInv

(* Stop preserves the invariant.                                           *)
LEMMA Stop_Step ==
  ASSUME IInv, NEW t \in Turns, Stop(t)
  PROVE  IInv'
<1>1. TypeOK'
BY BoundsAssumption DEF Stop, IInv, TypeOK, HermesStates, HermesAccepted,
     HermesBusy, HermesOutcomes
<1>2. (Unborn /\ StartOwnsRow /\ RunIdStatus /\ Stamped)'
BY DEF Stop, IInv, Unborn, StartOwnsRow, RunIdStatus, Stamped, TypeOK,
     HermesStates, HermesAccepted, HermesBusy, HermesOutcomes
<1>3. (CacheCoherent /\ TaskFollowsOpenRun /\ DownIsIdle)'
BY DEF Stop, IInv, CacheCoherent, TaskFollowsOpenRun, DownIsIdle,
     StartOwnsRow, Unborn, RunIdStatus, TypeOK
<1>4. ReportsAreTrue'
BY SilentMove DEF Stop, IInv, HermesOutcomes
<1> QED
  BY <1>1, <1>2, <1>3, <1>4 DEF IInv

(* acknowledge_unknown preserves the invariant.                            *)
LEMMA acknowledge_unknown_Step ==
  ASSUME IInv, NEW t \in Turns, acknowledge_unknown(t)
  PROVE  IInv'
<1>1. TypeOK'
BY BoundsAssumption DEF acknowledge_unknown, IInv, TypeOK, OpenStatuses,
     ClosedStatuses
<1>2. (Unborn /\ StartOwnsRow /\ RunIdStatus /\ Stamped)'
BY DEF acknowledge_unknown, IInv, Unborn, StartOwnsRow, RunIdStatus, Stamped,
     TypeOK, OpenStatuses, ClosedStatuses
<1>3. (CacheCoherent /\ TaskFollowsOpenRun /\ DownIsIdle)'
BY DEF acknowledge_unknown, IInv, CacheCoherent, TaskFollowsOpenRun,
     DownIsIdle, StartOwnsRow, Unborn, RunIdStatus, TypeOK
<1>4. ReportsAreTrue'
BY DEF acknowledge_unknown, IInv, ReportsAreTrue, TypeOK, HermesStates,
     HermesAccepted, HermesBusy, HermesOutcomes
<1> QED
  BY <1>1, <1>2, <1>3, <1>4 DEF IInv

(* acknowledge_unrecoverable preserves the invariant.                      *)
LEMMA acknowledge_unrecoverable_Step ==
  ASSUME IInv, NEW t \in Turns, acknowledge_unrecoverable(t)
  PROVE  IInv'
<1>1. TypeOK'
BY BoundsAssumption DEF acknowledge_unrecoverable, IInv, TypeOK, OpenStatuses,
     ClosedStatuses
<1>2. (Unborn /\ StartOwnsRow /\ RunIdStatus /\ Stamped)'
  <2>1. CASE status[t] = "unrecoverable"
    BY <2>1 DEF acknowledge_unrecoverable, IInv, Unborn, StartOwnsRow, RunIdStatus, Stamped,
               TypeOK, OpenStatuses, ClosedStatuses
  <2>2. CASE status[t] # "unrecoverable"
    BY <2>2 DEF acknowledge_unrecoverable, IInv, Unborn, StartOwnsRow, RunIdStatus, Stamped,
               TypeOK, OpenStatuses, ClosedStatuses
  <2> QED
    BY <2>1, <2>2
<1>3. (CacheCoherent /\ TaskFollowsOpenRun /\ DownIsIdle)'
  <2>1. /\ \A u \in Turns \ {t} : status'[u] = status[u]
        /\ status'[t] \in {status[t], "failed"}
        /\ status'[t] # status[t] => status[t] = "unrecoverable" /\ t \in acknowledged'
        /\ acknowledged \subseteq acknowledged'
    BY DEF acknowledge_unrecoverable, IInv, TypeOK
  <2>2. CacheCoherent'
    BY <2>1 DEF acknowledge_unrecoverable, IInv, CacheCoherent
  <2>3. TaskFollowsOpenRun'
    BY <2>1 DEF acknowledge_unrecoverable, IInv, TaskFollowsOpenRun
  <2>4. DownIsIdle'
    BY DEF acknowledge_unrecoverable, IInv, DownIsIdle
  <2> QED
    BY <2>2, <2>3, <2>4
<1>4. ReportsAreTrue'
BY DEF acknowledge_unrecoverable, IInv, ReportsAreTrue, TypeOK, HermesStates,
     HermesAccepted, HermesBusy, HermesOutcomes
<1> QED
  BY <1>1, <1>2, <1>3, <1>4 DEF IInv

(* HermesReceives preserves the invariant.                                 *)
LEMMA HermesReceives_Step ==
  ASSUME IInv, NEW t \in Turns, HermesReceives(t)
  PROVE  IInv'
<1>1. TypeOK'
BY BoundsAssumption DEF HermesReceives, IInv, TypeOK, HermesMoves,
     HermesStates, HermesAccepted, HermesBusy, HermesOutcomes
<1>2. (Unborn /\ StartOwnsRow /\ RunIdStatus /\ Stamped)'
BY DEF HermesReceives, IInv, Unborn, StartOwnsRow, RunIdStatus, Stamped,
     TypeOK, HermesMoves, HermesStates, HermesAccepted, HermesBusy,
     HermesOutcomes
<1>3. (CacheCoherent /\ TaskFollowsOpenRun /\ DownIsIdle)'
BY DEF HermesReceives, IInv, CacheCoherent, TaskFollowsOpenRun, DownIsIdle,
     StartOwnsRow, Unborn, RunIdStatus, TypeOK, HermesMoves
<1>4. ReportsAreTrue'
BY SilentMove DEF HermesReceives, HermesMoves, IInv, HermesOutcomes
<1> QED
  BY <1>1, <1>2, <1>3, <1>4 DEF IInv

(* HermesAnswersPoll preserves the invariant.                              *)
LEMMA HermesAnswersPoll_Step ==
  ASSUME IInv, NEW t \in Turns, HermesAnswersPoll(t)
  PROVE  IInv'
<1>1. TypeOK'
  <2>1. polls[t] + 1 \in 0..MaxPolls
    BY BoundsAssumption DEF HermesAnswersPoll, PollsLeft, IInv, TypeOK
  <2>2. polls' \in [Turns -> 0..MaxPolls]
    BY <2>1 DEF HermesAnswersPoll, IInv, TypeOK
  <2>3. hermes[t] \in HermesAccepted
    BY DEF HermesAnswersPoll, Reconciling, IInv, TaskFollowsOpenRun, CacheCoherent, RunIdStatus
  <2> QED
    BY <2>2, <2>3 DEF HermesAnswersPoll, IInv, TypeOK
<1>2. (Unborn /\ StartOwnsRow /\ RunIdStatus /\ Stamped)'
BY DEF HermesAnswersPoll, IInv, Unborn, StartOwnsRow, RunIdStatus, Stamped,
     TypeOK, Reconciling
<1>3. (CacheCoherent /\ TaskFollowsOpenRun /\ DownIsIdle)'
BY DEF HermesAnswersPoll, IInv, CacheCoherent, TaskFollowsOpenRun, DownIsIdle,
     StartOwnsRow, Unborn, RunIdStatus, TypeOK, Reconciling
<1>4. ReportsAreTrue'
BY DEF HermesAnswersPoll, IInv, ReportsAreTrue, TypeOK, HermesStates,
     HermesAccepted, HermesBusy, HermesOutcomes, Reconciling
<1> QED
  BY <1>1, <1>2, <1>3, <1>4 DEF IInv

(* HermesForgets preserves the invariant.                                  *)
LEMMA HermesForgets_Step ==
  ASSUME IInv, NEW t \in Turns, HermesForgets(t)
  PROVE  IInv'
<1>1. TypeOK'
BY BoundsAssumption DEF HermesForgets, IInv, TypeOK, HermesMoves,
     HermesStates, HermesAccepted, HermesBusy, HermesOutcomes
<1>2. (Unborn /\ StartOwnsRow /\ RunIdStatus /\ Stamped)'
BY DEF HermesForgets, IInv, Unborn, StartOwnsRow, RunIdStatus, Stamped,
     TypeOK, HermesMoves, HermesStates, HermesAccepted, HermesBusy,
     HermesOutcomes
<1>3. (CacheCoherent /\ TaskFollowsOpenRun /\ DownIsIdle)'
BY DEF HermesForgets, IInv, CacheCoherent, TaskFollowsOpenRun, DownIsIdle,
     StartOwnsRow, Unborn, RunIdStatus, TypeOK, HermesMoves
<1>4. ReportsAreTrue'
BY EventTable DEF HermesForgets, IInv, ReportsAreTrue, TypeOK, HermesStates,
     HermesAccepted, HermesBusy, HermesOutcomes, HermesMoves
<1> QED
  BY <1>1, <1>2, <1>3, <1>4 DEF IInv

(* HermesAsks preserves the invariant.                                     *)
LEMMA HermesAsks_Step ==
  ASSUME IInv, NEW t \in Turns, HermesAsks(t)
  PROVE  IInv'
<1>1. TypeOK'
  <2>1. "agent.approval.request" \in DOMAIN EventStatus
    BY EventTable DEF TerminalEvents
  <2>2. /\ stream' \in [Turns -> Seq(DOMAIN EventStatus)]
        /\ \A u \in Turns : Len(stream'[u]) <= MaxStream
    BY <2>1, SendTyped DEF HermesAsks, IInv
  <2> QED
    BY <2>2 DEF HermesAsks, HermesMoves, IInv, TypeOK, HermesStates, HermesBusy,
                HermesOutcomes
<1>2. (Unborn /\ StartOwnsRow /\ RunIdStatus /\ Stamped)'
BY DEF HermesAsks, IInv, Unborn, StartOwnsRow, RunIdStatus, Stamped, TypeOK,
     HermesMoves, HermesStates, HermesAccepted, HermesBusy, HermesOutcomes
<1>3. (CacheCoherent /\ TaskFollowsOpenRun /\ DownIsIdle)'
BY DEF HermesAsks, IInv, CacheCoherent, TaskFollowsOpenRun, DownIsIdle,
     StartOwnsRow, Unborn, RunIdStatus, TypeOK, HermesMoves
<1>4. ReportsAreTrue'
  <2>1. "agent.approval.request" \in DOMAIN EventStatus
    BY EventTable DEF TerminalEvents
  <2> QED
    BY <2>1, ReportingMove, EventTable
       DEF HermesAsks, HermesMoves, IInv, HermesOutcomes, TerminalEvents, EventStatus
<1> QED
  BY <1>1, <1>2, <1>3, <1>4 DEF IInv

(* HermesApproves preserves the invariant.                                 *)
LEMMA HermesApproves_Step ==
  ASSUME IInv, NEW t \in Turns, HermesApproves(t)
  PROVE  IInv'
<1>1. TypeOK'
  <2>1. "agent.approval.responded" \in DOMAIN EventStatus
    BY EventTable DEF TerminalEvents
  <2>2. /\ stream' \in [Turns -> Seq(DOMAIN EventStatus)]
        /\ \A u \in Turns : Len(stream'[u]) <= MaxStream
    BY <2>1, SendTyped DEF HermesApproves, IInv
  <2> QED
    BY <2>2 DEF HermesApproves, HermesMoves, IInv, TypeOK, HermesStates, HermesBusy,
                HermesOutcomes
<1>2. (Unborn /\ StartOwnsRow /\ RunIdStatus /\ Stamped)'
BY DEF HermesApproves, IInv, Unborn, StartOwnsRow, RunIdStatus, Stamped,
     TypeOK, HermesMoves, HermesStates, HermesAccepted, HermesBusy,
     HermesOutcomes
<1>3. (CacheCoherent /\ TaskFollowsOpenRun /\ DownIsIdle)'
BY DEF HermesApproves, IInv, CacheCoherent, TaskFollowsOpenRun, DownIsIdle,
     StartOwnsRow, Unborn, RunIdStatus, TypeOK, HermesMoves
<1>4. ReportsAreTrue'
  <2>1. "agent.approval.responded" \in DOMAIN EventStatus
    BY EventTable DEF TerminalEvents
  <2> QED
    BY <2>1, ReportingMove, EventTable
       DEF HermesApproves, HermesMoves, IInv, HermesOutcomes, TerminalEvents, EventStatus
<1> QED
  BY <1>1, <1>2, <1>3, <1>4 DEF IInv

(* HermesFinishes preserves the invariant.                                 *)
LEMMA HermesFinishes_Step ==
  ASSUME IInv, NEW t \in Turns, HermesFinishes(t)
  PROVE  IInv'
<1>1. TypeOK'
  <2> PICK o \in {"completed", "failed"} :
         HermesMoves(t, {"running"}, o) /\ Send(t, OutcomeEvent[o])
    BY DEF HermesFinishes
  <2>1. OutcomeEvent[o] \in DOMAIN EventStatus
    BY EventTable, OutcomeTable DEF HermesOutcomes
  <2>2. /\ stream' \in [Turns -> Seq(DOMAIN EventStatus)]
        /\ \A u \in Turns : Len(stream'[u]) <= MaxStream
    BY <2>1, SendTyped DEF IInv
  <2> QED
    BY <2>2 DEF HermesFinishes, HermesMoves, IInv, TypeOK, HermesStates, HermesBusy,
                HermesOutcomes
<1>2. (Unborn /\ StartOwnsRow /\ RunIdStatus /\ Stamped)'
BY DEF HermesFinishes, IInv, Unborn, StartOwnsRow, RunIdStatus, Stamped,
     TypeOK, HermesMoves, HermesStates, HermesAccepted, HermesBusy,
     HermesOutcomes
<1>3. (CacheCoherent /\ TaskFollowsOpenRun /\ DownIsIdle)'
BY DEF HermesFinishes, IInv, CacheCoherent, TaskFollowsOpenRun, DownIsIdle,
     StartOwnsRow, Unborn, RunIdStatus, TypeOK, HermesMoves
<1>4. ReportsAreTrue'
  <2> PICK o \in {"completed", "failed"} :
         HermesMoves(t, {"running"}, o) /\ Send(t, OutcomeEvent[o])
    BY DEF HermesFinishes
  <2>1. OutcomeEvent[o] \in DOMAIN EventStatus /\ EventStatus[OutcomeEvent[o]] = o
    BY EventTable, OutcomeTable DEF HermesOutcomes
  <2> QED
    BY <2>1, ReportingMove DEF HermesMoves, IInv, HermesOutcomes
<1> QED
  BY <1>1, <1>2, <1>3, <1>4 DEF IInv

(* HermesStops preserves the invariant.                                    *)
LEMMA HermesStops_Step ==
  ASSUME IInv, NEW t \in Turns, HermesStops(t)
  PROVE  IInv'
<1>1. TypeOK'
  <2>1. "agent.stopped" \in DOMAIN EventStatus
    BY EventTable DEF TerminalEvents
  <2>2. /\ stream' \in [Turns -> Seq(DOMAIN EventStatus)]
        /\ \A u \in Turns : Len(stream'[u]) <= MaxStream
    BY <2>1, SendTyped DEF HermesStops, IInv
  <2> QED
    BY <2>2 DEF HermesStops, HermesMoves, IInv, TypeOK, HermesStates, HermesBusy,
                HermesOutcomes
<1>2. (Unborn /\ StartOwnsRow /\ RunIdStatus /\ Stamped)'
BY DEF HermesStops, IInv, Unborn, StartOwnsRow, RunIdStatus, Stamped, TypeOK,
     HermesMoves, HermesStates, HermesAccepted, HermesBusy, HermesOutcomes
<1>3. (CacheCoherent /\ TaskFollowsOpenRun /\ DownIsIdle)'
BY DEF HermesStops, IInv, CacheCoherent, TaskFollowsOpenRun, DownIsIdle,
     StartOwnsRow, Unborn, RunIdStatus, TypeOK, HermesMoves
<1>4. ReportsAreTrue'
  <2>1. "agent.stopped" \in DOMAIN EventStatus
    BY EventTable DEF TerminalEvents
  <2> QED
    BY <2>1, ReportingMove, EventTable
       DEF HermesStops, HermesMoves, IInv, HermesOutcomes, TerminalEvents, EventStatus
<1> QED
  BY <1>1, <1>2, <1>3, <1>4 DEF IInv

-----------------------------------------------------------------------------
(* The actions that emit an event with a status *)

(* Whatever coroutine emits it, an event for a run with an ActiveRun keeps *)
(* the row and the record coherent.                                        *)
LEMMA EmitKeeps ==
  ASSUME IInv, NEW t \in Turns, NEW e \in DOMAIN EventStatus, Emit(t, e),
         cached[t] # "none",
         UNCHANGED <<runId, acknowledged, starting, hermes, nodeVars>>,
         \A u \in Turns : approval'[u] # "no" => approval[u] # "no",
         \A u \in Turns : task'[u] = task[u] \/ (u = t /\ task'[u] = "done"),
         e \in TerminalEvents => task'[t] = "done"
  PROVE  /\ (Unborn /\ StartOwnsRow /\ RunIdStatus /\ Stamped)'
         /\ (CacheCoherent /\ TaskFollowsOpenRun /\ DownIsIdle)'
<1>1. t \in runId /\ status[t] \in RowStatuses /\ up
  BY DEF IInv, CacheCoherent, DownIsIdle, RunIdStatus, TypeOK, RowStatuses
<1>2. starting[t] = "no"
  BY <1>1 DEF IInv, StartOwnsRow
<1> DEFINE s == EmittedStatus(t, e)
<1>3. /\ status'[t] = s /\ cached'[t] = s
      /\ \A u \in Turns \ {t} : status'[u] = status[u] /\ cached'[u] = cached[u]
  BY <1>1, EmitFacts DEF IInv, TypeOK
<1>4. /\ e \in TerminalEvents =>
           s \in HermesOutcomes /\ terminalAt' = terminalAt \cup {t} /\ active' = active \ {t}
      /\ e \notin TerminalEvents =>
           /\ cached[t] \in TERMINAL_STATUSES => s = status[t]
           /\ cached[t] \notin TERMINAL_STATUSES => s \in {"running", "waiting_for_approval"}
           /\ UNCHANGED <<terminalAt, active>>
  BY <1>1, EmitFacts DEF IInv
<1> HIDE DEF s
<1>5. s \notin {"absent", "submitting", "acceptance_unknown", "rejected", "deleted", "none"}
  BY <1>1, <1>4 DEF HermesOutcomes, IInv, RunIdStatus, RowStatuses, OpenStatuses, ClosedStatuses
<1>6. (Unborn /\ StartOwnsRow /\ RunIdStatus)'
  BY <1>1, <1>2, <1>3, <1>4, <1>5 DEF IInv, Unborn, StartOwnsRow, RunIdStatus
<1>7. Stamped'
  <2>1. CASE e \in TerminalEvents
    BY <1>3, <1>4, <2>1 DEF IInv, Stamped, HermesOutcomes, ClosedStatuses
  <2>2. CASE e \notin TerminalEvents /\ cached[t] \in TERMINAL_STATUSES
    BY <1>3, <1>4, <2>2 DEF IInv, Stamped
  <2>3. CASE e \notin TerminalEvents /\ cached[t] \notin TERMINAL_STATUSES
    BY <1>1, <1>3, <1>4, <2>3
       DEF IInv, Stamped, CacheCoherent, TERMINAL_STATUSES, ClosedStatuses
  <2> QED
    BY <2>1, <2>2, <2>3
<1>8. CacheCoherent'
  BY <1>1, <1>3, <1>4, <1>5 DEF IInv, CacheCoherent
<1>9. TaskFollowsOpenRun'
  BY <1>3, <1>4, <1>5 DEF IInv, TaskFollowsOpenRun
<1>10. DownIsIdle'
  BY <1>1 DEF IInv, DownIsIdle
<1> QED
  BY <1>6, <1>7, <1>8, <1>9, <1>10

(* The rest of a stream after its first event.                             *)
LEMMA TailFacts ==
  ASSUME NEW S, NEW q \in Seq(S), q # <<>>
  PROVE  /\ Head(q) \in S
         /\ Tail(q) \in Seq(S)
         /\ Len(Tail(q)) \in Nat /\ Len(Tail(q)) < Len(q)
         /\ \A i \in 1..Len(Tail(q)) : i + 1 \in 1..Len(q) /\ Tail(q)[i] = q[i + 1]
<1>1. Len(q) \in Nat /\ Len(Tail(q)) = Len(q) - 1 /\ Len(Tail(q)) \in Nat
  BY HeadTailProperties
<1> QED
  BY <1>1, HeadTailProperties

(* ConsumeEvent preserves the invariant.                                   *)
LEMMA ConsumeEvent_Step ==
  ASSUME IInv, NEW t \in Turns, ConsumeEvent(t)
  PROVE  IInv'
<1>1. stream[t] \in Seq(DOMAIN EventStatus) /\ stream[t] # <<>>
  BY DEF ConsumeEvent, IInv, TypeOK
<1> PICK e \in DOMAIN EventStatus : e = Head(stream[t])
  BY <1>1, TailFacts
<1>2. Emit(t, e)
  BY DEF ConsumeEvent
<1>3. cached[t] # "none" /\ status[t] \in RowStatuses
  BY DEF ConsumeEvent, IInv, TaskFollowsOpenRun, RowStatuses, OpenStatuses
<1>4. /\ \A u \in Turns : task'[u] = task[u] \/ (u = t /\ task'[u] = "done")
      /\ e \in TerminalEvents => task'[t] = "done"
      /\ task' \in [Turns -> {"none", "consume", "reconcile_in_try", "reconcile", "done"}]
  <2>1. task' = IF e \in TerminalEvents THEN [task EXCEPT ![t] = "done"] ELSE task
    BY DEF ConsumeEvent
  <2>2. task \in [Turns -> {"none", "consume", "reconcile_in_try", "reconcile", "done"}]
    BY DEF IInv, TypeOK
  <2> QED
    BY <2>1, <2>2
<1>5. /\ stream' \in [Turns -> Seq(DOMAIN EventStatus)]
      /\ \A u \in Turns : Len(stream'[u]) <= MaxStream
      /\ \A u \in Turns \ {t} : stream'[u] = stream[u]
      /\ \A i \in 1..Len(stream'[t]) :
           i + 1 \in 1..Len(stream[t]) /\ stream'[t][i] = stream[t][i + 1]
  <2>1. /\ Tail(stream[t]) \in Seq(DOMAIN EventStatus)
        /\ Len(Tail(stream[t])) \in Nat /\ Len(Tail(stream[t])) < Len(stream[t])
        /\ \A i \in 1..Len(Tail(stream[t])) :
             i + 1 \in 1..Len(stream[t]) /\ Tail(stream[t])[i] = stream[t][i + 1]
    BY <1>1, TailFacts
  <2>2. /\ stream \in [Turns -> Seq(DOMAIN EventStatus)]
        /\ \A u \in Turns : Len(stream[u]) <= MaxStream /\ Len(stream[u]) \in Nat
    BY DEF IInv, TypeOK
  <2>3. stream' = [stream EXCEPT ![t] = Tail(stream[t])]
    BY DEF ConsumeEvent
  <2>4. stream'[t] = Tail(stream[t]) /\ \A u \in Turns \ {t} : stream'[u] = stream[u]
    BY <2>2, <2>3
  <2>5. stream' \in [Turns -> Seq(DOMAIN EventStatus)]
    BY <2>1, <2>2, <2>3
  <2>6. ASSUME NEW u \in Turns PROVE Len(stream'[u]) <= MaxStream
    BY <2>1, <2>2, <2>4, BoundsAssumption
  <2> QED
    BY <2>1, <2>4, <2>5, <2>6
<1>6. TypeOK'
  BY <1>2, <1>3, <1>4, <1>5, EmitTyped DEF ConsumeEvent, IInv, TypeOK
<1>7. /\ (Unborn /\ StartOwnsRow /\ RunIdStatus /\ Stamped)'
      /\ (CacheCoherent /\ TaskFollowsOpenRun /\ DownIsIdle)'
  <2>1. UNCHANGED <<runId, acknowledged, starting, hermes, nodeVars, approval>>
    BY DEF ConsumeEvent
  <2> QED
    BY <1>2, <1>3, <1>4, <2>1, EmitKeeps
<1>8. ReportsAreTrue'
  BY <1>5 DEF ConsumeEvent, IInv, ReportsAreTrue
<1> QED
  BY <1>6, <1>7, <1>8 DEF IInv

(* PollSettled preserves the invariant.                                    *)
LEMMA PollSettled_Step ==
  ASSUME IInv, NEW t \in Turns, PollSettled(t)
  PROVE  IInv'
<1> PICK e \in DOMAIN EventStatus : e \in TerminalEvents /\ Emit(t, e)
  BY EventTable, OutcomeTable DEF PollSettled, TakeDocument, Terminal
<1>1. cached[t] # "none" /\ status[t] \in RowStatuses
  BY DEF PollSettled, TakeDocument, Reconciling, IInv, TaskFollowsOpenRun, RowStatuses,
         OpenStatuses
<1>2. /\ \A u \in Turns : task'[u] = task[u] \/ (u = t /\ task'[u] = "done")
      /\ task'[t] = "done"
      /\ task' \in [Turns -> {"none", "consume", "reconcile_in_try", "reconcile", "done"}]
  <2>1. task' = [task EXCEPT ![t] = "done"]
    BY DEF PollSettled
  <2>2. task \in [Turns -> {"none", "consume", "reconcile_in_try", "reconcile", "done"}]
    BY DEF IInv, TypeOK
  <2> QED
    BY <2>1, <2>2
<1>3. TypeOK'
  BY <1>1, <1>2, EmitTyped DEF PollSettled, TakeDocument, IInv, TypeOK
<1>4. /\ (Unborn /\ StartOwnsRow /\ RunIdStatus /\ Stamped)'
      /\ (CacheCoherent /\ TaskFollowsOpenRun /\ DownIsIdle)'
  <2>1. UNCHANGED <<runId, acknowledged, starting, hermes, nodeVars, approval>>
    BY DEF PollSettled
  <2> QED
    BY <1>1, <1>2, <2>1, EmitKeeps
<1>5. ReportsAreTrue'
  BY DEF PollSettled, TakeDocument, IInv, ReportsAreTrue, TypeOK, HermesOutcomes
<1> QED
  BY <1>3, <1>4, <1>5 DEF IInv

(* ApproveReturns preserves the invariant.                                 *)
LEMMA ApproveReturns_Step ==
  ASSUME IInv, NEW t \in Turns, ApproveReturns(t)
  PROVE  IInv'
<1> PICK e \in DOMAIN EventStatus : e = "agent.approval.resolved"
  BY EventTable DEF TerminalEvents
<1>1. e \notin TerminalEvents
  BY DEF TerminalEvents
<1>2. cached[t] # "none" /\ status[t] \in RowStatuses
  BY DEF ApproveReturns, IInv, CacheCoherent, RunIdStatus, TypeOK, RowStatuses
<1>3. ReportsAreTrue'
  BY DEF ApproveReturns, IInv, ReportsAreTrue
<1>4. CASE cached[t] \in TERMINAL_STATUSES
  <2>1. TypeOK'
    BY <1>4 DEF ApproveReturns, IInv, TypeOK
  <2>2. (Unborn /\ StartOwnsRow /\ RunIdStatus /\ Stamped)'
    BY <1>4 DEF ApproveReturns, IInv, Unborn, StartOwnsRow, RunIdStatus, Stamped
  <2>3. (CacheCoherent /\ TaskFollowsOpenRun /\ DownIsIdle)'
    BY <1>4 DEF ApproveReturns, IInv, TypeOK, CacheCoherent, TaskFollowsOpenRun, DownIsIdle
  <2> QED
    BY <1>3, <2>1, <2>2, <2>3 DEF IInv
<1>5. CASE cached[t] \notin TERMINAL_STATUSES
  <2>1. Emit(t, e)
    BY <1>5 DEF ApproveReturns
  <2>2. TypeOK'
    BY <1>2, <2>1, EmitTyped DEF ApproveReturns, IInv, TypeOK
  <2>3. /\ (Unborn /\ StartOwnsRow /\ RunIdStatus /\ Stamped)'
        /\ (CacheCoherent /\ TaskFollowsOpenRun /\ DownIsIdle)'
    <3>1. \A u \in Turns : approval'[u] # "no" => approval[u] # "no"
      BY DEF ApproveReturns, IInv, TypeOK
    <3>2. UNCHANGED <<runId, acknowledged, starting, hermes, nodeVars, task>>
      BY DEF ApproveReturns
    <3> QED
      BY <1>1, <1>2, <2>1, <3>1, <3>2, EmitKeeps
  <2> QED
    BY <1>3, <2>2, <2>3 DEF IInv
<1> QED
  BY <1>4, <1>5

-----------------------------------------------------------------------------
(* The process stops and is started again *)

(* Crash preserves the invariant.                                          *)
LEMMA Crash_Step ==
  ASSUME IInv, Crash
  PROVE  IInv'
<1>1. TypeOK'
  <2>1. restarts' \in 0..MaxRestarts
    BY BoundsAssumption DEF Crash, IInv, TypeOK
  <2>2. /\ stream' \in [Turns -> Seq(DOMAIN EventStatus)]
        /\ \A u \in Turns : Len(stream'[u]) <= MaxStream
    BY BoundsAssumption DEF Crash
  <2> QED
    BY <2>1, <2>2 DEF Crash, IInv, TypeOK
<1>2. (Unborn /\ StartOwnsRow /\ RunIdStatus /\ Stamped)'
  BY DEF Crash, IInv, Unborn, StartOwnsRow, RunIdStatus, Stamped
<1>3. (CacheCoherent /\ TaskFollowsOpenRun /\ DownIsIdle)'
  BY DEF Crash, CacheCoherent, TaskFollowsOpenRun, DownIsIdle
<1>4. ReportsAreTrue'
  BY DEF Crash, ReportsAreTrue, HermesOutcomes
<1> QED
  BY <1>1, <1>2, <1>3, <1>4 DEF IInv

(* Recover preserves the invariant.                                        *)
LEMMA Recover_Step ==
  ASSUME IInv, Recover
  PROVE  IInv'
<1> PICK old \in SUBSET terminalAt :
      /\ status' = [t \in Turns |-> IF t \in old THEN "deleted" ELSE status[t]]
      /\ active' = Recoverable \ old
      /\ cached' = [t \in Turns |-> IF t \in Recoverable \ old THEN status[t] ELSE "none"]
      /\ task' = [t \in Turns |-> IF t \in Recoverable \ old THEN "reconcile" ELSE "none"]
  BY DEF Recover
<1>1. \A t \in Recoverable : t \in runId /\ status[t] \in {"running", "waiting_for_approval"}
  BY DEF Recoverable, list_recoverable_runs, IInv, TypeOK, RunIdStatus, OpenStatuses
<1>2. TypeOK'
  BY <1>1, BoundsAssumption
     DEF Recover, Recoverable, list_recoverable_runs, IInv, TypeOK, OpenStatuses
<1>3. (Unborn /\ StartOwnsRow /\ RunIdStatus /\ Stamped)'
  BY DEF Recover, IInv, Unborn, StartOwnsRow, RunIdStatus, Stamped, DownIsIdle, TypeOK
<1>4. (CacheCoherent /\ TaskFollowsOpenRun /\ DownIsIdle)'
  <2>1. \A t \in Turns :
          /\ cached'[t] # "none" <=> t \in Recoverable \ old
          /\ t \in Recoverable \ old => cached'[t] = status[t] /\ status'[t] = status[t]
          /\ approval'[t] = "no"
    BY <1>1 DEF Recover, IInv, DownIsIdle
  <2>2. CacheCoherent'
    BY <1>1, <2>1 DEF Recover, CacheCoherent
  <2>3. TaskFollowsOpenRun'
    BY <1>1, <2>1 DEF TaskFollowsOpenRun
  <2> QED
    BY <2>2, <2>3 DEF Recover, DownIsIdle
<1>5. ReportsAreTrue'
  BY DEF Recover, IInv, ReportsAreTrue
<1> QED
  BY <1>2, <1>3, <1>4, <1>5 DEF IInv

(* The invariant depends on the variables of the module only.              *)
LEMMA Stutter_Step ==
  ASSUME IInv, UNCHANGED vars
  PROVE  IInv'
BY DEF IInv, vars, TypeOK, Unborn, StartOwnsRow, RunIdStatus, CacheCoherent,
       TaskFollowsOpenRun, Stamped, ReportsAreTrue, DownIsIdle, Recoverable

-----------------------------------------------------------------------------
(* The invariant *)

(* Every step preserves the invariant.                                     *)
LEMMA NextIInv == IInv /\ [Next]_vars => IInv'
<1> SUFFICES ASSUME IInv, [Next]_vars PROVE IInv'
  OBVIOUS
<1>1. ASSUME NEW t \in Turns, Submit(t) PROVE IInv'
  BY <1>1, StartFails_Step, Post_Step, StartAccepted_Step, StartRefused_Step,
     StartAmbiguous_Step DEF Submit
<1>2. ASSUME NEW t \in Turns, Consume(t) PROVE IInv'
  BY <1>2, ConsumeEvent_Step, StreamLost_Step DEF Consume
<1>3. ASSUME NEW t \in Turns, Reconcile(t) PROVE IInv'
  BY <1>3, PollRefused_Step, PollUnreachable_Step, PollSettled_Step, PollWaiting_Step,
     PollAgain_Step, PollsExhausted_Step DEF Reconcile
<1>4. ASSUME NEW t \in Turns, FinishApproval(t) PROVE IInv'
  BY <1>4, ApproveReturns_Step, ApproveFails_Step DEF FinishApproval
<1>5. ASSUME NEW t \in Turns, Owner(t) PROVE IInv'
  BY <1>5, Start_Step, Approve_Step, Stop_Step, acknowledge_unknown_Step,
     acknowledge_unrecoverable_Step DEF Owner
<1>6. ASSUME NEW t \in Turns, Hermes(t) PROVE IInv'
  BY <1>6, HermesReceives_Step, HermesAnswersPoll_Step, HermesAsks_Step, HermesApproves_Step,
     HermesFinishes_Step, HermesStops_Step, HermesForgets_Step DEF Hermes
<1> QED
  BY <1>1, <1>2, <1>3, <1>4, <1>5, <1>6, Crash_Step, Recover_Step, Stutter_Step DEF Next

(* The row, the ActiveRun that caches it, the tasks and Hermes stay        *)
(* coherent in every reachable state (run_coordinator.py, run_store.py).   *)
THEOREM Coherence == Spec => []IInv
BY InitIInv, NextIInv, PTL DEF Spec

(* Every variable keeps its type: no handler writes a status the store     *)
(* does not know or counts its polls beyond the limit.                     *)
THEOREM TypeCorrect == Spec => []TypeOK
<1>1. IInv => TypeOK
  BY DEF IInv
<1> QED
  BY <1>1, Coherence, PTL

-----------------------------------------------------------------------------
(* What a step may do to the row of a turn.  Every handler but Crash and   *)
(* Recover works on one turn.                                              *)

Handler(t) ==
  Submit(t) \/ Consume(t) \/ Reconcile(t) \/ FinishApproval(t) \/ Owner(t) \/ Hermes(t)

\* The columns of the row other than its status stay as they are.
SameColumns(t) ==
  /\ t \in terminalAt' <=> t \in terminalAt
  /\ t \in acknowledged' <=> t \in acknowledged
  /\ t \in runId' <=> t \in runId

SameRow(t) == status'[t] = status[t] /\ SameColumns(t)

\* The row stays, while Hermes may get the request, work on it or forget it.
HermesProceeds(t) ==
  /\ SameRow(t)
  /\ \/ hermes'[t] = hermes[t]
     \/ hermes[t] = "none" /\ hermes'[t] = "wire" /\ status[t] = "submitting"
     \/ hermes[t] \in HermesBusy /\ hermes'[t] # "wire"
     \/ hermes[t] \in HermesAccepted /\ hermes'[t] = "gone"

Opens(t) ==
  /\ status[t] = "absent" /\ status'[t] = "submitting" /\ MayStart(t)
  /\ SameColumns(t) /\ hermes'[t] = hermes[t]

IsAccepted(t) ==
  /\ status[t] = "submitting" /\ status'[t] = "running"
  /\ t \notin terminalAt \cup terminalAt'
  /\ t \notin acknowledged' /\ hermes'[t] = hermes[t]

LosesTrack(t) ==
  /\ status[t] = "submitting" /\ status'[t] = "acceptance_unknown"
  /\ t \notin terminalAt /\ SameColumns(t) /\ hermes'[t] = hermes[t]

IsRejected(t) ==
  /\ status[t] = "submitting" /\ status'[t] = "rejected"
  /\ t \notin terminalAt /\ t \in terminalAt' /\ t \notin runId'
  /\ "garbled_reply" \notin Faults => hermes[t] \notin HermesBusy
  /\ hermes'[t] = hermes[t]

FollowedStatuses == {"running", "waiting_for_approval", "unrecoverable"}

Settles(t) ==
  /\ status[t] \in FollowedStatuses /\ status'[t] \in HermesOutcomes
  /\ t \in terminalAt' /\ t \in runId'
  /\ hermes[t] \in {status'[t], "gone"} /\ hermes'[t] = hermes[t]

IsFollowed(t) ==
  /\ status[t] \in FollowedStatuses \/ t \in acknowledged
  /\ status'[t] \in FollowedStatuses
  /\ SameColumns(t) /\ hermes'[t] = hermes[t]

IsAcknowledged(t) ==
  /\ status[t] \in {"acceptance_unknown", "unrecoverable"} /\ status'[t] = "failed"
  /\ t \in terminalAt' /\ t \in acknowledged' /\ hermes'[t] = hermes[t]

RowMoves(t) ==
  \/ HermesProceeds(t) \/ Opens(t) \/ IsAccepted(t) \/ LosesTrack(t) \/ IsRejected(t)
  \/ Settles(t) \/ IsFollowed(t) \/ IsAcknowledged(t)

(* A step of start() rejects, posts, accepts or loses track of the turn.   *)
LEMMA SubmitMoves ==
  ASSUME IInv, NEW t \in Turns, Submit(t)
  PROVE  RowMoves(t)
<1>1. CASE StartFails(t)
  BY <1>1 DEF StartFails, IInv, TypeOK, StartOwnsRow, IsRejected, HermesBusy, RowMoves
<1>2. CASE Post(t)
  BY <1>2 DEF Post, IInv, TypeOK, StartOwnsRow, HermesProceeds, SameRow, SameColumns, RowMoves
<1>3. CASE StartAccepted(t)
  BY <1>3 DEF StartAccepted, IInv, TypeOK, StartOwnsRow, IsAccepted, RowMoves
<1>4. CASE StartRefused(t)
  BY <1>4 DEF StartRefused, IInv, TypeOK, StartOwnsRow, IsRejected, HermesBusy, RowMoves
<1>5. CASE StartAmbiguous(t)
  BY <1>5 DEF StartAmbiguous, IInv, TypeOK, StartOwnsRow, LosesTrack, SameColumns, RowMoves
<1> QED
  BY <1>1, <1>2, <1>3, <1>4, <1>5 DEF Submit

(* A step of _consume settles the run or follows it.                       *)
LEMMA ConsumeMoves ==
  ASSUME IInv, NEW t \in Turns, Consume(t)
  PROVE  RowMoves(t)
<1>1. CASE StreamLost(t)
  BY <1>1 DEF StreamLost, HermesProceeds, SameRow, SameColumns, RowMoves
<1>2. CASE ConsumeEvent(t)
  <2>1. stream[t] \in Seq(DOMAIN EventStatus) /\ stream[t] # <<>> /\ Len(stream[t]) \in Nat
    BY <1>2 DEF ConsumeEvent, IInv, TypeOK
  <2> PICK e \in DOMAIN EventStatus : e = Head(stream[t])
    BY <2>1, TailFacts
  <2>2. e = stream[t][1] /\ 1 \in 1..Len(stream[t])
    BY <2>1
  <2>3. status[t] \in {"running", "waiting_for_approval"} /\ t \in runId
    BY <1>2 DEF ConsumeEvent, IInv, TaskFollowsOpenRun, CacheCoherent
  <2>4. Emit(t, e) /\ UNCHANGED <<hermes, runId, acknowledged>>
    BY <1>2 DEF ConsumeEvent
  <2>5. status'[t] = EmittedStatus(t, e)
    BY <2>3, <2>4, EmitFacts DEF IInv, TypeOK, RowStatuses, OpenStatuses
  <2>6. CASE e \in TerminalEvents
    <3>1. hermes[t] \in {EventStatus[e], "gone"}
      BY <2>2, <2>6 DEF IInv, ReportsAreTrue
    <3>2. status'[t] = EventStatus[e] /\ status'[t] \in HermesOutcomes /\ t \in terminalAt'
      BY <2>3, <2>4, <2>5, <2>6, EmitFacts DEF IInv, RowStatuses, OpenStatuses
    <3> QED
      BY <2>3, <2>4, <3>1, <3>2 DEF Settles, FollowedStatuses, RowMoves
  <2>7. CASE e \notin TerminalEvents
    <3>1. status'[t] \in FollowedStatuses /\ UNCHANGED terminalAt
      BY <2>3, <2>4, <2>5, <2>7, EmitFacts
         DEF IInv, RowStatuses, OpenStatuses, FollowedStatuses
    <3> QED
      BY <2>3, <2>4, <3>1 DEF IsFollowed, SameColumns, FollowedStatuses, RowMoves
  <2> QED
    BY <2>6, <2>7
<1> QED
  BY <1>1, <1>2 DEF Consume

(* A step of _reconcile settles the run, follows it or gives it up.        *)
LEMMA ReconcileMoves ==
  ASSUME IInv, NEW t \in Turns, Reconcile(t)
  PROVE  RowMoves(t)
<1>1. CASE PollUnreachable(t) \/ PollWaiting(t) \/ PollAgain(t) \/ PollsExhausted(t)
  BY <1>1 DEF PollUnreachable, PollWaiting, PollAgain, PollsExhausted, HermesProceeds,
              SameRow, SameColumns, RowMoves
<1>2. ASSUME Reconciling(t)
      PROVE  status[t] \in {"running", "waiting_for_approval"} /\ t \in runId
  BY <1>2 DEF Reconciling, IInv, TaskFollowsOpenRun, CacheCoherent
<1>3. CASE PollRefused(t)
  BY <1>2, <1>3 DEF PollRefused, TakeDocument, IInv, TypeOK, IsFollowed, SameColumns,
                    FollowedStatuses, RowMoves
<1>4. CASE PollSettled(t)
  <2>1. /\ document[t] \in HermesOutcomes
        /\ hermes[t] \in {document[t], "gone"}
        /\ Emit(t, OutcomeEvent[document[t]])
        /\ UNCHANGED <<hermes, runId>>
    BY <1>4 DEF PollSettled, TakeDocument, Terminal, IInv, ReportsAreTrue
  <2>2. /\ OutcomeEvent[document[t]] \in TerminalEvents
        /\ EventStatus[OutcomeEvent[document[t]]] = document[t]
    BY <2>1, OutcomeTable
  <2>3. OutcomeEvent[document[t]] \in DOMAIN EventStatus
    BY <2>2, EventTable
  <2>4. status[t] \in RowStatuses /\ status[t] \in FollowedStatuses /\ t \in runId
    BY <1>2, <1>4 DEF PollSettled, TakeDocument, RowStatuses, OpenStatuses, FollowedStatuses
  <2>5. status'[t] = document[t] /\ t \in terminalAt'
    BY <2>1, <2>2, <2>3, <2>4, EmitFacts DEF IInv, TypeOK
  <2> QED
    BY <2>1, <2>4, <2>5 DEF Settles, RowMoves
<1> QED
  BY <1>1, <1>3, <1>4 DEF Reconcile

(* The end of approve() follows the run, or leaves a closed row alone.     *)
LEMMA FinishApprovalMoves ==
  ASSUME IInv, NEW t \in Turns, FinishApproval(t)
  PROVE  RowMoves(t)
<1>1. CASE ApproveFails(t)
  BY <1>1 DEF ApproveFails, HermesProceeds, SameRow, SameColumns, RowMoves
<1>2. CASE ApproveReturns(t) /\ cached[t] \in TERMINAL_STATUSES
  BY <1>2 DEF ApproveReturns, HermesProceeds, SameRow, SameColumns, RowMoves
<1>3. CASE ApproveReturns(t) /\ cached[t] \notin TERMINAL_STATUSES
  <2> PICK e \in DOMAIN EventStatus : e = "agent.approval.resolved"
    BY EventTable DEF TerminalEvents
  <2>1. e \notin TerminalEvents /\ Emit(t, e) /\ UNCHANGED <<hermes, runId, acknowledged>>
    BY <1>3 DEF ApproveReturns, TerminalEvents
  <2>2. cached[t] # "none" /\ t \in runId /\ status[t] \in RowStatuses
    BY <1>3 DEF ApproveReturns, IInv, CacheCoherent, RunIdStatus, TypeOK, RowStatuses
  <2>3. status[t] \in FollowedStatuses \/ t \in acknowledged
    BY <1>3, <2>2 DEF IInv, CacheCoherent, RunIdStatus, RowStatuses, OpenStatuses,
                      ClosedStatuses, TERMINAL_STATUSES, FollowedStatuses
  <2>4. status'[t] \in FollowedStatuses /\ UNCHANGED terminalAt
    BY <1>3, <2>1, <2>2, EmitFacts DEF IInv, TypeOK, FollowedStatuses
  <2> QED
    BY <2>1, <2>3, <2>4 DEF IsFollowed, SameColumns, RowMoves
<1> QED
  BY <1>1, <1>2, <1>3 DEF FinishApproval

(* What the owner does opens or acknowledges the turn, or keeps its row.   *)
LEMMA OwnerMoves ==
  ASSUME IInv, NEW t \in Turns, Owner(t)
  PROVE  RowMoves(t)
<1>1. CASE Start(t)
  BY <1>1 DEF Start, IInv, TypeOK, Opens, SameColumns, RowMoves
<1>2. CASE Approve(t)
  BY <1>2 DEF Approve, HermesProceeds, SameRow, SameColumns, RowMoves
<1>3. CASE Stop(t)
  BY <1>3 DEF Stop, IInv, TypeOK, HermesBusy, HermesProceeds, SameRow, SameColumns, RowMoves
<1>4. CASE acknowledge_unknown(t)
  BY <1>4 DEF acknowledge_unknown, IInv, TypeOK, IsAcknowledged, RowMoves
<1>5. CASE acknowledge_unrecoverable(t)
  BY <1>5 DEF acknowledge_unrecoverable, IInv, TypeOK, IsAcknowledged, HermesProceeds,
              SameRow, SameColumns, RowMoves
<1> QED
  BY <1>1, <1>2, <1>3, <1>4, <1>5 DEF Owner

(* Hermes never touches the row of the turn.                               *)
LEMMA HermesMovesRow ==
  ASSUME IInv, NEW t \in Turns, Hermes(t)
  PROVE  RowMoves(t)
<1>1. SameRow(t)
  BY DEF Hermes, HermesReceives, HermesAnswersPoll, HermesAsks, HermesApproves, HermesFinishes,
         HermesStops, HermesForgets, HermesMoves, SameRow, SameColumns
<1>2. \/ hermes'[t] = hermes[t]
      \/ hermes[t] \in HermesBusy /\ hermes'[t] # "wire"
      \/ hermes[t] \in HermesAccepted /\ hermes'[t] = "gone"
  BY DEF Hermes, HermesReceives, HermesAnswersPoll, HermesAsks, HermesApproves, HermesFinishes,
         HermesStops, HermesForgets, HermesMoves, IInv, TypeOK, HermesBusy
<1> QED
  BY <1>1, <1>2 DEF HermesProceeds, RowMoves

(* Every handler moves the row of its turn in one of these ways.           *)
LEMMA HandlerMoves ==
  ASSUME IInv, NEW t \in Turns, Handler(t)
  PROVE  RowMoves(t)
BY SubmitMoves, ConsumeMoves, ReconcileMoves, FinishApprovalMoves, OwnerMoves, HermesMovesRow
   DEF Handler

(* The rows of the other turns, and what Hermes has of them, stay.         *)
LEMMA OtherRows ==
  ASSUME IInv, NEW t \in Turns, Handler(t), NEW u \in Turns \ {t}
  PROVE  SameRow(u) /\ hermes'[u] = hermes[u]
<1>1. CASE Submit(t)
  BY <1>1 DEF Submit, StartFails, Post, StartAccepted, StartRefused, StartAmbiguous,
              IInv, TypeOK, SameRow, SameColumns
<1>2. CASE Consume(t)
  BY <1>2 DEF Consume, ConsumeEvent, StreamLost, Emit, IInv, TypeOK, SameRow, SameColumns
<1>3. CASE Reconcile(t)
  BY <1>3 DEF Reconcile, PollRefused, PollUnreachable, PollSettled, PollWaiting, PollAgain,
              PollsExhausted, Terminal, Emit, IInv, TypeOK, SameRow, SameColumns
<1>4. CASE FinishApproval(t)
  BY <1>4 DEF FinishApproval, ApproveReturns, ApproveFails, Emit, IInv, TypeOK, SameRow,
              SameColumns
<1>5. CASE Owner(t)
  BY <1>5 DEF Owner, Start, Approve, Stop, acknowledge_unknown, acknowledge_unrecoverable,
              IInv, TypeOK, SameRow, SameColumns
<1>6. CASE Hermes(t)
  BY <1>6 DEF Hermes, HermesReceives, HermesAnswersPoll, HermesAsks, HermesApproves,
              HermesFinishes, HermesStops, HermesForgets, HermesMoves, IInv, TypeOK,
              SameRow, SameColumns
<1> QED
  BY <1>1, <1>2, <1>3, <1>4, <1>5, <1>6 DEF Handler

(* A crash keeps all rows; a recovery deletes stamped ones.                *)
LEMMA NodeMoves ==
  ASSUME IInv, Crash \/ Recover \/ UNCHANGED vars, NEW u \in Turns
  PROVE  /\ SameColumns(u) /\ hermes'[u] = hermes[u]
         /\ \/ status'[u] = status[u]
            \/ u \in terminalAt /\ status'[u] = "deleted"
BY DEF Crash, Recover, vars, SameColumns

(* A step is one of a handler, a stop, a restart, or nothing.              *)
LEMMA StepCases ==
  ASSUME [Next]_vars
  PROVE  (\E t \in Turns : Handler(t)) \/ (Crash \/ Recover \/ UNCHANGED vars)
BY DEF Next, Handler

(* So each row moves in one of the ways above, or is deleted.              *)
LEMMA RowStep ==
  ASSUME IInv, [Next]_vars, NEW u \in Turns
  PROVE  \/ RowMoves(u)
         \/ /\ SameColumns(u) /\ hermes'[u] = hermes[u]
            /\ u \in terminalAt /\ status'[u] = "deleted"
<1>1. CASE \E t \in Turns : Handler(t)
  BY <1>1, HandlerMoves, OtherRows DEF HermesProceeds, RowMoves
<1>2. CASE Crash \/ Recover \/ UNCHANGED vars
  BY <1>2, NodeMoves DEF HermesProceeds, SameRow, RowMoves
<1> QED
  BY <1>1, <1>2, StepCases

-----------------------------------------------------------------------------
(* The properties *)

(* While Hermes may be working on a turn, or may still receive it, the     *)
(* conversation of the turn is locked unless its owner acknowledged the    *)
(* risk: for every interleaving of handlers, crashes and recoveries, with  *)
(* every fault but an unreadable reply to the submission (which the code   *)
(* records as a rejection, hermes_client.py, start_run).                   *)
THEOREM WorkIsLocked ==
  ASSUME "garbled_reply" \notin Faults
  PROVE  Spec => []NoUnlockedWork
<1>1. Init => NoUnlockedWork
  BY DEF Init, NoUnlockedWork, HermesBusy
<1>2. IInv /\ NoUnlockedWork /\ [Next]_vars => NoUnlockedWork'
  <2> SUFFICES ASSUME IInv, NoUnlockedWork, [Next]_vars, NEW u \in Turns,
                      hermes'[u] \in HermesBusy, u \notin acknowledged'
               PROVE  status'[u] \notin ClosedStatuses \cup {"absent", "deleted"}
    BY DEF NoUnlockedWork, active_run_for_conversation, SameConversation
  <2>1. hermes[u] \in HermesBusy /\ u \notin acknowledged =>
          status[u] \notin ClosedStatuses \cup {"absent", "deleted"}
    BY DEF NoUnlockedWork, active_run_for_conversation
  <2>2. hermes[u] = "gone" \/ hermes[u] \in HermesOutcomes => hermes[u] \notin HermesBusy
    BY DEF HermesBusy, HermesOutcomes
  <2>3. status[u] \in {"running", "waiting_for_approval", "unrecoverable", "submitting",
                       "acceptance_unknown"}
          => status[u] \notin ClosedStatuses \cup {"absent", "deleted"}
    BY DEF ClosedStatuses
  <2>4. CASE HermesProceeds(u)
    BY <2>1, <2>3, <2>4 DEF HermesProceeds, SameRow, SameColumns, HermesBusy
  <2>5. CASE Opens(u) \/ IsAccepted(u) \/ LosesTrack(u) \/ IsFollowed(u)
    BY <2>5 DEF Opens, IsAccepted, LosesTrack, IsFollowed, FollowedStatuses, ClosedStatuses
  <2>6. CASE IsRejected(u) \/ Settles(u) \/ IsAcknowledged(u)
    BY <2>2, <2>6 DEF IsRejected, Settles, IsAcknowledged, HermesBusy, HermesOutcomes
  <2>7. CASE /\ SameColumns(u) /\ hermes'[u] = hermes[u]
             /\ u \in terminalAt /\ status'[u] = "deleted"
    BY <2>1, <2>7 DEF SameColumns, IInv, Stamped
  <2> QED
    BY <2>4, <2>5, <2>6, <2>7, RowStep DEF RowMoves
<1> QED
  BY <1>1, <1>2, Coherence, PTL DEF Spec

(* A run is closed with the outcome Hermes gave it, whether the console    *)
(* learnt it from the event stream (_consume) or from a poll (_reconcile). *)
THEOREM OutcomesAgree == Spec => []OutcomeAgrees
<1>1. Init => OutcomeAgrees
  BY DEF Init, OutcomeAgrees, HermesOutcomes
<1>2. IInv /\ OutcomeAgrees /\ [Next]_vars => OutcomeAgrees'
  <2> SUFFICES ASSUME IInv, OutcomeAgrees, [Next]_vars, NEW u \in Turns,
                      u \notin acknowledged'
               PROVE  /\ status'[u] \in HermesOutcomes =>
                           u \in runId' /\ hermes'[u] \in {status'[u], "gone"}
                      /\ status'[u] = "rejected" => u \notin runId'
    BY DEF OutcomeAgrees
  <2>1. u \notin acknowledged =>
          /\ status[u] \in HermesOutcomes => u \in runId /\ hermes[u] \in {status[u], "gone"}
          /\ status[u] = "rejected" => u \notin runId
    BY DEF OutcomeAgrees
  <2>2. CASE HermesProceeds(u)
    BY <2>1, <2>2 DEF HermesProceeds, SameRow, SameColumns, HermesBusy, HermesOutcomes
  <2>3. CASE Opens(u) \/ IsAccepted(u) \/ LosesTrack(u) \/ IsFollowed(u)
    BY <2>3 DEF Opens, IsAccepted, LosesTrack, IsFollowed, FollowedStatuses, HermesOutcomes
  <2>4. CASE IsRejected(u) \/ Settles(u) \/ IsAcknowledged(u)
    BY <2>4 DEF IsRejected, Settles, IsAcknowledged, HermesOutcomes
  <2>5. CASE status'[u] = "deleted"
    BY <2>5 DEF HermesOutcomes
  <2> QED
    BY <2>2, <2>3, <2>4, <2>5, RowStep DEF RowMoves
<1> QED
  BY <1>1, <1>2, Coherence, PTL DEF Spec

(* A closed run keeps its outcome until its row expires: neither an        *)
(* approval nor a poll that was in flight when it closed changes it.       *)
THEOREM OutcomesAreFinal == Spec => OutcomeFinal
<1>1. IInv /\ [Next]_vars =>
        [\A t \in Turns \ acknowledged :
           status[t] \in ClosedStatuses => status'[t] \in {status[t], "deleted"}]_vars
  <2> SUFFICES ASSUME IInv, [Next]_vars, NEW u \in Turns, u \notin acknowledged,
                      status[u] \in ClosedStatuses
               PROVE  status'[u] \in {status[u], "deleted"}
    OBVIOUS
  <2> QED
    BY RowStep DEF RowMoves, HermesProceeds, SameRow, Opens, IsAccepted, LosesTrack, IsRejected,
                   Settles, IsFollowed, IsAcknowledged, FollowedStatuses, ClosedStatuses
<1> QED
  BY <1>1, Coherence, PTL DEF Spec, OutcomeFinal

(* A turn is submitted to Hermes once: no reconnection, recovery or        *)
(* reconciliation posts it again.                                          *)
THEOREM PostedOnce == Spec => NeverReposted
<1>1. IInv /\ [Next]_vars =>
        [\A t \in Turns : hermes'[t] = "wire" => hermes[t] \in {"none", "wire"}]_vars
  <2> SUFFICES ASSUME IInv, [Next]_vars, NEW u \in Turns, hermes'[u] = "wire"
               PROVE  hermes[u] \in {"none", "wire"}
    OBVIOUS
  <2> QED
    BY RowStep DEF RowMoves, HermesProceeds, Opens, IsAccepted, LosesTrack, IsRejected,
                   Settles, IsFollowed, IsAcknowledged
<1> QED
  BY <1>1, Coherence, PTL DEF Spec, NeverReposted

-----------------------------------------------------------------------------
(* The coordinator implements the ledger of turns *)

(* The refinement mapping is a function on the turns.                      *)
LEMMA PhaseIsFunction ==
  /\ phase = [u \in Turns |-> phase[u]]
  /\ phase' = [u \in Turns |-> phase'[u]]
BY DEF phase

(* A row that stays as it is keeps its phase.                              *)
LEMMA PhaseStays ==
  ASSUME IInv, NEW u \in Turns, SameRow(u)
  PROVE  phase'[u] = phase[u]
BY DEF SameRow, SameColumns, phase

(* What each phase of a turn says about its row.                           *)
LEMMA PhaseOfRow ==
  ASSUME IInv, NEW u \in Turns
  PROVE  /\ phase[u] = "new" <=> status[u] = "absent"
         /\ phase[u] = "decided" <=> u \in terminalAt
         /\ phase[u] = "uncertain" <=> status[u] = "acceptance_unknown"
         /\ phase[u] \in {"new", "decided", "uncertain", "undecided"}
BY DEF IInv, Unborn, RunIdStatus, phase

(* A step of a handler is a step of the ledger, or changes no phase.       *)
LEMMA HandlerRefines ==
  ASSUME IInv, IInv', NEW t \in Turns, Handler(t)
  PROVE  [Ledger!Next]_phase
<1>1. \A u \in Turns \ {t} : phase'[u] = phase[u]
  BY OtherRows, PhaseStays
<1>2. ASSUME NEW p, phase'[t] = p PROVE phase' = [phase EXCEPT ![t] = p]
  BY <1>1, <1>2, PhaseIsFunction
<1>3. ASSUME phase'[t] = phase[t] PROVE [Ledger!Next]_phase
  BY <1>1, <1>3, PhaseIsFunction
<1>4. /\ phase'[t] = "new" <=> status'[t] = "absent"
      /\ phase'[t] = "decided" <=> t \in terminalAt'
      /\ phase'[t] = "uncertain" <=> status'[t] = "acceptance_unknown"
      /\ phase'[t] \in {"new", "decided", "uncertain", "undecided"}
  BY DEF IInv, Unborn, RunIdStatus, phase
<1>5. CASE HermesProceeds(t)
  BY <1>3, <1>5, PhaseStays DEF HermesProceeds
<1>6. CASE Opens(t)
  <2>1. phase[t] = "new" /\ phase'[t] = "undecided"
    BY <1>4, <1>6, PhaseOfRow DEF Opens, SameColumns, IInv, Unborn
  <2>2. ASSUME NEW u \in Turns, Ledger!SameConversation(t, u)
        PROVE  ~Ledger!Open(u)
    BY <1>6, <2>2, PhaseOfRow
       DEF Opens, MayStart, active_run_for_conversation, SameConversation,
           Ledger!SameConversation, Ledger!Open, IInv, Stamped
  <2>3. ASSUME NEW u \in Turns, Ledger!SameScope(t, u)
        PROVE  phase[u] # "uncertain"
    BY <1>6, <2>3, PhaseOfRow
       DEF Opens, MayStart, acceptance_unknown_for_owner_target, SameScope, Ledger!SameScope
  <2> QED
    BY <1>2, <2>1, <2>2, <2>3 DEF Ledger!Next, Ledger!Begin, Ledger!Move
<1>7. CASE IsAccepted(t)
  BY <1>3, <1>4, <1>7, PhaseOfRow DEF IsAccepted
<1>8. CASE LosesTrack(t)
  <2>1. phase[t] = "undecided" /\ phase'[t] = "uncertain"
    BY <1>4, <1>8, PhaseOfRow DEF LosesTrack
  <2> QED
    BY <1>2, <2>1 DEF Ledger!Next, Ledger!LoseTrack, Ledger!Move
<1>9. CASE IsRejected(t)
  <2>1. phase[t] = "undecided" /\ phase'[t] = "decided"
    BY <1>4, <1>9, PhaseOfRow DEF IsRejected
  <2> QED
    BY <1>2, <2>1 DEF Ledger!Next, Ledger!Decide, Ledger!Move
<1>10. CASE Settles(t)
  <2>1. phase[t] \in {"undecided", "decided"} /\ phase'[t] = "decided"
    BY <1>4, <1>10, PhaseOfRow DEF Settles, FollowedStatuses
  <2> QED
    BY <1>2, <1>3, <2>1 DEF Ledger!Next, Ledger!Decide, Ledger!Move
<1>11. CASE IsFollowed(t)
  BY <1>3, <1>4, <1>11, PhaseOfRow DEF IsFollowed, SameColumns, FollowedStatuses, IInv, Stamped
<1>12. CASE IsAcknowledged(t)
  <2>1. phase[t] \in {"undecided", "uncertain", "decided"} /\ phase'[t] = "decided"
    BY <1>4, <1>12, PhaseOfRow DEF IsAcknowledged
  <2> QED
    BY <1>2, <1>3, <2>1 DEF Ledger!Next, Ledger!Decide, Ledger!Acknowledge, Ledger!Move
<1> QED
  BY <1>5, <1>6, <1>7, <1>8, <1>9, <1>10, <1>11, <1>12, HandlerMoves DEF RowMoves

(* A crash, a recovery and the cleanup of old rows change no phase.        *)
LEMMA NodeRefines ==
  ASSUME IInv, Crash \/ Recover \/ UNCHANGED vars
  PROVE  UNCHANGED phase
<1>1. ASSUME NEW u \in Turns PROVE phase'[u] = phase[u]
  <2>1. CASE status'[u] = status[u]
    BY <2>1, NodeMoves, PhaseStays DEF SameRow
  <2>2. CASE u \in terminalAt /\ status'[u] = "deleted"
    <3>1. u \in terminalAt' /\ status[u] # "absent"
      BY <2>2, NodeMoves DEF SameColumns, IInv, Unborn
    <3>2. phase'[u] = "decided"
      BY <2>2, <3>1 DEF phase
    <3> QED
      BY <2>2, <3>2, PhaseOfRow
  <2> QED
    BY <2>1, <2>2, NodeMoves
<1> QED
  BY <1>1, PhaseIsFunction

(* Every behaviour of the coordinator, the store and Hermes is one of the  *)
(* ledger: a turn is opened once, only when its conversation has no open   *)
(* turn and its owner and target no uncertain one, and its decision stays. *)
THEOREM Refinement == Spec => ImplementsLedger
<1>1. Init => Ledger!Init
  BY DEF Init, Ledger!Init, phase
<1>2. IInv /\ IInv' /\ [Next]_vars => [Ledger!Next]_phase
  BY HandlerRefines, NodeRefines, StepCases
<1> QED
  BY <1>1, <1>2, Coherence, PTL DEF Spec, ImplementsLedger, Ledger!Spec
=============================================================================
