# Hermes Voice Console in TLA+

This directory holds TLA+ modules of the Hermes Voice Console: a Python backend
(`src/backend/voice_console`) that stands between a browser page
(`src/frontend`) and a Hermes API server. The modules are translated from the
source. TLC checks them on small instances, and TLAPS proves every safety property of
the passing runs for every instance.

    tlc  -config MCRun_same.cfg MCRunCoordinator     # one run, see the table below
    tlapm RunCoordinatorProofs.tla                   # proofs, some minutes per module

Line numbers in this file refer to `src/backend/voice_console` unless another
path is given.

## 1. Inventory

### Components, their state and their operations

| Component | State | Operations | Talks to |
|---|---|---|---|
| Run coordinator, `run_coordinator.py` | a lock per conversation; `_active`: an `ActiveRun` per run with a cached row, a buffer of 250 events, subscriber queues of 64 items, one task | start, consume the event stream, reconcile by polling, approve, stop, acknowledge, subscribe, unsubscribe, recover, close | run store, Hermes client, voice socket |
| Run store, `run_store.py` | sqlite: `sessions`, `runs` | insert, update, the queries behind the lock and the fence, acknowledge, cleanup at start-up | coordinator |
| Hermes client, `hermes_client.py` | none | start_run, get_run, event stream, approve, stop: each may be answered, refused, garbled, lost | Hermes |
| Voice socket, `voice_socket.py` | per socket: subscription task, recording, begin_run task, TTS task, auth watchdog | hello with resume, submit, record, approve, stop, cleanup | coordinator, TTS, auth |
| Recording and TTS, `voice_session.py`, `tts_session.py`, `audio.py` | chunks of a recording and its timer; the synthesis task and its turn | start, append, finish, cancel; speak, cancel | socket, providers |
| Authentication, `auth.py` | expiry of the token of a socket | authenticate the first frame, refresh, warn, expire | socket, routes |
| Realtime proxy, `realtime/service.py`, `store.py`, `hermes_client.py`, `responses.py` | sqlite: `realtime_requests` (claims), `realtime_sessions` (ownership) | create, delete, activate, input, interrupt, manual controls, approval, worker command, lookup of a result | Hermes realtime API |
| Realtime socket, `realtime/socket.py` | cursor, replay task | subscribe, replay, control frames | realtime proxy |
| Console page, `console/useConsoleController.ts`, `lib/recovery.ts` | active run, cursor, recovery entry in `sessionStorage` | hello, follow events, resume, forget | voice socket |
| Realtime page, `console/useRealtimeSession.ts`, `lib/realtimeClient.ts`, `lib/realtimeControlClient.ts` | media of a call and its session, control channel, cursor, mute, turn mode, manual turn, recovery lock | connect, end, change of conversation, mute, turn mode, start, commit and discard a turn | realtime proxy, browser |
| Playback page, `lib/playback.ts`, `console/useLegacyVoiceSession.ts` | audio queue, recorder | play, stop, record | voice socket |
| Assembly, `app.py` | none of its own | `recover()` at start-up, `close()` at the end | all |
| Configuration, CLI, providers, fake targets, gates, presentation | - | parsing, I/O, rendering | - |

### How they interact, and what is hard

The backend is one asyncio process. Between two awaits nothing else runs, so a
handler is a sequence of atomic steps with a boundary at every await on Hermes.
At such a boundary any other handler may run, Hermes may move, the process may
stop. Two copies of a run's status exist: the row in sqlite, which survives, and
the record in the `ActiveRun`, which decides what an event may change. A browser
comes and goes, and is fed through bounded queues from a bounded buffer.

The hazards that follow from this are listed with their lines in `PROJECT.json`.
The most important ones:

- a reply of Hermes is lost, late, or cannot be read, after the work it
  acknowledges has begun (`hermes_client.py:194`, `realtime/hermes_client.py:211`);
- a check made before an await is relied on after it (`run_coordinator.py:83`,
  `:401`);
- the process stops between the effect in Hermes and its record in the store
  (`run_coordinator.py:434`);
- the outcome of a run reaches the row by two paths, the stream and the polls,
  while an approval is in flight;
- a queue or the buffer overflows while a page is being resumed
  (`run_coordinator.py:303`, `:337`);
- something nobody waits for any more (`run_coordinator.py:202`, `:271`, `:308`).

### What makes each component correct

- **Run coordinator and store.** While Hermes may work on a turn its conversation
  is locked. A turn is posted once. A closed run keeps the outcome Hermes gave
  it. A turn that is followed comes to rest.
- **Fan-out.** A queue is current or is given up; a hole in the events is
  announced; no event is shown twice; the end of a stream is the end of the run;
  a subscriber hears of it.
- **Realtime mutations.** A mutation is forwarded once under its request id; what
  a browser is told is what Hermes decided about its own input; a stored result
  is Hermes' decision.
- **Voice socket and recording.** What is too long, too large or discarded is
  never submitted; a recording ends without the page; whoever submits is
  answered; a closed socket leaves no task behind.
- **Spoken replies.** One reply at a time is spoken, a clip holds the audio of one
  turn, nothing of a cancelled turn is sent or played, files are removed, the
  page gets ready for the next reply.
- **Authentication.** An expired token ends the socket, a refreshed one does not,
  and the page is warned before.
- **Realtime call.** The microphone sends what the page says it sends; page and Hermes
  agree on the turn mode; a call in doubt stays unusable until it is replaced; every
  session is given back once.
- **Realtime replay.** The page shows the events of a conversation in order, each
  once and none left out, through gaps and lost connections; the row of a session
  agrees with Hermes in the end.

## 2. Modules

    TurnLedger            what is promised about turns (abstract)
      ^ implemented by
    RunCoordinator        life of the runs: coordinator + store + Hermes
      ^ EXTENDS
    MCRunCoordinator      instances        RunCoordinatorProofs     theorems
      ^ EXTENDS
    RunClaims             a documented claim the code does not keep

    RunFanout             events of one run: buffer, queues, pages
    VoiceSocket           one voice socket: receive loop, recording, submission, readers
    SocketAuth            the life of its authentication
    SpokenReplies         its spoken replies: synthesis, frames, playback of the page

    EventFeed             what the control channel promises a page (abstract)
      ^ implemented by
    RealtimeReplay        replay loop, page, row of the session, Hermes
    RealtimeRequests      mutations of realtime sessions
    RealtimeCall          calls of a page: media, microphone, turn mode, manual turns

    MC<module>            the instance of <module> for TLC
    <module>Proofs        theorems about <module>

The modules meet at the following seams. What RunCoordinator decides about a row
is nondeterminism in RunFanout (`Emit`, `EmitTerminal`, `GiveUp` come at any time)
and in VoiceSocket (`run` is the conversation as the coordinator leaves it). A
reader of events that finds the end of a run (`Finish` of VoiceSocket,
`DeliverNone` of RunFanout) may have a reply spoken: `Speak` of SpokenReplies. The
receive loop of VoiceSocket is `busy` in SocketAuth while it awaits. A session that
RealtimeCall asks for or gives back is a `create` or `delete` of RealtimeRequests, a
mode change or the end of a manual turn one of its manual controls; the control client
of a call is the page of RealtimeReplay.

### RunCoordinator

State. `status`, `runId`, `terminalAt`, `acknowledged` are the columns of a row
(`run_store.py:89-105`; an acknowledgement writes the failure category and closes
the row). `starting` is where a suspended `start()` stands, `active` the map
`_active`, `cached` the status in `ActiveRun.record`, `task` the consumer task
with the branch of `_consume` that calls `_reconcile`, `polls` and `document` the
poll loop with an answer not yet handled, `approval` a suspended `approve()`,
`shown` whether an approval request was emitted by this process. `hermes` and
`stream` are the environment: the submission, the run, and events not yet read.

| Actions | Code |
|---|---|
| `Start`, `StartFails`, `Post`, `StartAccepted`, `StartRefused`, `StartAmbiguous` | `start()` 65-163, `HermesApiClient.start_run` |
| `ConsumeEvent`, `StreamLost` | `_consume` 165-198, `_emit` 274-311 |
| `HermesAnswersPoll`, `PollRefused`, `PollUnreachable`, `PollSettled`, `PollWaiting`, `PollAgain`, `PollsExhausted` | `_reconcile` 200-272, `_terminal` 313-326 |
| `Approve`, `ApproveReturns`, `ApproveFails` | `approve()` 384-406 |
| `Stop`, `acknowledge_unknown`, `acknowledge_unrecoverable` | 408-429, `run_store.py` 338- |
| `Crash`, `Recover` | `close()` or a kill; `recover()` 431-444 with the cleanup of old rows |
| `HermesReceives`, `HermesAsks`, `HermesApproves`, `HermesFinishes`, `HermesStops`, `HermesForgets` | the Hermes API server, as the client sees it |

Abstractions. A Hermes run is named by its turn, which assumes that run ids are
unique. Payloads, sequence numbers, notices that change no status and the
subscriber queues are left to RunFanout. One approval of a run is in flight at a
time. The cleanup may remove any subset of the stamped rows: time is not modelled,
and sqlite is assumed to keep what it committed. A crash comes between two steps,
not between the two commits of `_terminal`. The configuration does not change.
`sessions` rows exist from the start.

### TurnLedger

One variable, `phase`. A turn is opened once, is undecided or uncertain, is
decided, and stays decided; a conversation has one open turn, and nobody opens a
turn while another of the same owner and target is uncertain. The refinement
mapping (`phase` in RunCoordinator) calls a turn decided when its row is stamped
with `terminal_at`; the stamp is never removed, although the status of a stamped
row can change, which is why `claim_one_run` and `ImplementsLedger` do not
contradict each other.

### RunFanout

State. `last`, `events`, `subscribers`, `queue` are those of one `ActiveRun`,
`status` and `final` the part of its row that matters here, `recorded` that status in
the cached record, by which `_emit` decides, `run` says whether the `ActiveRun` exists
and is in `_active`, `working` that its task goes on, `stopping` and `approving` that a
`stop()` or an `approve()` waits for Hermes with the `ActiveRun` in hand; `reopened` is
history. `reader` is `stream_subscription`, `cursor`, `tracking`, `shown` and
`expected` are the page: what it would resume from, whether it knows the run and
so moves its cursor (`useConsoleController.ts:361-374`), the last event it showed,
the next one it may be given.

| Actions | Code |
|---|---|
| `Begin` | `start()` 148-163 with the subscription of the submitting socket |
| `Emit`, `EmitTerminal`, `GiveUp`, `TaskEnds` | `_emit` 274-311 and `_terminal` from the task of the run: stream, polls, end of the polls |
| `Stop`, `StopReturns`, `Approve`, `ApproveReturns`, `CallFails` | `stop()` 408-422 and `approve()` 384-406: what they emit comes after the await, wherever the run is by then |
| `Acknowledge` | `acknowledge_unrecoverable` 427-429: `_active` is changed before the store refuses, and the record is not |
| `Connect`, `Disconnect` | `voice_socket.py` 380-420 and 547-553, `subscribe` and `_subscribe_active` 328-382 |
| `DeliverEvent`, `DeliverSnapshot`, `DeliverNone` | `stream_subscription`, `voice_socket.py` 128-159, and the page |
| `Reload` | a page loaded anew, `lib/recovery.ts` 25-81 |
| `Crash`, `Recover` | as above; the buffer of a recovered run is empty |

The sizes 250, 64 and the literal 62 of `_subscribe_active` are the constants
`MaxEvents`, `QueueSize` and `QueueSize - 2`; `SizesAssumption` states the
relation the code has between them. A websocket is reliable while it is
connected; a delivery to a page that is gone is a `Disconnect`. One `stop()` and one
`approve()` are in flight at a time. The run is the latest turn of its pages, so that
their filter on the active turn (`useConsoleController.ts:239-245`) drops nothing. The
removal of old rows is left to RunCoordinator.

### RealtimeRequests

State. `claimed`, `state`, `response` are the columns of a `realtime_requests` row
(an input stands for scope, operation and fingerprint); `stage`, `request`,
`input`, `reply`, `answer` are a call, that is one HTTP request or control frame;
`wire` holds the mutations on their way, `received` and `outcome` what Hermes
knows. `posted` is a history variable.

| Actions | Code (`realtime/`) |
|---|---|
| `create_session`, `delete_session`, `session_action`, `manual_control`, `resolve_approval` up to the first await; `Refuse` | `service.py` 92-512, `store.claim_request` |
| `request_result` | `service.py` 529-562 |
| `Send`, `CannotConnect`, `Ambiguous` | `HermesRealtimeClient._request` 175-231 |
| `TakeResult`, `TakePending`, `TakeFailure` | the rest of the handlers: parsers, `set_request_state`, `complete_request`, `_lookup_request` |
| `Restart` | the process stops with calls under way; the rows stay |
| `HermesReceives`, `HermesMissed`, `HermesDecides`, `HermesLooksUp` | the Hermes realtime API: a mutation may arrive after its call gave up |

Left out: `worker_command`, which makes no claim here; the ownership of sessions;
the removal of rows after 30 days (after which an id is new again); reading calls.
`None` is assumed to be none of the documents, a matter of representation.

### VoiceSocket

State. `link` is the connection as the server sees it, `attached` the flag
`socket_attached`, `loop` and `turn` what the receive loop is at, `recorder`,
`captured` and `late` the `RecordingSession`, `timer` the turn of the sleeping
`recording_timeout`, `work` the `begin_run` task of a turn, `run` what locks the
conversation, `readers` the `stream_subscription` tasks with `fresh` and `over` for
what is in their queues, `latest` the pair `subscribed_run_id`,
`subscription_task`. `told`, `spoiled` and `mismatched` are history.

| Actions | Code (`voice_socket.py`) |
|---|---|
| `Hello`, `HelloReady`, `HelloFails` | 323-420, with the resumption of a run |
| `RecordingStart`, `Audio`, `RecordingStop`, `RecordingCancel`, `TimerFires` | 192-230, 276-300, 422-470, `voice_session.py` |
| `Transcript` | 230-262: provider, filters, submission |
| `TextSubmit`, `Begin`, `BeginRefused`, `Accepted`, `Rejected`, `Ambiguous` | 161-190, 472-500, as `RunCoordinator.start` answers |
| `Forward`, `Finish` | `stream_subscription` 128-159 |
| `Disconnect`, `Close` | 545-555 |
| `RunEvent`, `RunEnds`, `RunLost`, `Acknowledge`, `ForeignBegins`, `ForeignAnswered` | the conversation, the subject of RunCoordinator |

The page gives each turn an id of its own (`useLegacyVoiceSession.ts`). A hello with
`resume_run_id` of a run that ended follows that one (`:402`), and a run that is
just being posted is not shown to a page that says hello (`:380`).

### SocketAuth

State. `expires` is that of `auth_context`, `observed`, `phase` and `wake` are the
two sleeps of `auth_watchdog` (`voice_socket.py` 100-114), `warned` the expiry of the
last `auth.expiring`, `inbox` the `auth.refresh` frames behind whatever the receive
loop awaits (`busy`). Time is in seconds. The event loop is taken to be on time:
the clock stands still while a task is due or the free receive loop has a frame.

| Actions | Code |
|---|---|
| `Warn`, `Expire` | `auth_watchdog`, with the restart of its loop when the expiry changed |
| `TakeRefresh` | `voice_socket.py` 312-321, `auth.py` 226-235 |
| `PageRefreshes` | a client, at any time; that of this console once for each warning, `lib/voiceClient.ts` 105-109 |
| `Turn`, `Leave`, `Tick` | the receive loop awaits; the page goes; the clock |

### SpokenReplies

State. `stage`, `chunk`, `cancelling` and `current` are the tasks of `TtsSession` and
where each is suspended, `marks` the remembered cancelled turns of
`RecordingSession`, `files` the files of `OwnedAudioStore`, `confirming` a
`tts.cancel` between its effect and its answer, `wire` and `asked` the frames in both
directions. `turn` is the latest turn the user began, `begun` those before it too, `unheard`
the turns whose end the page dropped. `active`, `incoming`, `lastChunk`, `chain`,
`playing`, `failed`, `unlocking` and `retried` are the page's `PlaybackQueue`, `held`
its one `controller`. A cancellation takes effect where the task is suspended
(`CancelTakesEffect`), and the task does nothing in between: that is so from Python 3.12
on, and the image of the console has 3.12.

| Actions | Code |
|---|---|
| `Speak`, `Begin`, `SendStart`, `SendAudio`, `SendEnd`, `SendComplete`, `SynthesisFails`, `CancelTakesEffect` | `tts_session.py` 48-160, a step per await |
| `TakeCancel`, `ConfirmCancel`, `Close` | 54-62, the cleanup of the socket |
| `CancelSpeech` | `console/useLegacyVoiceSession.ts` |
| `BeginTurn`, `IgnoreFrame` | `console/useConsoleController.ts` 393-425 and 239-245: events of another turn than the latest one are dropped, audio is not |
| `TakeStart`, `TakeAudio`, `TakeEnd`, `TakeComplete`, `TakeCancelled`, `PlayNext`, `ClipEnds`, `Retry`, `RetryPlays`, `RetryEnds` | `lib/playback.ts` |

### RealtimeReplay and EventFeed

State. `log`, `floor` and `session` are Hermes; `row` the state of the session's row;
`deleting` a DELETE Hermes did and whose answer is on its way; `stage`, `cursor`,
`sent`, `upto`, `polled` the replay task of `realtime/socket.py`; `wire` the frames on
their way; `page`, `view`, `seen`, `degraded` the `RealtimeControlClient`, which a page that
deletes its session has `closed` for good. An event is
its number. EventFeed has `log` and `view` only: an event happens, the page shows
the next one, or a snapshot takes it further on.

| Actions | Code |
|---|---|
| `Subscribe`, `Events`, `SendEvent`, `Gap`, `Recover`, `RecoverFails`, `PollFails`, `PollDies` | `realtime/socket.py` 23-100, `service.py` 313-333: an error that `replay_loop` catches is told to the page, the others end its task in silence |
| `ReadSession`, `Delete`, `Deleted` | `service.py` 692-728 and 167-233, `store.py` 243-252 |
| `Connect`, `TakeSnapshot`, `TakeEvent`, `TakeError` | `lib/realtimeControlClient.ts` 74-198 |
| `Close`, `HangsUp` | `useRealtimeSession.ts` 181-204, `realtimeControlClient.ts` 353-364: closed by its owner, which the socket notices later |
| `Drop` | the network, or the socket closed as too slow, silent or refused |
| `EventHappens`, `Forgets` | the Hermes realtime API |

### RealtimeCall

State. `current`, `opening`, `display`, `muted`, `mode`, `locked`, `turn`, `capture`, `modeAsk`
are the refs and states of `useRealtimeSession` (`mediaRef`, `connectRef`, `mediaState`,
`mutedRef`, `turnModeRef`, `manualRecoveryRequiredRef`, `manualTurnRef`,
`manualCaptureState`, `modeRequestRef`); `orphans` the requests of turns that are no longer
`manualTurnRef`. Of each call, `media` is where `RealtimeClient.open` is suspended, `owned` its
session, `track` and `peer` its microphone and peer connection, `control` its control
client. `sessionMode` and `wire` are Hermes: the turn mode of a session, and mode
changes that may still be made. `mixed`, `attached`, `told`, `released` are history.

| Actions | Code |
|---|---|
| `Connect`, `Switch`, `EndCall` | `useRealtimeSession.ts` 167-204, 228-335: `teardown` and what follows it |
| `GotMicrophone`, `MicrophoneDenied`, `Offer`, `OpenFails`, `Answered`, `Connected`, `ActivateFails`, `ReleaseDone` | `lib/realtimeClient.ts` 106-186, a step per await that matters |
| `PeerUp`, `PeerDrops`, `PeerReturns` | the peer connection of the browser, `realtimeClient.ts` 43-73 and 125-130 |
| `Attach`, `AttachFails`, `Reattach`, `ControlBreaks`, `SendInput` | `lib/realtimeControlClient.ts` 63-210, 293-322, `useRealtimeSession.ts` 267-299 |
| `ToggleMute`, `AskMode`, `ModeAccepted`, `ModeFails` | `useRealtimeSession.ts` 337-434 |
| `StartTurn`, `FinishTurn`, `TurnReply` | `useRealtimeSession.ts` 435-594 |
| `HermesDecides` | the Hermes realtime API |

The user acts as far as the page offers it (`useConsoleController.ts` 602-660): most actions
need the state `ready` (`Ready`), which is rendered from `display`. A change of
conversation, in the code a render and its effects, is one step. A rejected mode change
is treated by the page like one of unknown outcome, and so is one step here. Typed
input, interruptions, approvals and worker commands are `SendInput`: here they only
change what the control client says of itself.

## 3. What is checked

Every property of a passing run is broken by at least one variant of the modelled
code (the operators named `<definition>_<Variant>`), under the same
configuration.

| Run | Instance | States | Shows |
|---|---|---|---|
| `run_same` | 2 turns of one conversation, one asks for approval; lost streams, refused and unreachable polls, a Hermes restart; 2 polls, 1 crash | 868,000 | `NoUnlockedWork`, `OutcomeAgrees`, `OutcomeFinal`, `NeverReposted`, `ImplementsLedger`, `IInv` |
| `run_live` | 1 turn, every fault, 2 crashes | 15,100 | `SettlesOrIsStranded` |
| `fan_restart` | 2 pages, buffer of 2, queues of 3, 4 events, 1 crash, 1 reload | 1,664,800 | `QueueIsCurrent`, `EndIsTrue`, `OutcomeStands`, `ShownOnceInOrder`, `NoSilentGap` |
| `fan_live` | 1 page, queue of 6 for 4 events, 1 crash, 1 reload | 54,300 | `SubscriberHearsTheEnd` |
| `requests` | 3 calls, 1 request id, 5 inputs | 89,700 | `ForwardedOnce`, `AnswersAreTrue` |
| `voice` | 2 turns and a run from elsewhere | 179,500 | `OnlySoundRecordings`, `RecordingIsBounded`, `EverySubmissionIsAnswered`, `ReadersAreReleased` |
| `auth` | 16 seconds, seven expiries from 1 to 11, a notice of 3, a skew of 1, 2 waiting refreshes at any time | 816,700 | `ExpiryIsEnforced`, `ClosedAfterWarning` |
| `speech` | 2 turns of 2 sentences, 1 cancel, 1 retry, 1 remembered turn, 2 frames on the way | 554,600 | `OneSpeaker`, `NothingAfterCancelled`, `ClipsAreWhole`, `FilesAreRemoved`, `StaysSilent`, `PlaybackIsReleased` |
| `replay` | 3 events, 2 lost connections, 2 frames on the way | 223,700 | `ImplementsFeed`, `EventsArrive`, `RowSettles` |
| `call` | 2 calls, any number of commands and faults | 341,100 | `MicrophoneObeys`, `ModesAgree`, `SessionsAreReleased`, `LockHolds` |

The fence between two conversations of one owner and target is not exercised by
`run_same`, where the lock of the conversation is there first; it is covered by the
theorem `Refinement`, which holds for every assignment of turns to conversations.

Why the bounds are enough. Two turns are what a lock between two turns needs, and
the second can be opened, posted and lost while the first is in any state; a
third adds nothing that relates more than two rows. Two polls distinguish a first,
a further and a last poll of the 120. One crash per turn lets every volatile
variable be lost at any moment, and the run with two crashes lets recovery be
interrupted. Four events overflow a buffer of two and a queue of three and leave
events for after a restart. Three calls let two overlap and a third come later;
request ids do not interact except through the conflict test, for which inputs,
not ids, have to differ. Two turns of one socket let a timer, a stop, a discard
or a transcript of the first meet the second, and the run from elsewhere is any
third party. Sixteen seconds let a token that is refreshed before any warning, during
either of the two sleeps or in the instant one of them ends, by a token that expires
later or earlier, be warned of and closed. Turns with spoken replies are numbered as they
begin, which loses nothing, since their ids mean nothing. Two sentences tell the first
from the last; a second reply replaces, follows or is remembered beside the first,
and one place in the memory of cancelled turns makes it overflow. Three events make
a batch of more than one, with a gap before, within or after it, and two lost
connections let the second interrupt the recovery from the first. Two calls let the
first, wherever its opening is suspended, meet the second; three were checked as well
(3.7 million states).

`CHECK_DEADLOCK FALSE` is set everywhere: the instances have finitely many turns,
events and calls, and stop when these are used up.

### Fairness

Safety runs assume none. `run_live` assumes weak fairness of every continuation of
a coroutine (`Submit`, `Consume`, `Reconcile`, `FinishApproval`: the event loop
runs what is ready, and the HTTP calls have timeouts), of `Recover` (a supervisor
restarts the process), of Hermes answering a submission or a poll and ending a
run it was told to stop; and strong fairness of Hermes finishing a run it works
on, because approvals and stops can disable that step again and again. Nothing is
assumed of the owner, of faults or of crashes. `fan_live` assumes only that the
task of a subscription (`Deliver`) runs when there is something in its queue.

`voice` assumes that time passes, that every await of the socket ends (the
providers and the HTTP calls have timeouts), that a run ends or is found lost, and
strong fairness of `Begin` and `BeginRefused`: the lock of the conversation is an
`asyncio.Lock`, which is given to those who wait in the order they came, so a turn
gets it although others take it in between. `speech` assumes that a task is resumed
when its provider or its send is done, and that the page takes frames and plays
clips. `replay` assumes that Hermes answers or the call fails, that the socket polls
again after its pause, that the end of a connection is noticed, that a DELETE Hermes
did is answered, and that a page which has not closed its control client takes its frames
and reconnects when the connection is lost. A page that has closed it does not come back.
Nothing is assumed of the user in any of them.

### Properties with exceptions

These properties are stated with an exception the code needs. Each exception is a
limit of the code; but for `mixed`, of which a document says otherwise, no document names
it:

- `OutcomeFinal` and `OutcomeAgrees` leave out acknowledged runs: an approval that
  returns after the acknowledgement reopens the row (`claim_one_run`). In the same
  way it turns an `unrecoverable` run into `running` before the acknowledgement,
  since `unrecoverable` is not among `TERMINAL_STATUSES` (`run_coordinator.py:278`).
- `EndIsTrue` leaves the row open in the same case: a page that connected after the
  acknowledgement has heard that the run is over when the approval reopens it.
  `OutcomeStands` has no exception: it speaks of runs that ended with a terminal event,
  whose record is terminal too.
- `SettlesOrIsStranded` allows two ways to be stranded: `Orphaned`, a row that a
  crash left `submitting` (see below), and `Abandoned`, an open row whose
  task has ended, because 120 polls were used up, a poll could not be answered
  twice, or the poll found the run waiting for approval and the owner stopped it
  afterwards (`run_coordinator.py:202`, `:203`, `:271`).
- `NoSilentGap` holds within one life of the console: the buffer of a recovered
  run is empty, and `_subscribe_active` (`:332`) looks for a gap only in a buffer
  that has events.
- `NothingAfterCancelled` and `StaysSilent` leave out turns that dropped out of the
  bounded memory of cancelled turns (`voice_session.py:108`): their reply is spoken
  although the page was told that it is cancelled.
- `StaysSilent` speaks of the promise chain and of a `tts.cancelled` that the page took.
  A clip that `retry()` read before the cancel starts to sound after it
  (`lib/playback.ts:133`), and a `tts.cancelled` of an earlier turn than the latest one is
  dropped (`useConsoleController.ts:245`), so that what is queued of it plays on.
- `PlaybackIsReleased` leaves out a turn whose end the page does not hear (`Forsaken`): its
  reply failed or was replaced, or the user had begun another turn when `tts.complete` or
  `tts.cancelled` came, which is then dropped (`useConsoleController.ts:245`). The page stays
  with it, and later replies are not played, until the user cancels (`lib/playback.ts:86`).
- `RecordingIsBounded` leaves out a recording that a stop or discard of another turn
  met: it has lost its timer (`voice_socket.py:216`), and ends with the next audio
  that comes too late, or with the socket.
- `ReadersAreReleased` leaves out the reader of a run that was lost and then replaced
  by a later one: nobody cancels it, and its queue gets no end.
- `EventsArrive` ends with a replay that has ended and with a page that closed. The page is
  told of a `RealtimeProxyError` in a poll. It is not told of any other error there
  (`ValueError` of `validate_identifier`, an error of sqlite; `realtime/socket.py:89`), nor
  of a failure in the recovery from a gap (`:91`).
- `RowSettles` ends with the replay too, if its last poll wrote the old state, and with a
  page that closed its control client, as the one that deletes its own session does first
  (`console/useRealtimeSession.ts:191`): the poll in flight may be the last, and the row
  stays active.
- `MicrophoneObeys` speaks of calls whose control client was attached by the first
  attempt. Before, and for good if that attempt fails and the control client reconnects
  by itself, the microphone is live although the page says that it is muted, until
  mute is toggled (`console/useRealtimeSession.ts:291`).
- `LockHolds`, `ModesAgree` and one line of `MicrophoneObeys` leave out calls in which a
  manual turn was started while a mode change was on its way (`mixed`): the answer to the one
  then lifts the lock that the failure of the other set. Here a document differs:
  "Rejected or uncertain manual operations lock the session degraded until a new
  Realtime generation is created"
  (`docs/memory/2026-07-15/phase-6-7-experience-memory-2026-07-15.md:43`).
- `ExpiryIsEnforced` allows the later of two expiries when a refresh brings the
  earlier one: the watchdog goes on with its sleep (`voice_socket.py:105`).
- `ClosedAfterWarning` speaks of the tokens the receive loop has taken: a refresh that
  waits while the loop awaits something else does not keep the socket open
  (`voice_socket.py:314`).

### Claims of the documents that do not hold

Each of these runs ends with a counterexample. `PROJECT.json` quotes the text.

| Run | Claim | What happens |
|---|---|---|
| `claim_one_run` | one open run per conversation | a late approval reopens an acknowledged run while the next one is open |
| `claim_overlap` | clips never overlap | the retry of a clip the browser refused plays beside the next clip of the queue, and a cancel stops one of the two |

The models show further differences, which follow from the actions and exceptions
above and have no run of their own:

- A crash during the POST leaves the row `submitting` (`run_coordinator.py:434`
  recovers other rows): no fence is raised, and no acknowledgement accepts it.
- A `start()` that passed the check of the fence (`run_coordinator.py:83`) posts after
  the fence was raised.
- A recovered run can be approved although its request was shown by a process that
  is gone (`run_coordinator.py:386`).
- A 2xx reply without a run id is recorded as a rejection (`hermes_client.py:198`).
- A full queue is dropped and its reader waits without a gap snapshot
  (`run_coordinator.py:305`); where the terminal event takes the last place, None is left
  out (`:308`). `SubscriberHearsTheEnd` is checked where no queue overflows.
- An acknowledgement of a run that is not unrecoverable takes it out of `_active`
  (`run_coordinator.py:428`): the run goes on, and a page that connects gets a snapshot and
  no events.
- "generation-aware playback queue that drops stale/canceled TTS chunks" (`README.md:23` of
  the repository) is not true of a clip under retry and of a cancellation that the page
  drops, see `StaysSilent` above.
- The calls of a page share one `mediaState`: the release of a failed call that ends after
  the next call was opened, or a peer connection that recovers, leaves it `failed` while
  the call is fine, and Reconnect finds nothing to do (`lib/realtimeClient.ts:127`, `:181`,
  `console/useRealtimeSession.ts:237`).

## 4. What is proved

### Runs

`RunCoordinatorProofs` holds for any set of turns, any assignment to conversations,
owners and targets, any subset of the faults and any bounds. Its assumptions are
those of `RunCoordinator` (`TurnsAssumption`, `EnvironmentAssumption`,
`BoundsAssumption`: types of the constants and positive bounds); TLC evaluates them
in every run.

| Theorem | States |
|---|---|
| `Coherence` | `Spec => []IInv` |
| `TypeCorrect` | `Spec => []TypeOK` |
| `WorkIsLocked` | `Spec => []NoUnlockedWork`, when replies are not garbled |
| `OutcomesAgree` | `Spec => []OutcomeAgrees` |
| `OutcomesAreFinal` | `Spec => OutcomeFinal` |
| `PostedOnce` | `Spec => NeverReposted` |
| `Refinement` | `Spec => Ledger!Spec` |

The argument. None of the safety properties is inductive: that a closed row stays
closed depends on the record that `_emit` consults, which agrees with the row only
because every path that writes the row of a live `ActiveRun` also replaces the
record, the acknowledgements excepted; that an outcome is Hermes' depends on what
is still unread in the stream or in a poll. `IInv` collects these relations:

- `Unborn`, `StartOwnsRow`, `RunIdStatus`: which statuses go with a suspended
  `start()`, with a run id, and with the state of the submission in Hermes;
- `CacheCoherent`: a record belongs to an accepted run and equals the row unless
  its owner closed the row;
- `TaskFollowsOpenRun`: a consumer or reconciliation works on an open row. An
  approval cannot close one, and whoever closes it ends the task;
- `Stamped`: a closed row is stamped, and a stamped row is closed or acknowledged;
- `ReportsAreTrue`: an unread terminal event or poll answer says what Hermes says;
- `DownIsIdle`: nothing of a stopped process remains.

There is one lemma per action (`Start_Step`, ...) with one step per conjunct, lemmas
on `_emit` (`EmitFacts`, `EmitTyped`) and on moves of Hermes (`SilentMove`,
`SendTyped`, `ReportingMove`), and `run_same` checks `IInv` itself.
`WorkIsLocked` adds the relation between the row and Hermes on top of `IInv`;
`Refinement` shows that every step is a ledger step or leaves `phase` unchanged.

### Realtime mutations

`RealtimeRequestsProofs` holds for any calls, requests and inputs. Theorems:
`Consistent` (`[]IInv`), `TypeCorrect`, `SentOnce` (`[]ForwardedOnce`), `AnswersTrue`
(`[]AnswersAreTrue`). The inductive invariant
adds five facts: `CompleteIsDecided` (a row that is complete keeps the decision of
Hermes), `Staged` (the variables of a call go with its stage), `Claimed` (the row keeps
the input of every call that was not refused because of it), `Agreed` (Hermes has
decided on what the row says, and a reply that is a result is its decision) and `Alone`,
which is `ForwardedOnce` of the calls that are about to send as well: the one that
claimed the id has not posted yet when a second one arrives. One lemma serves all
arrivals (`ArriveStep`), one all steps of a handler (`HandlerStep`), one all of Hermes
(`HermesStep`).

### Realtime replay

`RealtimeReplayProofs` proves `Replayed` (`[]IInv`), `TypeCorrect` and `Refinement`
(`Spec => ImplementsFeed`) for any numbers of events, lost connections and frames on
the way. That the page shows the events in order is not inductive: it depends on
what is on the wire. `Wired` says that each frame leads on from where the one before
it leaves the page, `Positioned` that the socket goes on where the page will be when
it has taken them all (`Last`), `Connected` that a page that is not ready gets a snapshot
first. `SendStep` and `TakeStep` keep these when a frame is put on the wire or taken, and
`LostStep` is about what the socket still sends to a page that has closed.

### Authentication

`SocketAuthProofs` proves `Watched` (`[]IInv`), `TypeCorrect`, `ExpiryEnforced` and
`WarnedBeforeClosed` for any notice, skew and expiries. The invariant adds that the
watchdog never sleeps beyond the moment it has to close (`SleepsInTime`), nor, once
it has warned, less than the token it warned of is good (`SleepsEnough`).

### Voice socket

`VoiceSocketProofs` proves `Ordered` (`[]IInv`), `TypeCorrect` and `SoundRecordings`
(`[]OnlySoundRecordings`) for any turns. `Sound` follows a turn from its recording to
its transcript to its submission: it is not spoiled at any of these but in a recording
that is late already, and goes on only after the page was told that it is stopped.

### Fan-out

`RunFanoutProofs` proves `Fanout` (`[]IInv`), `FanoutTyped` (`[]TypeOK`), `QueuesAreCurrent`
(`[]QueueIsCurrent`), `OutcomesStand` (`[]OutcomeStands`), `EndsAreTrue` (`[]EndIsTrue`),
`ShownOnce` (`ShownOnceInOrder`) and `GapsAreAnnounced` (`NoSilentGap`) for any pages,
any number of events, crashes and reloads, and any sizes of buffer and queue that
`SizesAssumption` admits (a queue has two places more than the backlog it may start
with, the buffer more than the backlog). None of them is inductive. What a page is shown
next depends on what waits in its queue, and that on what the buffer of the run kept
when it subscribed:

- `Buffered`: the buffer ends with the last event, has no hole, and lacks only what was
  trimmed, unless a restart emptied it;
- `Queued`, `Linked`: what waits has happened and is news to a page that follows the run;
  it waits in order and without a hole, behind the snapshot if there is one, and there is
  one `None`, which only the notice of a late `stop()` can follow;
- `Newest`: the newest event that waits for a subscriber is the last of the run, so
  that an event that is emitted can be put behind it;
- `Readers`, `Seen`: only a client that reads has a queue, and the cursor of a page that
  follows the run is what it was shown;
- `Gapless`: without a restart the head of a queue is what the page expects;
- `Outcome`: a task that works has an open run, in the row and in its record; after a
  terminal event both say so, so that no approval in flight writes the row again. After an
  acknowledgement only the row does, which is where `EndIsTrue` needs its exception;
- `Ends`: `None` waits only behind what says that the run is over, and for a subscriber
  only behind the terminal event.

The lemmas `RecordKeeps`, `PendingIs`, `ReplayIs`, `PublishPuts` and `PublishEndPuts` say
position by position what the operators return. One lemma serves every step that emits
(`Emission`), and each other action has one of its own, with one step per conjunct.
`TypeOK` needs all of this too: that a queue does not exceed its size at a
subscription follows from the literal 62 of `_subscribe_active`.

### Spoken replies

`SpokenRepliesProofs` holds for any turns, sentences, cancellations and frames on the
way, and any size of the memory of cancelled turns.

| Theorem | States |
|---|---|
| `Orderly`, `FilesRemoved`, `OneSynthesis` | `[]IInv`, `[]FilesAreRemoved`, `[]OneTask` |
| `RepliesBegun` | `[]Begun` |
| `SpeechTyped` | `[]TypeOK` |
| `Obeyed` | `[](IInv /\ Typed /\ Obedient)` |
| `OneSpeaks`, `CancelledIsLast` | `[]OneSpeaker`, `[]NothingAfterCancelled` |
| `SilentOnceCancelled` | `StaysSilent` |
| `WholeClips` | `[]ClipsAreWhole` |

The argument has three layers. `IInv` is about the tasks: a file is there only between
the provider and the last send of its reply (`Filed`), and every start or cancel reaches
the one task that is not cancelled yet (`OneTask`). `Obedient` is about a cancelled turn:
once a cancellation is confirmed or on the wire, its reply either has not begun and is
marked, or does not speak any more, or its mark was pushed out (`Heeded`); once the page
has taken it, the turn is neither played nor mentioned on the wire (`Quiet`). The lemmas
`Forgotten`, `MarkKeeps` and `MarkTurnKeeps` say what `cancel()` and `forget_cancel()` leave
in the dictionary. `Audible` is about clips: audio frames carry no turn, so that a clip is
whole only because of what can be next to what on the wire. Each frame follows the one
before it (`Links`), the first one fits the clip that is arriving (`Ready`), what the
task sends next fits behind the last one (`Fits`), and nothing is heard of a reply
before its first sentence or after its completion (`Flowing`, `Closed`, `Kept`).
`OrderedPut`, `OrderedTaken`, `FitsAfter` and `FitsTaken` keep this when a frame is sent
or taken. The frames that the page ignores are a case of their own (`IgnoredReceived`):
a clip whose end is dropped goes on arriving and takes the audio of the next reply, so
that what is said of the clip that arrives (`Arriving`) is said of the latest turn only;
a turn that begins has none, since a reply comes only to a turn that has begun
(`Begun`). The last conjunct of `TypeOK`, that a clip that arrives is of the turn the
page plays, needs this layer: a mark of completion would otherwise let go of a turn in
the middle of a clip.

All of these invariants were evaluated by TLC on the instance of `speech` as well.

### Realtime calls

`RealtimeCallProofs` proves `Coherent` (`[]IInv`), `TypeCorrect`, `MicrophoneSafe`,
`SessionsReleased`, `AgreedModes` and `LockIsHeld`, all properties of the run `call`, for any
number of calls. None of them is inductive. `Owned` says at which point of its opening a
session is known, owned and released; `Opened` that only the current call is controlled,
with its media connected and its microphone there; `Quiet` that nothing is asked and
nothing locked before the control client is attached; `OneAsk` that requests do not
overlap but in calls that are `mixed`, so that no answer is left to lift a lock; `Asked` that
Hermes is in the mode of the page or in the one it is asking for, and has nothing else
to do for this call. One lemma per action, one step per conjunct the action can disturb.

### Only model-checked

Liveness (`SettlesOrIsStranded`, `SubscriberHearsTheEnd`, `RecordingIsBounded`,
`EverySubmissionIsAnswered`, `ReadersAreReleased`, `PlaybackIsReleased`, `EventsArrive`,
`RowSettles`) and everything about `ENABLED`: TLAPS has no rules for them in the version
used. Every invariant and every action property of a passing run is proved, and so are both
refinements. `WorkIsLocked` has the hypothesis that replies are not garbled, as
`run_same` has.

## 5. Plan

Order of the modules: the life of a run first, since everything the user can lose
hangs on it; then what the browser is told of it; then the realtime mutations,
which have the second durable store; then the voice socket with its recordings,
spoken replies and authentication, the realtime replay and the calls of a page. These
are done. Left:

1. **ConsoleController**: active run, approval dialog and recovery entry of the
   page, composed with RunFanout.

Proofs left: no safety property of a passing run. What remains to be stated and
proved are abstract specifications of the fan-out and of spoken replies, as `EventFeed`
is one of the control channel.

## 6. Not modelled

Configuration, the command line, diagnostics and the smoke test (no state that
changes); what speech providers, audio formats and text filters make of their input
(their outcomes are choices in VoiceSocket and SpokenReplies); the control frames of
the realtime socket, which call the operations of RealtimeRequests, and the commands
of realtime workers; WebRTC and the audio of a call; the fake target and the end-to-end
fixtures (the models take Hermes as the client sees it); `run_manager.py` (used by one
unit test); rendering, static serving, release gates and container files. Tokens, key
sets and path checks are not the subject of these modules. `PROJECT.json` says for
each component what is left out.
