----------------------------- MODULE VoiceSocket -----------------------------
(***************************************************************************)
(* One voice socket: the receive loop, the tasks that begin a run and the  *)
(* readers of run events of handle_voice_socket (voice_socket.py of        *)
(* backend/voice_console), its RecordingSession with the timer of a        *)
(* recording (voice_session.py), and the speech-to-text call (providers).  *)
(*                                                                         *)
(* The conversation the socket opens is what the run coordinator makes of  *)
(* it (RunCoordinator): free, or locked by one run that is being posted,   *)
(* runs, may have been accepted, or cannot be recovered.  The run may also *)
(* come from elsewhere: another browser, or this page before it            *)
(* reconnected.                                                            *)
(*                                                                         *)
(* The page sends the frames in any order.  It gives every turn an id of   *)
(* its own, so that it starts a recording or submits a text once per turn; *)
(* a stop or a discard may name the turn of an earlier recording.          *)
(***************************************************************************)
EXTENDS FiniteSets

CONSTANTS
  Turns,    (* turns of this page                       *)
  Foreign,  (* the run that comes from elsewhere        *)
  None      (* no turn                                  *)

ASSUME NoTurnAssumption == None # Foreign /\ {None, Foreign} \cap Turns = {}

VARIABLES
  link,        (* the connection is up, as far as the server can tell      *)
  attached,    (* socket_attached: no send has failed yet                  *)
  loop,        (* what the receive loop is at                              *)
  turn,        (* the turn it has transcribed                              *)
  ready,       (* hello_received                                           *)
  recorder,    (* RecordingSession.turn_id                                 *)
  captured,    (* there is audio in its buffer                             *)
  late,        (* the recording is over its maximal time                   *)
  timer,       (* the turn of the recording_timeout task that sleeps       *)
  source,      (* whether the page records or types a turn                 *)
  work,        (* begin_run of a turn                                      *)
  run,         (* the run that locks the conversation, and its state       *)
  readers,     (* stream_subscription tasks, by run                        *)
  fresh,       (* runs with an event in the queue of their reader          *)
  over,        (* runs with the end of events in that queue                *)
  latest,      (* subscribed_run_id and subscription_task                  *)
  told,        (* the page was told that a turn is stopped or discarded,   *)
               (* or its outcome: events, a refusal, acceptance unknown    *)
  spoiled,     (* turns whose recording was too long, too large, discarded *)
  mismatched   (* a stop or discard of another turn met this recording     *)

recordingVars == <<recorder, captured, late, timer, spoiled, mismatched>>
runVars == <<run, readers, fresh, over, latest>>
vars == <<link, attached, loop, turn, ready, recordingVars, source, work, runVars, told>>

Runs == Turns \cup {Foreign}
Free == [by |-> None, state |-> "free"]
Locked(by, state) == [by |-> by, state |-> state]

Submitted(t) == work[t] # "none"

-----------------------------------------------------------------------------
(* Frames to the page *)

\* A send that fails detaches the socket; one after that is not tried.
Send == attached' = (attached /\ link)

\* A message the properties are about.
Tell(t, message) ==
  /\ Send
  /\ told' = IF link /\ attached THEN told \cup {<<t, message>>} ELSE told

-----------------------------------------------------------------------------
(* hello *)

Hello ==
  /\ loop = "receive" /\ link
  /\ ~ready
  /\ loop' = "hello"
  /\ UNCHANGED <<link, attached, turn, ready, recordingVars, source, work, runVars, told>>

\* The target does not answer, or lacks what the console needs.
HelloFails ==
  /\ loop = "hello"
  /\ loop' = "receive"
  /\ UNCHANGED <<link, attached, turn, ready, recordingVars, source, work, runVars, told>>

Subscribe(r) ==
  /\ readers' = [readers EXCEPT ![r] = "reading"]
  /\ latest' = r

\* The socket follows the run that locks the conversation, if it may still
\* end, or else the run the page asks to resume: one that is lost or ended.
HelloReady ==
  /\ loop = "hello"
  /\ loop' = "receive"
  /\ ready' = TRUE
  /\ \/ /\ run.state \in {"running", "lost"}
        /\ Subscribe(run.by)
        /\ fresh' = fresh \cup {run.by}
        /\ UNCHANGED over
     \/ /\ run.state = "free"
        /\ Subscribe(Foreign)
        /\ fresh' = fresh \cup {Foreign}
        /\ over' = over \cup {Foreign}
     \/ /\ run.state # "running"
        /\ UNCHANGED <<readers, latest, fresh, over>>
  /\ UNCHANGED <<link, attached, turn, recordingVars, source, work, run, told>>

-----------------------------------------------------------------------------
(* The recording *)

Frame == loop = "receive" /\ link /\ ready

Reset ==
  /\ recorder' = None
  /\ captured' = FALSE
  /\ late' = FALSE
  /\ mismatched' = FALSE

\* Variant: the recording has no timer.
Arm_Nothing(t) == timer' = None
\* Variant: a timer that still sleeps is left to sleep.
Arm_Once(t) == timer' = IF timer = None THEN t ELSE timer
Arm(t) == timer' = t

RecordingStart(t) ==
  /\ Frame
  /\ source[t] = "none"
  /\ source' = [source EXCEPT ![t] = "voice"]
  /\ IF run.state = "free" /\ recorder = None
     THEN /\ recorder' = t
          /\ captured' = FALSE /\ late' = FALSE /\ mismatched' = FALSE
          /\ Arm(t)
          /\ Send /\ UNCHANGED told
          /\ UNCHANGED spoiled
     ELSE Send /\ UNCHANGED told /\ UNCHANGED recordingVars
  /\ UNCHANGED <<link, loop, turn, ready, work, runVars>>

\* Variant: audio after the maximal time is taken.
Overdue_Never == FALSE
Overdue == late

\* A binary frame, too late, too large, or neither.
Audio ==
  /\ Frame
  /\ recorder # None
  /\ \/ /\ ~Overdue
        /\ captured' = TRUE
        /\ UNCHANGED <<recorder, late, spoiled, mismatched, attached, told>>
     \/ /\ Reset
        /\ spoiled' = spoiled \cup {recorder}
        /\ Send /\ UNCHANGED told
  /\ UNCHANGED <<link, loop, turn, ready, timer, source, work, runVars>>

\* stop_recording, up to the await of the transcript.  The timer is gone
\* whatever the turn of the frame.
RecordingStop(t) ==
  /\ Frame
  /\ source[t] = "voice"
  /\ timer' = None
  /\ IF recorder # t
     THEN /\ mismatched' = (recorder # None)
          /\ UNCHANGED <<recorder, captured, late, loop, turn>>
          /\ Send /\ UNCHANGED told
     ELSE /\ Reset
          /\ IF captured /\ ~Overdue
             THEN loop' = "stt" /\ turn' = t /\ Tell(t, "recording.stopped")
             ELSE UNCHANGED <<loop, turn>> /\ Send /\ UNCHANGED told
  /\ UNCHANGED <<link, ready, spoiled, source, work, runVars>>

\* Variant: the audio of a discarded recording is transcribed all the same.
Discard_Transcribe(t) ==
  IF recorder = t
  THEN /\ Reset /\ spoiled' = spoiled \cup {t}
       /\ IF captured THEN loop' = "stt" /\ turn' = t ELSE UNCHANGED <<loop, turn>>
  ELSE mismatched' = (recorder # None)
       /\ UNCHANGED <<recorder, captured, late, spoiled, loop, turn>>
Discard(t) ==
  /\ IF recorder = t
     THEN Reset /\ spoiled' = spoiled \cup {t}
     ELSE mismatched' = (recorder # None) /\ UNCHANGED <<recorder, captured, late, spoiled>>
  /\ UNCHANGED <<loop, turn>>

RecordingCancel(t) ==
  /\ Frame
  /\ source[t] = "voice"
  /\ timer' = None
  /\ Discard(t)
  /\ Tell(t, "recording.discarded")
  /\ UNCHANGED <<link, ready, source, work, runVars>>

\* max_recording_wall_seconds have passed since the start.
TimePasses ==
  /\ recorder # None /\ ~late
  /\ late' = TRUE
  /\ spoiled' = spoiled \cup {recorder}
  /\ UNCHANGED <<link, attached, loop, turn, ready, recorder, captured, timer, mismatched,
                 source, work, runVars, told>>

\* recording_timeout: it ends the recording if that is still its own.
TimerFires ==
  /\ timer # None
  /\ recorder = timer => late
  /\ timer' = None
  /\ IF recorder = timer
     THEN Reset /\ Send /\ UNCHANGED told
     ELSE UNCHANGED <<recorder, captured, late, mismatched, attached, told>>
  /\ UNCHANGED <<link, loop, turn, ready, spoiled, source, work, runVars>>

-----------------------------------------------------------------------------
(* Submission *)

\* A transcript, no provider, or an error of it; every provider removes the
\* file it wrote.
Transcriptions == {"text", "unavailable", "failed"}

\* The audio may be too short or too quiet to be speech, and the text may be
\* one that models make up.  The turn is submitted even when the page is gone.
Transcript ==
  /\ loop = "stt"
  /\ loop' = "receive"
  /\ turn' = None
  /\ \E heard \in Transcriptions, speech \in BOOLEAN :
       work' = IF speech /\ heard = "text" THEN [work EXCEPT ![turn] = "begin"] ELSE work
  /\ Send /\ UNCHANGED told
  /\ UNCHANGED <<link, ready, recordingVars, source, runVars>>

TextSubmit(t) ==
  /\ Frame
  /\ source[t] = "none"
  /\ source' = [source EXCEPT ![t] = "text"]
  /\ IF run.state = "free"
     THEN work' = [work EXCEPT ![t] = "begin"] /\ Send /\ UNCHANGED told
     ELSE UNCHANGED work /\ Send /\ UNCHANGED told
  /\ UNCHANGED <<link, loop, turn, ready, recordingVars, runVars>>

\* RunCoordinator.start waits for its lock while another turn is posted.
Begin(t) ==
  /\ work[t] = "begin"
  /\ run.state = "free"
  /\ work' = [work EXCEPT ![t] = "posting"]
  /\ run' = Locked(t, "posting")
  /\ UNCHANGED <<link, attached, loop, turn, ready, recordingVars, source, readers, fresh,
                 over, latest, told>>

BeginRefused(t) ==
  /\ work[t] = "begin"
  /\ run.state \in {"running", "unknown", "lost"}
  /\ work' = [work EXCEPT ![t] = "done"]
  /\ Tell(t, "outcome")
  /\ UNCHANGED <<link, loop, turn, ready, recordingVars, source, runVars>>

\* The socket follows the run from its first event, also when it was closed
\* meanwhile: the reader finds that out when it sends.
Accepted(t) ==
  /\ work[t] = "posting"
  /\ work' = [work EXCEPT ![t] = "done"]
  /\ run' = Locked(t, "running")
  /\ Subscribe(t)
  /\ fresh' = fresh \cup {t}
  /\ UNCHANGED <<link, attached, loop, turn, ready, recordingVars, source, over, told>>

Rejected(t) ==
  /\ work[t] = "posting"
  /\ work' = [work EXCEPT ![t] = "done"]
  /\ run' = Free
  /\ Tell(t, "outcome")
  /\ UNCHANGED <<link, loop, turn, ready, recordingVars, source, readers, fresh, over, latest>>

\* Variant: the page is not told of an uncertain submission.
Ambiguous_Silently(t) ==
  /\ work[t] = "posting"
  /\ work' = [work EXCEPT ![t] = "done"]
  /\ run' = Locked(t, "unknown")
  /\ UNCHANGED <<link, attached, loop, turn, ready, recordingVars, source, readers, fresh,
                 over, latest, told>>
Ambiguous(t) ==
  /\ work[t] = "posting"
  /\ work' = [work EXCEPT ![t] = "done"]
  /\ run' = Locked(t, "unknown")
  /\ Tell(t, "outcome")
  /\ UNCHANGED <<link, loop, turn, ready, recordingVars, source, readers, fresh, over, latest>>

-----------------------------------------------------------------------------
(* The conversation *)

Queued(r) == readers[r] = "reading"

RunEvent ==
  /\ run.state = "running"
  /\ Queued(run.by)
  /\ fresh' = fresh \cup {run.by}
  /\ UNCHANGED <<link, attached, loop, turn, ready, recordingVars, source, work, run, readers,
                 over, latest, told>>

RunEnds ==
  /\ run.state = "running"
  /\ run' = Free
  /\ IF Queued(run.by)
     THEN fresh' = fresh \cup {run.by} /\ over' = over \cup {run.by}
     ELSE UNCHANGED <<fresh, over>>
  /\ UNCHANGED <<link, attached, loop, turn, ready, recordingVars, source, work, readers,
                 latest, told>>

\* Hermes does not know the run any more: an event, and no end of events.
RunLost ==
  /\ run.state = "running"
  /\ run' = Locked(run.by, "lost")
  /\ fresh' = IF Queued(run.by) THEN fresh \cup {run.by} ELSE fresh
  /\ UNCHANGED <<link, attached, loop, turn, ready, recordingVars, source, work, readers, over,
                 latest, told>>

\* run.acceptance_unknown.acknowledge and run.unrecoverable.acknowledge.
Acknowledge ==
  /\ Frame
  /\ run.state \in {"unknown", "lost"}
  /\ run' = Free
  /\ UNCHANGED <<link, attached, loop, turn, ready, recordingVars, source, work, readers,
                 fresh, over, latest, told>>

\* Elsewhere a turn is submitted to this conversation.
ForeignBegins ==
  /\ run.state = "free"
  /\ readers[Foreign] = "none"
  /\ run' = Locked(Foreign, "posting")
  /\ UNCHANGED <<link, attached, loop, turn, ready, recordingVars, source, work, readers,
                 fresh, over, latest, told>>

ForeignAnswered ==
  /\ run = Locked(Foreign, "posting")
  /\ run' \in {Free, Locked(Foreign, "running"), Locked(Foreign, "unknown")}
  /\ UNCHANGED <<link, attached, loop, turn, ready, recordingVars, source, work, readers,
                 fresh, over, latest, told>>

-----------------------------------------------------------------------------
(* stream_subscription *)

Gone(r) == readers' = [readers EXCEPT ![r] = "gone"]

\* The next event goes to the page, or shows that the page is gone.
Forward(r) ==
  /\ Queued(r)
  /\ r \in fresh
  /\ fresh' = fresh \ {r}
  /\ IF r \in Turns THEN Tell(r, "outcome") ELSE Send /\ UNCHANGED told
  /\ IF attached' THEN UNCHANGED readers ELSE Gone(r)
  /\ UNCHANGED <<link, loop, turn, ready, recordingVars, source, work, run, over, latest>>

\* The end of events.  A reply may be spoken now (SpokenReplies).
Finish(r) ==
  /\ Queued(r)
  /\ r \in over \ fresh
  /\ Gone(r)
  /\ UNCHANGED <<link, attached, loop, turn, ready, recordingVars, source, work, run, fresh,
                 over, latest, told>>

Disconnect ==
  /\ link
  /\ link' = FALSE
  /\ UNCHANGED <<attached, loop, turn, ready, recordingVars, source, work, runVars, told>>

\* Variant: the reader is left to itself.
Release_Nothing == UNCHANGED readers
Release ==
  IF latest # None /\ readers[latest] = "reading" THEN Gone(latest) ELSE UNCHANGED readers

\* The loop receives the disconnect and cleans up; the recording session goes
\* with the handler.
Close ==
  /\ loop = "receive" /\ ~link
  /\ loop' = "closed"
  /\ attached' = FALSE
  /\ timer' = None
  /\ Reset
  /\ Release
  /\ UNCHANGED <<link, turn, ready, spoiled, source, work, run, fresh, over, latest, told>>

-----------------------------------------------------------------------------

Init ==
  /\ link = TRUE /\ attached = TRUE
  /\ loop = "receive"
  /\ turn = None
  /\ ready = FALSE
  /\ recorder = None /\ captured = FALSE /\ late = FALSE /\ timer = None
  /\ source = [t \in Turns |-> "none"]
  /\ work = [t \in Turns |-> "none"]
  /\ run \in {Free} \cup {Locked(Foreign, s) : s \in {"posting", "running", "unknown", "lost"}}
  /\ readers = [r \in Runs |-> "none"]
  /\ fresh = {} /\ over = {}
  /\ latest = None
  /\ told = {}
  /\ spoiled = {}
  /\ mismatched = FALSE

Recording ==
  \/ Audio \/ TimePasses \/ TimerFires
  \/ \E t \in Turns : RecordingStart(t) \/ RecordingStop(t) \/ RecordingCancel(t)

Answered(t) == Begin(t) \/ BeginRefused(t) \/ Accepted(t) \/ Rejected(t) \/ Ambiguous(t)

Next ==
  \/ Hello \/ HelloFails \/ HelloReady
  \/ Recording
  \/ Transcript
  \/ \E t \in Turns : TextSubmit(t) \/ Answered(t)
  \/ RunEvent \/ RunEnds \/ RunLost \/ Acknowledge \/ ForeignBegins \/ ForeignAnswered
  \/ \E r \in Runs : Forward(r) \/ Finish(r)
  \/ Disconnect \/ Close

Spec == Init /\ [][Next]_vars

\* Time passes, Hermes and the providers answer or time out, every run ends
\* or is found lost, and the event loop resumes its tasks; the lock of the
\* conversation is given to those who wait for it in the order they came.
Fairness ==
  /\ WF_vars(TimePasses) /\ WF_vars(TimerFires)
  /\ WF_vars(HelloFails \/ HelloReady) /\ WF_vars(Transcript)
  /\ WF_vars(Close)
  /\ WF_vars(RunEnds \/ RunLost) /\ WF_vars(ForeignAnswered)
  /\ \A t \in Turns : SF_vars(Begin(t) \/ BeginRefused(t))
                      /\ WF_vars(Accepted(t) \/ Rejected(t) \/ Ambiguous(t))
  /\ \A r \in Runs : WF_vars(Forward(r)) /\ WF_vars(Finish(r))

FairSpec == Spec /\ Fairness

-----------------------------------------------------------------------------
(* Properties *)

TypeOK ==
  /\ {link, attached, ready, captured, late, mismatched} \subseteq BOOLEAN
  /\ loop \in {"receive", "hello", "stt", "closed"}
  /\ {turn, recorder, timer} \subseteq Turns \cup {None}
  /\ (turn # None) = (loop = "stt")
  /\ recorder # None /\ timer # None => recorder = timer
  /\ work \in [Turns -> {"none", "begin", "posting", "done"}]
  /\ run.by \in Runs \cup {None}
  /\ run.state \in {"free", "posting", "running", "unknown", "lost"}
  /\ readers \in [Runs -> {"none", "reading", "gone"}]
  /\ fresh \cup over \subseteq Runs /\ latest \in Runs \cup {None}
  /\ source \in [Turns -> {"none", "voice", "text"}]
  /\ spoiled \subseteq Turns
  /\ told \subseteq Turns \X {"recording.stopped", "recording.discarded", "outcome"}

Told(t, message) == <<t, message>> \in told

(* A recording that ran too long, grew too large or was discarded is never  *)
(* submitted; nor is a turn after the page was told that it is discarded,  *)
(* unless it had been told before that the recording is stopped.           *)
OnlySoundRecordings ==
  \A t \in Turns : Submitted(t) =>
    /\ t \notin spoiled
    /\ Told(t, "recording.discarded") => Told(t, "recording.stopped") \/ ~attached

(* A recording ends even if the page goes silent: its timer ends it, unless *)
(* a stop or a discard of another turn took the timer away.                *)
RecordingIsBounded ==
  \A t \in Turns : (recorder = t) ~> (recorder # t \/ mismatched)

(* Whoever submits learns what became of the turn, by its events, a refusal *)
(* or the word that its acceptance is unknown, as long as the page is      *)
(* connected; the second of two turns waits for the first to be posted.    *)
EverySubmissionIsAnswered ==
  \A t \in Turns : Submitted(t) ~>
    (~link \/ Told(t, "outcome"))

\* No event will come for this run any more, and no end of events.
Endless(r) == r \notin over /\ run # Locked(r, "running")

(* A closed socket leaves no reader of events behind, be it of a run that   *)
(* was accepted after the close: except one of a lost run that a later run *)
(* replaced.                                                               *)
ReadersAreReleased ==
  \A r \in Runs : (loop = "closed" /\ Queued(r)) ~>
    (readers[r] = "gone" \/ (Endless(r) /\ latest # r))
=============================================================================
