---------------------------- MODULE SpokenReplies ----------------------------
(***************************************************************************)
(* Spoken replies of one voice socket: TtsSession and the part of          *)
(* RecordingSession that remembers cancelled turns (tts_session.py and     *)
(* voice_session.py of backend/voice_console), the files of                *)
(* OwnedAudioStore that the speech providers fill (audio.py,               *)
(* providers.py), the frames on their way to the page, and the page's      *)
(* PlaybackQueue (frontend, lib/playback.ts).                              *)
(*                                                                         *)
(* A task runs until it awaits: the provider, or the lock and the buffer   *)
(* of the socket.  Task.cancel() takes effect where the task is suspended; *)
(* until then the task does nothing else.  (So it is from Python 3.12 on,  *)
(* which the image of the console has: wait_for of 3.11 may return a       *)
(* result in spite of a cancellation.)  The audio of a sentence is one     *)
(* binary frame here, and a turn has one spoken reply.                     *)
(***************************************************************************)
EXTENDS Naturals, Sequences, SequencesExt

CONSTANTS
  Turns,         (* turns that may get a spoken reply, numbered as they    *)
                 (* begin                                                  *)
  Sentences,     (* sentence chunks of a reply                             *)
  MaxCancelled,  (* MAX_CANCELLED_TURNS: 256 in the code                   *)
  MaxCancels,    (* bound: times the user cancels speech                   *)
  MaxRetries,    (* bound: times the user retries a blocked clip           *)
  MaxWire,       (* bound: frames between the socket and the page          *)
  None           (* no turn, no clip                                       *)

ASSUME TurnsAssumption == Turns \subseteq Nat
ASSUME SentencesAssumption == Sentences \in Nat \ {0}
ASSUME MarksAssumption == MaxCancelled \in Nat \ {0} /\ MaxCancels \in Nat /\ MaxRetries \in Nat
ASSUME WireAssumption == MaxWire \in Nat \ {0}
ASSUME NoTurnAssumption == None \notin Turns

VARIABLES
  attached,    (* the socket is there                                      *)
  stage,       (* of the task of a turn's reply                            *)
  chunk,       (* the sentence it is at                                    *)
  cancelling,  (* tasks with a cancel() that has not taken effect          *)
  current,     (* TtsSession.task                                          *)
  marks,       (* RecordingSession._cancelled, oldest first                *)
  files,       (* replies with an audio file in the store                  *)
  confirming,  (* the tts.cancel between its effect and its answer         *)
  wire,        (* frames the page has not taken                            *)
  asked,       (* tts.cancel frames the socket has not taken               *)
  turn,        (* activeTurnIdRef: the latest turn the user began          *)
  begun,       (* turns the user has begun                                 *)
  unheard,     (* turns whose tts.complete or tts.cancelled it ignored     *)
  active,      (* PlaybackQueue.activeTurn                                 *)
  incoming,    (* its clip that is arriving                                *)
  lastChunk,   (* its lastChunkByTurn                                      *)
  chain,       (* its promise chain: clips to play, marks of completion    *)
  playing,     (* the clip of the chain that sounds                        *)
  failed,      (* failedClip: the last clip the browser refused            *)
  unlocking,   (* the clip retry() took before its await                   *)
  retried,     (* the clip that sounds because of retry()                  *)
  held,        (* which of the two sounds a cancel would stop              *)
  silenced,    (* turns whose tts.cancelled the page has taken             *)
  evicted,     (* turns that dropped out of marks                          *)
  cancels,     (* times the user cancelled                                 *)
  retries      (* times the user retried                                   *)

taskVars == <<stage, chunk, cancelling, current, marks, files, evicted>>
soundVars == <<playing, failed, unlocking, retried, held>>
turnVars == <<turn, begun, unheard>>
pageVars == <<turnVars, active, incoming, lastChunk, chain, soundVars, silenced, retries>>
vars == <<attached, taskVars, confirming, wire, asked, pageVars, cancels>>

Finished == {"completed", "cancelled", "failed", "skipped"}
Done(t) == stage[t] \in Finished
Suspended(t) == stage[t] \in {"ready", "synth", "audio", "end", "complete"}

Frame(type, t, n) == [type |-> type, turn |-> t, chunk |-> n]
Clip(t, n, sources) == [kind |-> "clip", turn |-> t, chunk |-> n, bytes |-> sources]
Completion(t) == [kind |-> "completion", turn |-> t, chunk |-> 0, bytes |-> {}]

-----------------------------------------------------------------------------
(* Cancelled turns, and the audio store *)

\* The turns are the keys of a dictionary: each is there once at most.
Forget(s, t) ==
  IF t \in ToSet(s) THEN RemoveAt(s, CHOOSE i \in DOMAIN s : s[i] = t) ELSE s

Mark(s, t) ==
  LET all == Append(Forget(s, t), t)
  IN  IF Len(all) > MaxCancelled THEN Tail(all) ELSE all

\* RecordingSession.cancel, and then perhaps forget_cancel, of a turn.
MarkTurn(t, forget) ==
  /\ marks' = IF forget THEN Forget(Mark(marks, t), t) ELSE Mark(marks, t)
  /\ evicted' = evicted \cup (ToSet(marks) \ (ToSet(marks') \cup {t}))

Marked(t) == t \in ToSet(marks)

reserve_path(t) == files' = files \cup {t}

\* Variant: the file of an interrupted sentence is left behind.
cleanup_AfterSuccess(t) == files' = IF t \in cancelling THEN files ELSE files \ {t}
cleanup(t) == files' = files \ {t}

-----------------------------------------------------------------------------
(* TtsSession *)

\* Variant: the synthesis under way goes on beside the new one.
Cancel_Nothing == UNCHANGED cancelling
Cancel == cancelling' = cancelling \cup {t \in {current} \ {None} : ~Done(t)}

\* The stream of a run ended with a text; stream_subscription has it spoken
\* unless the page cancelled this turn before.
Speak(t) ==
  /\ attached /\ t \in begun
  /\ stage[t] = "none"
  /\ IF Marked(t)
     THEN /\ stage' = [stage EXCEPT ![t] = "skipped"]
          /\ UNCHANGED <<cancelling, current>>
     ELSE /\ Cancel
          /\ current' = t
          /\ stage' = [stage EXCEPT ![t] = "ready"]
  /\ UNCHANGED <<attached, chunk, marks, files, evicted, confirming, wire, asked, pageVars, cancels>>

Runs(t, s) == stage[t] = s /\ t \notin cancelling

\* The first step of a task, up to the provider's first await.
Begin(t) ==
  /\ Runs(t, "ready")
  /\ stage' = [stage EXCEPT ![t] = "synth"]
  /\ chunk' = [chunk EXCEPT ![t] = 1]
  /\ reserve_path(t)
  /\ UNCHANGED <<attached, cancelling, current, marks, evicted, confirming, wire, asked, pageVars, cancels>>

\* A timeout, an error of the provider (which then removes the file itself),
\* or a file that may not be streamed.
\* The page is told that speech failed, with no word on the turn.
SynthesisFails(t) ==
  /\ Runs(t, "synth")
  /\ stage' = [stage EXCEPT ![t] = "failed"]
  /\ cleanup(t)
  /\ marks' = Forget(marks, t)
  /\ UNCHANGED <<attached, chunk, cancelling, current, evicted, confirming, wire, asked, pageVars, cancels>>

\* A send waits while the buffers of the connection are full.
Send(frame) ==
  /\ Len(wire) < MaxWire
  /\ wire' = Append(wire, frame)

\* The provider answered, with a file that may be streamed.
SendStart(t) ==
  /\ Runs(t, "synth")
  /\ Send(Frame("tts.start", t, chunk[t]))
  /\ stage' = [stage EXCEPT ![t] = "audio"]
  /\ UNCHANGED <<attached, chunk, cancelling, current, marks, files, evicted, confirming, asked, pageVars, cancels>>

SendAudio(t) ==
  /\ Runs(t, "audio")
  /\ Send(Frame("audio", t, chunk[t]))
  /\ stage' = [stage EXCEPT ![t] = "end"]
  /\ UNCHANGED <<attached, chunk, cancelling, current, marks, files, evicted, confirming, asked, pageVars, cancels>>

\* The end of a sentence, and the provider again for the next one.
SendEnd(t) ==
  /\ Runs(t, "end")
  /\ Send(Frame("tts.end", t, chunk[t]))
  /\ IF chunk[t] < Sentences
     THEN /\ stage' = [stage EXCEPT ![t] = "synth"]
          /\ chunk' = [chunk EXCEPT ![t] = @ + 1]
          /\ UNCHANGED files
     ELSE /\ stage' = [stage EXCEPT ![t] = "complete"]
          /\ cleanup(t)
          /\ UNCHANGED chunk
  /\ UNCHANGED <<attached, cancelling, current, marks, evicted, confirming, asked, pageVars, cancels>>

\* Variant: the end of a reply is not announced.
SendComplete_Silently(t) ==
  /\ Runs(t, "complete")
  /\ stage' = [stage EXCEPT ![t] = "completed"]
  /\ marks' = Forget(marks, t)
  /\ UNCHANGED <<attached, chunk, cancelling, current, files, evicted, confirming, wire, asked, pageVars, cancels>>
SendComplete(t) ==
  /\ Runs(t, "complete")
  /\ Send(Frame("tts.complete", t, 0))
  /\ stage' = [stage EXCEPT ![t] = "completed"]
  /\ marks' = Forget(marks, t)
  /\ UNCHANGED <<attached, chunk, cancelling, current, files, evicted, confirming, asked, pageVars, cancels>>

\* CancelledError where the task is suspended.  A task that never ran has no
\* handler for it; any other marks its turn, removes its file and forgets the
\* turn.
CancelTakesEffect(t) ==
  /\ t \in cancelling
  /\ stage' = [stage EXCEPT ![t] = "cancelled"]
  /\ cancelling' = cancelling \ {t}
  /\ IF stage[t] = "ready"
     THEN UNCHANGED <<marks, evicted, files>>
     ELSE MarkTurn(t, TRUE) /\ cleanup(t)
  /\ UNCHANGED <<attached, chunk, current, confirming, wire, asked, pageVars, cancels>>

\* TtsSession.cancel up to its await, whatever the turn of the task is.
TakeCancel ==
  /\ attached /\ confirming = None
  /\ asked # <<>>
  /\ MarkTurn(Head(asked), FALSE)
  /\ Cancel
  /\ confirming' = Head(asked)
  /\ asked' = Tail(asked)
  /\ UNCHANGED <<attached, stage, chunk, current, files, wire, pageVars, cancels>>

ConfirmCancel ==
  /\ confirming # None
  /\ Send(Frame("tts.cancelled", confirming, 0))
  /\ confirming' = None
  /\ UNCHANGED <<attached, taskVars, asked, pageVars, cancels>>

\* The socket is gone, and its cleanup closes the session.
Close ==
  /\ attached
  /\ attached' = FALSE
  /\ Cancel
  /\ confirming' = None
  /\ asked' = <<>>
  /\ UNCHANGED <<stage, chunk, current, marks, files, evicted, wire, pageVars, cancels>>

-----------------------------------------------------------------------------
(* PlaybackQueue *)

\* PlaybackQueue.cancel: a newer generation, so nothing of the chain plays.
Hush ==
  /\ active' = None
  /\ chain' = <<>>
  /\ failed' = None
  /\ playing' = IF held = "chain" THEN None ELSE playing
  /\ retried' = IF held = "retry" THEN None ELSE retried
  /\ held' = None
  /\ UNCHANGED unlocking

\* Variant: the clip that is arriving is kept.
Silence_KeepIncoming == Hush /\ UNCHANGED incoming
Silence == Hush /\ incoming' = None

\* Variant: only the clip that is arriving is dropped.
Silences_Incoming(t) ==
  IF t = None \/ active = None \/ active = t
  THEN incoming' = None /\ UNCHANGED <<active, chain, soundVars>>
  ELSE UNCHANGED <<active, incoming, chain, soundVars>>
Silences(t) ==
  IF t = None \/ active = None \/ active = t THEN Silence
  ELSE UNCHANGED <<active, incoming, chain, soundVars>>

\* The user speaks or types: what the page plays goes on.
BeginTurn(t) ==
  /\ attached
  /\ t \notin begun /\ \A u \in Turns : u < t => u \in begun
  /\ turn' = t
  /\ begun' = begun \cup {t}
  /\ UNCHANGED <<attached, taskVars, confirming, wire, asked, active, incoming, lastChunk,
                 chain, soundVars, silenced, retries, unheard, cancels>>

\* The user cancels what is spoken, or else what the latest turn would say.
CancelSpeech ==
  LET t == IF active # None THEN active ELSE turn IN
  /\ attached /\ t # None
  /\ cancels < MaxCancels
  /\ cancels' = cancels + 1
  /\ Silences(t)
  /\ asked' = Append(asked, t)
  /\ UNCHANGED <<attached, taskVars, confirming, wire, turnVars, lastChunk, silenced, retries>>

Takes(type) ==
  /\ wire # <<>>
  /\ Head(wire).type = type
  /\ wire' = Tail(wire)
  /\ UNCHANGED <<attached, taskVars, confirming, asked, cancels>>

\* handleEvent of useConsoleController passes on what is of the latest turn.
OfLatest(f) == turn \in {None, f.turn}

IgnoreFrame ==
  /\ \E type \in {"tts.start", "tts.end", "tts.complete", "tts.cancelled"} : Takes(type)
  /\ ~OfLatest(Head(wire))
  /\ unheard' = IF Head(wire).type \in {"tts.complete", "tts.cancelled"}
                THEN unheard \cup {Head(wire).turn} ELSE unheard
  /\ UNCHANGED <<turn, begun, active, incoming, lastChunk, chain, soundVars, silenced, retries>>

\* A sentence of another turn than the one that is played is not taken.
TakeStart ==
  /\ Takes("tts.start") /\ OfLatest(Head(wire))
  /\ LET f == Head(wire) IN
     IF f.chunk > lastChunk[f.turn] /\ active \in {None, f.turn}
     THEN active' = f.turn /\ incoming' = Clip(f.turn, f.chunk, {})
     ELSE UNCHANGED <<active, incoming>>
  /\ UNCHANGED <<turnVars, lastChunk, chain, soundVars, silenced, retries>>

\* Audio has no turn: it is never ignored, and goes to the clip that is arriving.
TakeAudio ==
  /\ Takes("audio")
  /\ incoming' = IF incoming = None THEN None
                 ELSE [incoming EXCEPT !.bytes = @ \cup {Head(wire).turn}]
  /\ UNCHANGED <<turnVars, active, lastChunk, chain, soundVars, silenced, retries>>

TakeEnd ==
  /\ Takes("tts.end") /\ OfLatest(Head(wire))
  /\ LET f == Head(wire)
         expected == incoming # None /\ incoming.turn = f.turn /\ incoming.chunk = f.chunk
         queued == expected /\ incoming.bytes # {}
     IN  /\ incoming' = IF expected THEN None ELSE incoming
         /\ lastChunk' = IF expected THEN [lastChunk EXCEPT ![f.turn] = f.chunk] ELSE lastChunk
         /\ chain' = IF queued THEN Append(chain, incoming) ELSE chain
  /\ UNCHANGED <<turnVars, active, soundVars, silenced, retries>>

TakeComplete ==
  /\ Takes("tts.complete") /\ OfLatest(Head(wire))
  /\ LET t == Head(wire).turn IN
     chain' = IF active = t THEN Append(chain, Completion(t)) ELSE chain
  /\ UNCHANGED <<turnVars, active, incoming, lastChunk, soundVars, silenced, retries>>

TakeCancelled ==
  /\ Takes("tts.cancelled") /\ OfLatest(Head(wire))
  /\ Silences(Head(wire).turn)
  /\ silenced' = silenced \cup {Head(wire).turn}
  /\ UNCHANGED <<turnVars, lastChunk, retries>>

\* The next of the chain: a clip of the turn that is played, or its end.
PlayNext ==
  /\ playing = None
  /\ chain # <<>>
  /\ chain' = Tail(chain)
  /\ LET next == Head(chain) IN
     /\ playing' = IF next.kind = "clip" /\ active = next.turn THEN next ELSE None
     /\ held' = IF playing' # None THEN "chain" ELSE held
     /\ active' = IF next.kind = "completion" /\ active = next.turn THEN None ELSE active
  /\ UNCHANGED <<attached, taskVars, confirming, wire, asked, turnVars, incoming, lastChunk,
                 failed, unlocking, retried, silenced, cancels, retries>>

Rest(kind) == held' = IF held = kind THEN None ELSE held

\* The clip is over, or the browser refused to play it.
ClipEnds ==
  /\ playing # None
  /\ playing' = None
  /\ failed' \in {failed, playing}
  /\ Rest("chain")
  /\ UNCHANGED <<attached, taskVars, confirming, wire, asked, turnVars, active, incoming,
                 lastChunk, chain, unlocking, retried, silenced, cancels, retries>>

\* The user asks for the refused clip again: retry() up to its await.  (The
\* user waits for one retry before the next.)
Retry ==
  /\ failed # None /\ unlocking = None /\ retried = None
  /\ retries < MaxRetries
  /\ retries' = retries + 1
  /\ unlocking' = failed
  /\ UNCHANGED <<attached, taskVars, confirming, wire, asked, turnVars, active, incoming,
                 lastChunk, chain, playing, failed, retried, held, silenced, cancels>>

\* It plays whatever else plays, and whatever was cancelled meanwhile.
RetryPlays ==
  /\ unlocking # None
  /\ unlocking' = None
  /\ retried' = unlocking
  /\ held' = "retry"
  /\ UNCHANGED <<attached, taskVars, confirming, wire, asked, turnVars, active, incoming,
                 lastChunk, chain, playing, failed, silenced, cancels, retries>>

RetryEnds ==
  /\ retried # None
  /\ retried' = None
  /\ failed' \in {failed, None}
  /\ Rest("retry")
  /\ UNCHANGED <<attached, taskVars, confirming, wire, asked, turnVars, active, incoming,
                 lastChunk, chain, playing, unlocking, silenced, cancels, retries>>

-----------------------------------------------------------------------------

Init ==
  /\ attached = TRUE
  /\ stage = [t \in Turns |-> "none"]
  /\ chunk = [t \in Turns |-> 0]
  /\ cancelling = {}
  /\ current = None
  /\ marks = <<>>
  /\ files = {}
  /\ confirming = None
  /\ wire = <<>>
  /\ asked = <<>>
  /\ turn = None /\ begun = {} /\ unheard = {}
  /\ active = None
  /\ incoming = None
  /\ lastChunk = [t \in Turns |-> 0]
  /\ chain = <<>>
  /\ playing = None
  /\ silenced = {}
  /\ evicted = {}
  /\ failed = None /\ unlocking = None /\ retried = None /\ held = None
  /\ cancels = 0
  /\ retries = 0

Synthesis(t) ==
  \/ Begin(t) \/ SynthesisFails(t)
  \/ SendStart(t) \/ SendAudio(t) \/ SendEnd(t) \/ SendComplete(t)
  \/ CancelTakesEffect(t)

Playback ==
  \/ IgnoreFrame \/ TakeStart \/ TakeAudio \/ TakeEnd \/ TakeComplete \/ TakeCancelled
  \/ PlayNext \/ ClipEnds \/ RetryPlays \/ RetryEnds

Next ==
  \/ \E t \in Turns : BeginTurn(t) \/ Speak(t) \/ Synthesis(t)
  \/ CancelSpeech \/ TakeCancel \/ ConfirmCancel \/ Close
  \/ Playback \/ Retry

Spec == Init /\ [][Next]_vars

\* The event loop resumes a task, the provider answers or times out, and the
\* page takes its frames and plays its clips.
Fairness ==
  /\ \A t \in Turns : WF_vars(Synthesis(t))
  /\ WF_vars(Playback)

FairSpec == Spec /\ Fairness

-----------------------------------------------------------------------------
(* Properties *)

TypeOK ==
  /\ attached \in BOOLEAN
  /\ stage \in [Turns -> {"none", "ready", "synth", "audio", "end", "complete"}
                          \cup Finished]
  /\ chunk \in [Turns -> 0 .. Sentences]
  /\ cancelling \in SUBSET {t \in Turns : Suspended(t)}
  /\ {current, confirming, turn, active} \subseteq Turns \cup {None}
  /\ ToSet(marks) \subseteq Turns /\ Len(marks) <= MaxCancelled
  /\ files \cup silenced \cup evicted \cup begun \cup unheard \subseteq Turns
  /\ lastChunk \in [Turns -> 0 .. Sentences]
  /\ held \in {None, "chain", "retry"}
  /\ retries \in 0 .. MaxRetries
  /\ ToSet(asked) \subseteq Turns
  /\ cancels \in 0 .. MaxCancels
  /\ incoming # None => active = incoming.turn

(* A reply that is being spoken by a task nobody has cancelled is neither   *)
(* marked as cancelled nor one of two: the checks of is_cancelled between  *)
(* the frames of a reply find nothing, and start() leaves one synthesis.   *)
OneSpeaker ==
  \A t \in Turns : Suspended(t) /\ t \notin cancelling =>
    /\ t = current
    /\ ~Marked(t)

(* Once tts.cancelled was sent for a turn no frame of it follows, unless    *)
(* the mark of a reply still to come was pushed out by other cancellations.*)
NothingAfterCancelled ==
  \A i, j \in 1 .. Len(wire) :
    i < j /\ wire[i].type = "tts.cancelled" /\ wire[j].type # "tts.cancelled"
      => wire[i].turn # wire[j].turn \/ wire[i].turn \in evicted

(* A clip the page plays holds the audio of its own turn and of no other,   *)
(* although binary frames carry no turn, a reply can be replaced in the    *)
(* middle of a clip, and the page ignores the start of the next one.       *)
ClipsAreWhole ==
  \A c \in {playing} \cup ToSet(chain) :
    c # None /\ c.kind = "clip" => c.bytes = {c.turn}

(* After the page has taken tts.cancelled for a turn no clip of it starts   *)
(* in the chain of the queue.  A clip the user retries is not of the chain, *)
(* and a tts.cancelled that the page ignores is not taken.                  *)
StaysSilent ==
  [][playing' # playing /\ playing' # None =>
       playing'.turn \notin silenced \ evicted]_vars

(* The audio file of a reply is removed when its task ends, however it      *)
(* ends: completed, failed, cancelled at the provider or between frames.   *)
FilesAreRemoved == \A t \in files : Suspended(t)

\* The page does not hear that the reply is complete or was cancelled: it was
\* replaced by the next reply, failed, or was cut off with the socket, or the
\* user had begun another turn when the frame came, so that it was ignored.
Forsaken(t) == stage[t] \in {"failed", "cancelled"} \/ ~attached \/ t \in unheard

(* The page does not stay with a turn whose reply ended: it is ready for    *)
(* the next one, except for the replies it does not hear the end of.        *)
PlaybackIsReleased == (active # None) ~> (active = None \/ Forsaken(active))

(* "Never overlap clips": retry() plays its clip beside the chain, and a   *)
(* later cancel stops only one of the two.                                 *)
ClipsDoNotOverlap == playing = None \/ retried = None
=============================================================================
