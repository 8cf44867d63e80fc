-------------------------- MODULE VoiceSocketProofs --------------------------
(***************************************************************************)
(* Theorems about one voice socket: for any number of turns, and whatever  *)
(* frames the page sends in whatever order, a recording that was too long, *)
(* too large or discarded is never submitted.                              *)
(***************************************************************************)
EXTENDS VoiceSocket, TLAPS

Flags == {link, attached, ready, captured, late, mismatched} \subseteq BOOLEAN

(* TypeOK without its flags, and a run that locks the conversation exists. *)
Names ==
  /\ loop \in {"receive", "hello", "stt", "closed"}
  /\ {turn, recorder, timer} \subseteq Turns \cup {None}
  /\ (turn # None) = (loop = "stt")
  /\ recorder # None /\ timer # None => recorder = timer
  /\ work \in [Turns -> {"none", "begin", "posting", "done"}]
  /\ source \in [Turns -> {"none", "voice", "text"}]
  /\ spoiled \subseteq Turns
  /\ told \subseteq Turns \X {"recording.stopped", "recording.discarded", "outcome"}

Followed ==
  /\ run.by \in Runs \cup {None}
  /\ run.state \in {"free", "posting", "running", "unknown", "lost"}
  /\ run.state # "free" => run.by \in Runs
  /\ readers \in [Runs -> {"none", "reading", "gone"}]
  /\ fresh \cup over \subseteq Runs /\ latest \in Runs \cup {None}

(* The page was told that the recording of t is stopped, if it hears. *)
Stopped(t) == Told(t, "recording.stopped") \/ ~attached

(* A turn is recorded, then transcribed, then submitted: it is spoiled at  *)
(* none of these but in a recording that is late, and goes on only with    *)
(* the word to the page that it is stopped.                                *)
Sound ==
  \A t \in Turns :
    /\ recorder = t =>
         source[t] = "voice" /\ work[t] = "none" /\ turn # t /\ (t \in spoiled => late)
    /\ turn = t =>
         source[t] = "voice" /\ work[t] = "none" /\ t \notin spoiled /\ Stopped(t)
    /\ Submitted(t) =>
         source[t] # "none" /\ t \notin spoiled /\ (source[t] = "voice" => Stopped(t))
    /\ t \in spoiled \/ Told(t, "recording.discarded") => source[t] = "voice"

IInv == Flags /\ Names /\ Followed /\ Sound

-----------------------------------------------------------------------------
(* Initial states *)

LEMMA InitIInv == Init => IInv
<1> SUFFICES ASSUME Init PROVE IInv
  OBVIOUS
<1>1. Flags /\ Names
  BY DEF Init, Flags, Names
<1>2. Followed
  BY NoTurnAssumption DEF Init, Followed, Runs, Free, Locked
<1>3. Sound
  BY NoTurnAssumption DEF Init, Sound, Submitted, Told
<1> QED
  BY <1>1, <1>2, <1>3 DEF IInv

-----------------------------------------------------------------------------
(* Frames to the page *)

(* The socket is attached or not, is not attached again, and what the page *)
(* was told it stays told.                                                 *)
Steady ==
  /\ attached' \in BOOLEAN
  /\ attached' => attached
  /\ told \subseteq told'

LEMMA SendSteady ==
  ASSUME Flags, Send, UNCHANGED told
  PROVE  Steady
BY DEF Flags, Send, Steady

LEMMA TellSteady ==
  ASSUME Flags, NEW t, NEW message, Tell(t, message)
  PROVE  /\ Steady
         /\ told' \subseteq told \cup {<<t, message>>}
         /\ attached' => <<t, message>> \in told'
BY DEF Flags, Send, Tell, Steady

LEMMA StaySteady ==
  ASSUME Flags, UNCHANGED <<attached, told>>
  PROVE  Steady
BY DEF Flags, Steady

LEMMA StoppedStays ==
  ASSUME Steady, NEW t, Stopped(t)
  PROVE  Stopped(t)'
BY DEF Steady, Stopped, Told

(* What has nothing to do with the turns of the page keeps what is known   *)
(* of them.                                                                *)
LEMMA ElsewhereStep ==
  ASSUME Names, Sound, Steady,
         UNCHANGED <<turn, recordingVars, source, work>>,
         told' \subseteq told \cup {<<t, "outcome">> : t \in Turns}
  PROVE  Sound'
<1>1. UNCHANGED <<turn, recorder, captured, late, timer, spoiled, mismatched, source, work>>
  BY DEF recordingVars
<1> SUFFICES ASSUME NEW t \in Turns
             PROVE  /\ recorder = t => source[t] = "voice" /\ work[t] = "none" /\ turn # t
                                       /\ (t \in spoiled => late)
                    /\ turn = t => source[t] = "voice" /\ work[t] = "none"
                                   /\ t \notin spoiled /\ Stopped(t)'
                    /\ Submitted(t) => source[t] # "none" /\ t \notin spoiled
                                       /\ (source[t] = "voice" => Stopped(t)')
                    /\ t \in spoiled \/ Told(t, "recording.discarded")' => source[t] = "voice"
  BY <1>1 DEF Sound, Submitted
<1>2. Stopped(t) => Stopped(t)'
  BY StoppedStays
<1>3. Told(t, "recording.discarded")' => Told(t, "recording.discarded")
  BY DEF Told
<1> QED
  BY <1>1, <1>2, <1>3 DEF Sound

LEMMA ElsewhereNames ==
  ASSUME Names, UNCHANGED <<turn, recordingVars, source, work>>,
         loop' \in {"receive", "hello", "stt", "closed"}, (loop' = "stt") = (loop = "stt"),
         told' \subseteq told \cup {<<t, "outcome">> : t \in Turns}
  PROVE  Names'
BY DEF Names, recordingVars

(* hello, the events of runs and the end of the socket.                    *)
LEMMA HelloStep ==
  ASSUME IInv, Hello \/ HelloFails \/ HelloReady
  PROVE  IInv'
<1>1. /\ UNCHANGED <<link, attached, turn, recordingVars, source, work, run, told>>
      /\ loop' \in {"receive", "hello"} /\ loop # "stt"
      /\ ready' = ready \/ ready' = TRUE
  BY DEF Hello, HelloFails, HelloReady, runVars
<1>2. Flags'
  BY <1>1 DEF IInv, Flags, recordingVars
<1>3. Names' /\ Sound'
  BY <1>1, StaySteady, ElsewhereStep, ElsewhereNames DEF IInv
<1>4. Followed'
  BY DEF Hello, HelloFails, HelloReady, Subscribe, runVars, IInv, Followed, Runs
<1> QED
  BY <1>2, <1>3, <1>4 DEF IInv

LEMMA RunStep ==
  ASSUME IInv,
         RunEvent \/ RunEnds \/ RunLost \/ Acknowledge \/ ForeignBegins \/ ForeignAnswered
  PROVE  IInv'
<1>1. UNCHANGED <<link, attached, loop, turn, ready, recordingVars, source, work, told>>
  BY DEF RunEvent, RunEnds, RunLost, Acknowledge, ForeignBegins, ForeignAnswered
<1>2. Flags'
  BY <1>1 DEF IInv, Flags, recordingVars
<1>3. Names' /\ Sound'
  BY <1>1, StaySteady, ElsewhereStep, ElsewhereNames DEF IInv, Names
<1>4. Followed'
  BY DEF RunEvent, RunEnds, RunLost, Acknowledge, ForeignBegins, ForeignAnswered,
         IInv, Followed, Runs, Free, Locked
<1> QED
  BY <1>2, <1>3, <1>4 DEF IInv

LEMMA ReaderStep ==
  ASSUME IInv, NEW r \in Runs, Forward(r) \/ Finish(r)
  PROVE  IInv'
<1>1. UNCHANGED <<link, loop, turn, ready, recordingVars, source, work>>
  BY DEF Forward, Finish
<1>2. Steady /\ told' \subseteq told \cup {<<t, "outcome">> : t \in Turns}
  <2>1. CASE Forward(r) /\ r \in Turns
    BY <2>1, TellSteady DEF Forward, IInv
  <2>2. CASE Forward(r) /\ r \notin Turns
    BY <2>2, SendSteady DEF Forward, IInv
  <2>3. CASE Finish(r)
    BY <2>3, StaySteady DEF Finish, IInv
  <2> QED
    BY <2>1, <2>2, <2>3
<1>3. Flags'
  BY <1>1, <1>2 DEF IInv, Flags, Steady, recordingVars
<1>4. Names' /\ Sound'
  BY <1>1, <1>2, ElsewhereStep, ElsewhereNames DEF IInv, Names
<1>5. Followed'
  BY DEF Forward, Finish, Gone, IInv, Followed
<1> QED
  BY <1>3, <1>4, <1>5 DEF IInv

LEMMA DisconnectStep ==
  ASSUME IInv, Disconnect
  PROVE  IInv'
<1>1. /\ UNCHANGED <<attached, loop, turn, ready, recordingVars, source, work, runVars, told>>
      /\ link' = FALSE
  BY DEF Disconnect
<1>2. Flags'
  BY <1>1 DEF IInv, Flags, recordingVars
<1>3. Names' /\ Sound'
  BY <1>1, StaySteady, ElsewhereStep, ElsewhereNames DEF IInv, Names
<1>4. Followed'
  BY <1>1 DEF IInv, Followed, runVars
<1> QED
  BY <1>2, <1>3, <1>4 DEF IInv
-----------------------------------------------------------------------------
(* The recording *)

(* Time, audio, the timer and the end of the socket: the recording goes on *)
(* or is dropped, and no turn but a late one is spoiled under way.         *)
LEMMA KeepStep ==
  ASSUME Names, Sound, Steady,
         UNCHANGED <<turn, source, work, told>>,
         recorder' \in {recorder, None},
         recorder' = recorder /\ late => late',
         spoiled' = spoiled
           \/ (recorder # None /\ spoiled' = spoiled \cup {recorder}
               /\ (recorder' = None \/ late'))
  PROVE  Sound'
<1> SUFFICES ASSUME NEW t \in Turns
             PROVE  /\ recorder' = t => source[t] = "voice" /\ work[t] = "none" /\ turn # t
                                        /\ (t \in spoiled' => late')
                    /\ turn = t => source[t] = "voice" /\ work[t] = "none"
                                   /\ t \notin spoiled' /\ Stopped(t)'
                    /\ Submitted(t) => source[t] # "none" /\ t \notin spoiled'
                                       /\ (source[t] = "voice" => Stopped(t)')
                    /\ t \in spoiled' \/ Told(t, "recording.discarded") => source[t] = "voice"
  BY DEF Sound, Submitted, Told
<1>1. Stopped(t) => Stopped(t)'
  BY StoppedStays
<1>2. recorder = t => source[t] = "voice" /\ work[t] = "none" /\ turn # t
  BY DEF Sound
<1>3. t \in spoiled' => t \in spoiled \/ t = recorder
  OBVIOUS
<1> QED
  BY <1>1, <1>2, <1>3, NoTurnAssumption DEF Sound, Submitted

LEMMA RecordingRuns ==
  ASSUME IInv, Audio \/ TimePasses \/ TimerFires
  PROVE  IInv'
<1>1. /\ UNCHANGED <<link, loop, turn, ready, source, work, runVars, told>>
      /\ recorder' \in {recorder, None} /\ timer' \in {timer, None}
      /\ {captured', late', mismatched'} \subseteq BOOLEAN
  BY DEF Audio, TimePasses, TimerFires, Reset, IInv, Flags
<1>2. Steady
  <2>1. CASE UNCHANGED attached
    BY <1>1, <2>1, StaySteady DEF IInv
  <2>2. CASE Send
    BY <1>1, <2>2, SendSteady DEF IInv
  <2> QED
    BY <2>1, <2>2 DEF Audio, TimePasses, TimerFires
<1>3. /\ recorder' = recorder /\ late => late'
      /\ \/ spoiled' = spoiled
         \/ /\ recorder # None /\ spoiled' = spoiled \cup {recorder}
            /\ recorder' = None \/ late'
  BY DEF Audio, TimePasses, TimerFires, Reset, Overdue
<1>4. Flags'
  BY <1>1, <1>2 DEF IInv, Flags, Steady
<1>5. Names'
  BY <1>1, <1>3 DEF IInv, Names
<1>6. Sound'
  BY <1>1, <1>2, <1>3, KeepStep DEF IInv
<1>7. Followed'
  BY <1>1 DEF IInv, Followed, runVars
<1> QED
  BY <1>4, <1>5, <1>6, <1>7 DEF IInv

LEMMA StartStep ==
  ASSUME IInv, NEW t \in Turns, RecordingStart(t)
  PROVE  IInv'
<1>1. /\ UNCHANGED <<link, loop, turn, ready, work, runVars, told, spoiled>>
      /\ source[t] = "none" /\ source' = [source EXCEPT ![t] = "voice"]
      /\ Send
      /\ \/ recorder' = t /\ timer' = t /\ {captured', late', mismatched'} = {FALSE}
         \/ UNCHANGED recordingVars
  BY DEF RecordingStart, Arm, recordingVars
<1>2. Steady
  BY <1>1, SendSteady DEF IInv
<1>3. Flags'
  BY <1>1, <1>2 DEF IInv, Flags, Steady, recordingVars
<1>4. Names'
  BY <1>1 DEF IInv, Names, recordingVars
<1>5. Followed'
  BY <1>1 DEF IInv, Followed, runVars
<1>6. Sound'
  <2> SUFFICES ASSUME NEW u \in Turns
               PROVE  /\ recorder' = u => source'[u] = "voice" /\ work[u] = "none" /\ turn # u
                                          /\ (u \in spoiled => late')
                      /\ turn = u => source'[u] = "voice" /\ work[u] = "none"
                                     /\ u \notin spoiled /\ Stopped(u)'
                      /\ Submitted(u) => source'[u] # "none" /\ u \notin spoiled
                                         /\ (source'[u] = "voice" => Stopped(u)')
                      /\ u \in spoiled \/ Told(u, "recording.discarded") => source'[u] = "voice"
    BY <1>1 DEF Sound, Submitted, Told
  <2>1. Stopped(u) => Stopped(u)'
    BY <1>2, StoppedStays
  <2>2. CASE u = t
    <3>1. source'[u] = "voice"
      BY <1>1, <2>2 DEF IInv, Names
    <3>2. turn # u /\ ~Submitted(u) /\ u \notin spoiled /\ recorder # u
      BY <1>1, <2>2 DEF IInv, Sound
    <3> QED
      BY <3>1, <3>2 DEF Submitted
  <2>3. CASE u # t
    <3>1. source'[u] = source[u]
      BY <1>1, <2>3 DEF IInv, Names
    <3>2. recorder' = u => recorder = u /\ late' = late
      BY <1>1, <2>3 DEF recordingVars
    <3> QED
      BY <2>1, <3>1, <3>2 DEF IInv, Sound
  <2> QED
    BY <2>2, <2>3
<1> QED
  BY <1>3, <1>4, <1>5, <1>6 DEF IInv

(* A stop of the recording that is not late is the only way to a           *)
(* transcript, and the page is told before.                                *)
LEMMA StopStep ==
  ASSUME IInv, NEW t \in Turns, RecordingStop(t)
  PROVE  IInv'
<1>1. /\ UNCHANGED <<link, ready, spoiled, source, work, runVars>>
      /\ loop = "receive" /\ source[t] = "voice" /\ timer' = None
      /\ \/ /\ recorder # t /\ mismatched' = (recorder # None)
            /\ UNCHANGED <<recorder, captured, late, loop, turn, told>> /\ Send
         \/ /\ recorder = t /\ Reset
            /\ UNCHANGED <<loop, turn, told>> /\ Send
         \/ /\ recorder = t /\ Reset /\ ~late
            /\ loop' = "stt" /\ turn' = t /\ Tell(t, "recording.stopped")
  BY DEF RecordingStop, Frame, Overdue
<1>2. Steady /\ told' \subseteq told \cup {<<t, "recording.stopped">>}
  BY <1>1, SendSteady, TellSteady DEF IInv
<1>3. Flags'
  <2>1. {captured', late', mismatched'} \subseteq BOOLEAN
    BY <1>1 DEF IInv, Flags, Reset
  <2> QED
    BY <1>1, <1>2, <2>1 DEF IInv, Flags, Steady
<1>4. Names'
  BY <1>1, <1>2, NoTurnAssumption DEF IInv, Names, Reset
<1>5. Followed'
  BY <1>1 DEF IInv, Followed, runVars
<1>6. Sound'
  <2> SUFFICES ASSUME NEW u \in Turns
               PROVE  /\ recorder' = u => source[u] = "voice" /\ work[u] = "none" /\ turn' # u
                                          /\ (u \in spoiled => late')
                      /\ turn' = u => source[u] = "voice" /\ work[u] = "none"
                                      /\ u \notin spoiled /\ Stopped(u)'
                      /\ Submitted(u) => source[u] # "none" /\ u \notin spoiled
                                         /\ (source[u] = "voice" => Stopped(u)')
                      /\ u \in spoiled \/ Told(u, "recording.discarded")' => source[u] = "voice"
    BY <1>1 DEF Sound, Submitted
  <2>1. Stopped(u) => Stopped(u)'
    BY <1>2, StoppedStays
  <2>2. Told(u, "recording.discarded")' => Told(u, "recording.discarded")
    BY <1>2 DEF Told
  <2>3. recorder' = u => recorder = u /\ late' = late /\ turn' = turn
    BY <1>1, NoTurnAssumption DEF Reset
  <2>4. turn' = u => turn = u \/ (u = t /\ recorder = t /\ ~late /\ Stopped(t)')
    <3>1. Tell(t, "recording.stopped") => Stopped(t)'
      BY TellSteady DEF IInv, Stopped, Told
    <3> QED
      BY <1>1, <3>1
  <2> QED
    BY <2>1, <2>2, <2>3, <2>4 DEF IInv, Sound
<1> QED
  BY <1>3, <1>4, <1>5, <1>6 DEF IInv

(* A discard of a turn that went on finds that the page was told before.   *)
LEMMA CancelStep ==
  ASSUME IInv, NEW t \in Turns, RecordingCancel(t)
  PROVE  IInv'
<1>1. /\ UNCHANGED <<link, loop, turn, ready, source, work, runVars>>
      /\ source[t] = "voice" /\ timer' = None
      /\ \/ /\ mismatched' = (recorder # None)
            /\ UNCHANGED <<recorder, captured, late, spoiled>>
         \/ recorder = t /\ Reset /\ spoiled' = spoiled \cup {t}
      /\ Tell(t, "recording.discarded")
  BY DEF RecordingCancel, Discard
<1>2. Steady /\ told' \subseteq told \cup {<<t, "recording.discarded">>}
  BY <1>1, TellSteady DEF IInv
<1>3. Flags'
  <2>1. {captured', late', mismatched'} \subseteq BOOLEAN
    BY <1>1 DEF IInv, Flags, Reset
  <2> QED
    BY <1>1, <1>2, <2>1 DEF IInv, Flags, Steady
<1>4. Names'
  BY <1>1, <1>2 DEF IInv, Names, Reset
<1>5. Followed'
  BY <1>1 DEF IInv, Followed, runVars
<1>6. Sound'
  <2> SUFFICES ASSUME NEW u \in Turns
               PROVE  /\ recorder' = u => source[u] = "voice" /\ work[u] = "none" /\ turn # u
                                          /\ (u \in spoiled' => late')
                      /\ turn = u => source[u] = "voice" /\ work[u] = "none"
                                     /\ u \notin spoiled' /\ Stopped(u)'
                      /\ Submitted(u) => source[u] # "none" /\ u \notin spoiled'
                                         /\ (source[u] = "voice" => Stopped(u)')
                      /\ u \in spoiled' \/ Told(u, "recording.discarded")' => source[u] = "voice"
    BY <1>1 DEF Sound, Submitted
  <2>1. Stopped(u) => Stopped(u)'
    BY <1>2, StoppedStays
  <2>2. Told(u, "recording.discarded")' => Told(u, "recording.discarded") \/ u = t
    BY <1>2 DEF Told
  <2>3. recorder' = u => recorder = u /\ late' = late /\ spoiled' = spoiled
    BY <1>1, NoTurnAssumption DEF Reset
  <2>4. u \in spoiled' => u \in spoiled \/ (u = t /\ recorder = t)
    BY <1>1
  <2> QED
    BY <1>1, <2>1, <2>2, <2>3, <2>4 DEF IInv, Sound, Submitted
<1> QED
  BY <1>3, <1>4, <1>5, <1>6 DEF IInv

-----------------------------------------------------------------------------
(* Submission *)

(* A turn that is submitted was transcribed or typed.                      *)
LEMMA SubmitStep ==
  ASSUME Names, Sound, Steady, NEW t \in Turns,
         UNCHANGED recordingVars, turn' \in {turn, None},
         \/ turn = t /\ turn' = None /\ source' = source
         \/ source[t] = "none" /\ source' = [source EXCEPT ![t] = "text"]
         \/ Submitted(t) /\ source' = source,
         work' \in [Turns -> {"none", "begin", "posting", "done"}],
         \A u \in Turns : u # t => work'[u] = work[u],
         turn' = t => work' = work,
         told' \subseteq told \cup {<<u, "outcome">> : u \in Turns}
  PROVE  Sound'
<1>1. UNCHANGED <<recorder, captured, late, timer, spoiled, mismatched>>
  BY DEF recordingVars
<1> SUFFICES ASSUME NEW u \in Turns
             PROVE  /\ recorder = u => source'[u] = "voice" /\ work'[u] = "none" /\ turn' # u
                                       /\ (u \in spoiled => late)
                    /\ turn' = u => source'[u] = "voice" /\ work'[u] = "none"
                                    /\ u \notin spoiled /\ Stopped(u)'
                    /\ Submitted(u)' => source'[u] # "none" /\ u \notin spoiled
                                        /\ (source'[u] = "voice" => Stopped(u)')
                    /\ u \in spoiled \/ Told(u, "recording.discarded")' => source'[u] = "voice"
  BY <1>1 DEF Sound
<1>2. Stopped(u) => Stopped(u)'
  BY StoppedStays
<1>3. Told(u, "recording.discarded")' => Told(u, "recording.discarded")
  BY DEF Told
<1>4. turn' = u => turn = u
  BY NoTurnAssumption
<1>5. CASE u # t
  <2>1. source'[u] = source[u] /\ work'[u] = work[u]
    BY <1>5 DEF Names
  <2> QED
    BY <1>2, <1>3, <1>4, <2>1 DEF Sound, Submitted
<1>6. CASE u = t
  <2>1. CASE turn = t /\ turn' = None /\ source' = source
    BY <1>2, <1>3, <1>6, <2>1, NoTurnAssumption DEF Sound
  <2>2. CASE source[t] = "none" /\ source' = [source EXCEPT ![t] = "text"]
    <3>1. source'[t] = "text"
      BY <2>2 DEF Names
    <3>2. recorder # t /\ turn # t /\ t \notin spoiled /\ ~Told(t, "recording.discarded")
      BY <2>2 DEF Sound
    <3> QED
      BY <1>3, <1>4, <1>6, <3>1, <3>2
  <2>3. CASE Submitted(t) /\ source' = source
    <3>1. recorder # t /\ turn # t
      BY <2>3 DEF Sound, Submitted
    <3> QED
      BY <1>2, <1>3, <1>4, <1>6, <2>3, <3>1 DEF Sound
  <2> QED
    BY <2>1, <2>2, <2>3
<1> QED
  BY <1>5, <1>6

LEMMA TranscriptStep ==
  ASSUME IInv, Transcript
  PROVE  IInv'
<1>1. /\ UNCHANGED <<link, ready, recordingVars, source, runVars, told>>
      /\ loop = "stt" /\ loop' = "receive" /\ turn' = None /\ Send
      /\ work' = work \/ work' = [work EXCEPT ![turn] = "begin"]
  BY DEF Transcript
<1>2. Steady
  BY <1>1, SendSteady DEF IInv
<1>3. turn \in Turns
  BY <1>1 DEF IInv, Names
<1>4. work' \in [Turns -> {"none", "begin", "posting", "done"}]
      /\ \A u \in Turns : u # turn => work'[u] = work[u]
  BY <1>1 DEF IInv, Names
<1>5. Flags'
  BY <1>1, <1>2 DEF IInv, Flags, Steady, recordingVars
<1>6. Names'
  BY <1>1, <1>4 DEF IInv, Names, recordingVars
<1>7. Followed'
  BY <1>1 DEF IInv, Followed, runVars
<1>8. Sound'
  BY <1>1, <1>2, <1>3, <1>4, SubmitStep, NoTurnAssumption DEF IInv
<1> QED
  BY <1>5, <1>6, <1>7, <1>8 DEF IInv

LEMMA TextStep ==
  ASSUME IInv, NEW t \in Turns, TextSubmit(t)
  PROVE  IInv'
<1>1. /\ UNCHANGED <<link, loop, turn, ready, recordingVars, runVars, told>>
      /\ source[t] = "none" /\ source' = [source EXCEPT ![t] = "text"] /\ Send
      /\ work' = work \/ work' = [work EXCEPT ![t] = "begin"]
  BY DEF TextSubmit
<1>2. Steady
  BY <1>1, SendSteady DEF IInv
<1>3. work' \in [Turns -> {"none", "begin", "posting", "done"}]
      /\ \A u \in Turns : u # t => work'[u] = work[u]
  BY <1>1 DEF IInv, Names
<1>4. turn # t
  BY <1>1 DEF IInv, Sound
<1>5. Flags'
  BY <1>1, <1>2 DEF IInv, Flags, Steady, recordingVars
<1>6. Names'
  BY <1>1, <1>3 DEF IInv, Names, recordingVars
<1>7. Followed'
  BY <1>1 DEF IInv, Followed, runVars
<1>8. Sound'
  BY <1>1, <1>2, <1>3, <1>4, SubmitStep DEF IInv
<1> QED
  BY <1>5, <1>6, <1>7, <1>8 DEF IInv

LEMMA AnsweredStep ==
  ASSUME IInv, NEW t \in Turns, Answered(t)
  PROVE  IInv'
<1>1. /\ UNCHANGED <<link, loop, turn, ready, recordingVars, source>>
      /\ work[t] \in {"begin", "posting"}
      /\ work' = [work EXCEPT ![t] = "posting"] \/ work' = [work EXCEPT ![t] = "done"]
  BY DEF Answered, Begin, BeginRefused, Accepted, Rejected, Ambiguous
<1>2. Steady /\ told' \subseteq told \cup {<<u, "outcome">> : u \in Turns}
  <2>1. CASE UNCHANGED <<attached, told>>
    BY <2>1, StaySteady DEF IInv
  <2>2. CASE Tell(t, "outcome")
    BY <2>2, TellSteady DEF IInv
  <2> QED
    BY <2>1, <2>2 DEF Answered, Begin, BeginRefused, Accepted, Rejected, Ambiguous
<1>3. /\ work' \in [Turns -> {"none", "begin", "posting", "done"}]
      /\ \A u \in Turns : u # t => work'[u] = work[u]
      /\ Submitted(t)
  BY <1>1 DEF IInv, Names, Submitted
<1>4. turn # t
  BY <1>3 DEF IInv, Sound, Submitted
<1>5. Flags'
  BY <1>1, <1>2 DEF IInv, Flags, Steady, recordingVars
<1>6. Names'
  BY <1>1, <1>2, <1>3 DEF IInv, Names, recordingVars
<1>7. Followed'
  BY DEF Answered, Begin, BeginRefused, Accepted, Rejected, Ambiguous, Subscribe, IInv,
         Followed, Runs, Free, Locked, runVars
<1>8. Sound'
  BY <1>1, <1>2, <1>3, <1>4, SubmitStep DEF IInv
<1> QED
  BY <1>5, <1>6, <1>7, <1>8 DEF IInv

-----------------------------------------------------------------------------
(* The end of the socket *)

LEMMA CloseStep ==
  ASSUME IInv, Close
  PROVE  IInv'
<1>1. /\ UNCHANGED <<link, turn, ready, spoiled, source, work, run, fresh, over, latest, told>>
      /\ loop = "receive" /\ loop' = "closed" /\ attached' = FALSE /\ timer' = None
      /\ recorder' = None /\ {captured', late', mismatched'} = {FALSE}
      /\ Release
  BY DEF Close, Reset
<1>2. Steady
  BY <1>1 DEF Steady
<1>3. Flags'
  BY <1>1 DEF IInv, Flags
<1>4. Names'
  BY <1>1 DEF IInv, Names
<1>5. Followed'
  BY <1>1 DEF IInv, Followed, Release, Gone
<1>6. Sound'
  <2>1. \A t \in Turns : recorder' # t
    BY <1>1, NoTurnAssumption
  <2>2. \A t \in Turns : Stopped(t)'
    BY <1>1 DEF Stopped
  <2> QED
    BY <1>1, <2>1, <2>2 DEF IInv, Sound, Submitted, Told
<1> QED
  BY <1>3, <1>4, <1>5, <1>6 DEF IInv

LEMMA StutterStep ==
  ASSUME IInv, UNCHANGED vars
  PROVE  IInv'
<1>1. UNCHANGED <<link, attached, loop, turn, ready, recordingVars, source, work, runVars, told>>
  BY DEF vars
<1>2. Flags'
  BY <1>1 DEF IInv, Flags, recordingVars
<1>3. Names' /\ Sound'
  BY <1>1, StaySteady, ElsewhereStep, ElsewhereNames DEF IInv, Names
<1>4. Followed'
  BY <1>1 DEF IInv, Followed, runVars
<1> QED
  BY <1>2, <1>3, <1>4 DEF IInv

LEMMA NextIInv == IInv /\ [Next]_vars => IInv'
BY HelloStep, RunStep, ReaderStep, DisconnectStep, RecordingRuns, StartStep, StopStep, CancelStep,
   TranscriptStep, TextStep, AnsweredStep, CloseStep, StutterStep
DEF Next, Recording

-----------------------------------------------------------------------------
(* Theorems *)

(* A turn of the page is recorded, transcribed and submitted, or typed and *)
(* submitted (handle_voice_socket and RecordingSession).                   *)
THEOREM Ordered == Spec => []IInv
BY InitIInv, NextIInv, PTL DEF Spec

(* Type correctness. *)
THEOREM TypeCorrect == Spec => []TypeOK
<1>1. IInv => TypeOK
  BY DEF IInv, Flags, Names, Followed, TypeOK
<1> QED
  BY Ordered, <1>1, PTL

(* What ran too long, grew too large or was discarded is never submitted,  *)
(* in whatever order timers, discards and transcripts come.                *)
THEOREM SoundRecordings == Spec => []OnlySoundRecordings
<1>1. IInv => OnlySoundRecordings
  BY DEF IInv, Sound, Stopped, OnlySoundRecordings
<1> QED
  BY Ordered, <1>1, PTL
=============================================================================
