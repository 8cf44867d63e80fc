----------------------------- MODULE RealtimeCall -----------------------------
(***************************************************************************)
(* The realtime calls of a page: useRealtimeSession (frontend, console/),  *)
(* which owns the microphone, the turn mode and the manual turns, with the *)
(* RealtimeClient (lib/) that negotiates the media of a call, and the      *)
(* RealtimeControlClient that carries its commands.  What the control      *)
(* client makes of events is the subject of RealtimeReplay.                *)
(*                                                                         *)
(* A call is one RealtimeClient with its control client.  A handler of the *)
(* page runs to its end, so a step is a user's action as far as the page   *)
(* offers it, the continuation of an await, or a callback of the browser.  *)
(* Faults are not limited in number.                                       *)
(***************************************************************************)

EXTENDS Naturals

CONSTANTS
  Calls,   (* the calls of this page, in any order *)
  NoCall   (* mediaRef.current is null             *)

ASSUME NoCallAssumption == NoCall \notin Calls

VARIABLES
  (* the page: refs and states of useRealtimeSession *)
  current,      (* mediaRef.current                                        *)
  opening,      (* connectRef.current is a promise                         *)
  display,      (* mediaState, which all calls of the page write           *)
  muted,        (* mutedRef                                                *)
  mode,         (* turnModeRef                                             *)
  locked,       (* manualRecoveryRequiredRef                               *)
  turn,         (* the state of manualTurnRef; "stuck" is a discarding one *)
                (* whose request has failed                                *)
  capture,      (* manualCaptureState; "retry" is a retryable error        *)
  modeAsk,      (* the mode modeRequestRef waits for                       *)
  orphans,      (* requests in flight of turns manualTurnRef has left      *)
  mixed,        (* a turn of this call was started during a mode request   *)
  (* its calls *)
  media,        (* where RealtimeClient.open is suspended                  *)
  owned,        (* calls whose client has a session                        *)
  track,        (* the microphone: "none" without a stream                 *)
  peer,         (* the peer connection                                     *)
  control,      (* the control client                                      *)
  attached,     (* calls whose first control.connect() succeeded           *)
  (* their sessions *)
  told,         (* sessions whose document has arrived                     *)
  released,     (* close requests sent for a session                       *)
  sessionMode,  (* the turn mode of a session in Hermes                    *)
  wire          (* mode changes Hermes has not decided yet                 *)

turnVars    == <<turn, capture, modeAsk, orphans, locked, mixed>>
pageVars    == <<current, opening, display, muted, mode>>
mediaVars   == <<media, owned, track, peer, told, released>>
controlVars == <<control, attached>>
hermesVars  == <<sessionMode, wire>>
vars == <<turnVars, pageVars, mediaVars, controlVars, hermesVars>>

Modes    == {"server_vad", "manual"}
InFlight == {"committing", "discarding"}
Active   == InFlight \cup {"capturing", "stuck"}

Fresh == {c \in Calls : media[c] = "none"}

\* RealtimeClient.setMuted
SetTrack(c, silent) ==
  IF track[c] = "none" THEN track
  ELSE [track EXCEPT ![c] = IF silent THEN "muted" ELSE "live"]

IsReady(c) == c # NoCall /\ control[c] \in {"ready", "degraded"}

\* Variant: a call that needs recovery is ready like any other.
Ready_Unlocked == current # NoCall /\ control[current] = "ready" /\ display = "connected"
\* The state "ready", in which the page offers its controls.
Ready ==
  /\ current # NoCall
  /\ control[current] = "ready"
  /\ display = "connected"
  /\ ~locked

-----------------------------------------------------------------------------
(* teardown, connect, close and a change of conversation *)

OfCurrent(f, x) == IF current = NoCall THEN f ELSE [f EXCEPT ![current] = x]

\* What close() aborts ends at once, the other awaits end later.
Aborted(stage) == IF stage \in {"microphone", "exchange", "releasing"} THEN stage ELSE "over"

\* teardown: the session of the call, if it has one, is asked to close.
Teardown ==
  /\ turn' = "none" /\ capture' = "idle" /\ modeAsk' = "none" /\ orphans' = {}
  /\ locked' = FALSE /\ mixed' = FALSE
  /\ control' = OfCurrent(control, "none")
  /\ track' = OfCurrent(track, "none")
  /\ peer' = OfCurrent(peer, "none")
  /\ released' = [c \in Calls |-> released[c] + IF c = current /\ c \in owned THEN 1 ELSE 0]
  /\ owned' = owned \ {current}

Hung == [c \in Calls |-> IF c = current THEN Aborted(media[c]) ELSE media[c]]

Open(c) ==
  /\ media' = [Hung EXCEPT ![c] = "microphone"]
  /\ current' = c
  /\ opening' = TRUE
  /\ display' = "connecting"
  /\ sessionMode' = [sessionMode EXCEPT ![c] = mode']

\* connect(): nothing to do while a call is opened, or if all is well with it.
Connect(c) ==
  /\ c \in Fresh
  /\ ~opening
  /\ ~(~locked /\ IsReady(current) /\ peer[current] = "up")
  /\ Teardown
  /\ UNCHANGED mode
  /\ Open(c)
  /\ UNCHANGED <<muted, attached, told, wire>>

\* Another conversation is selected: its call starts in automatic mode.
Switch(c) ==
  /\ c \in Fresh
  /\ Teardown
  /\ mode' = "server_vad"
  /\ Open(c)
  /\ UNCHANGED <<muted, attached, told, wire>>

EndCall ==
  /\ current # NoCall
  /\ Teardown
  /\ media' = Hung
  /\ current' = NoCall
  /\ opening' = FALSE
  /\ display' = "closed"
  /\ UNCHANGED <<muted, mode, attached, told, hermesVars>>

-----------------------------------------------------------------------------
(* RealtimeClient.open *)

At(c, stage) == media[c] = stage
Go(c, stage) == media' = [media EXCEPT ![c] = stage]

\* The promise of connect() is settled.
Settle(c) == opening' = (opening /\ c # current)

\* The user allows the microphone, perhaps after the call was closed.
GotMicrophone(c) ==
  /\ At(c, "microphone")
  /\ IF c = current
     THEN /\ Go(c, "negotiate")
          /\ track' = [track EXCEPT ![c] = "live"]
          /\ peer' = [peer EXCEPT ![c] = "new"]
     ELSE Go(c, "over") /\ UNCHANGED <<track, peer>>
  /\ UNCHANGED <<turnVars, pageVars, owned, told, released, controlVars, hermesVars>>

\* Outside the try block: nothing tells the state of the page.
MicrophoneDenied(c) ==
  /\ At(c, "microphone")
  /\ Go(c, "over")
  /\ Settle(c)
  /\ UNCHANGED <<turnVars, current, display, muted, mode, owned, track, peer, told, released,
                 controlVars, hermesVars>>

Offer(c) ==
  /\ At(c, "negotiate")
  /\ Go(c, "exchange")
  /\ UNCHANGED <<turnVars, pageVars, owned, track, peer, told, released, controlVars, hermesVars>>

\* The catch block of a call that is still the page's, and has no session.
Fail(c) ==
  /\ Go(c, "over")
  /\ display' = "failed"
  /\ track' = [track EXCEPT ![c] = "none"]
  /\ peer' = [peer EXCEPT ![c] = "none"]
  /\ Settle(c)

\* No offer, or no answer that names a session.
OpenFails(c) ==
  /\ media[c] \in {"negotiate", "exchange"}
  /\ IF c = current THEN Fail(c)
     ELSE Go(c, "over") /\ UNCHANGED <<display, track, peer, opening>>
  /\ UNCHANGED <<turnVars, current, muted, mode, owned, told, released, controlVars, hermesVars>>

\* Variant: the answer to a call that was closed is dropped.
Superseded_Silently(c) == UNCHANGED released
Superseded(c) == released' = [released EXCEPT ![c] = @ + 1]

\* The session exists: the client owns it, or gives it back at once.
Answered(c) ==
  /\ At(c, "exchange")
  /\ told' = told \cup {c}
  /\ IF c = current
     THEN Go(c, "activate") /\ owned' = owned \cup {c} /\ UNCHANGED released
     ELSE Go(c, "over") /\ Superseded(c) /\ UNCHANGED owned
  /\ UNCHANGED <<turnVars, pageVars, track, peer, controlVars, hermesVars>>

PeerUp(c) ==
  /\ At(c, "activate") /\ peer[c] = "new"
  /\ peer' = [peer EXCEPT ![c] = "up"]
  /\ UNCHANGED <<turnVars, pageVars, media, owned, track, told, released, controlVars, hermesVars>>

\* The media is connected: the control client is made and connects.
Connected(c) ==
  /\ At(c, "activate") /\ peer[c] = "up"
  /\ Go(c, "connected")
  /\ display' = "connected"
  /\ control' = [control EXCEPT ![c] = "attaching"]
  /\ UNCHANGED <<turnVars, current, opening, muted, mode, owned, track, peer, told, released,
                 attached, hermesVars>>

\* Variant: the session that is being released is still the client's.
Disown_Late(c) == UNCHANGED owned
Disown(c) == owned' = owned \ {c}

\* Activation is refused or times out, or the peer does not connect.
ActivateFails(c) ==
  /\ At(c, "activate")
  /\ Go(c, "releasing")
  /\ Disown(c)
  /\ released' = [released EXCEPT ![c] = @ + 1]
  /\ UNCHANGED <<turnVars, pageVars, track, peer, told, controlVars, hermesVars>>

\* The page is told that the media failed, whatever call it has by now.
ReleaseDone(c) ==
  /\ At(c, "releasing")
  /\ Fail(c)
  /\ UNCHANGED <<turnVars, current, muted, mode, owned, told, released, controlVars, hermesVars>>

PeerDrops(c) ==
  /\ At(c, "connected") /\ peer[c] = "up"
  /\ peer' = [peer EXCEPT ![c] = "down"]
  /\ display' = "failed"
  /\ UNCHANGED <<turnVars, current, opening, muted, mode, media, owned, track, told, released,
                 controlVars, hermesVars>>

\* A peer that connects again does not tell the page.
PeerReturns(c) ==
  /\ peer[c] = "down"
  /\ peer' = [peer EXCEPT ![c] = "up"]
  /\ UNCHANGED <<turnVars, pageVars, media, owned, track, told, released, controlVars, hermesVars>>

-----------------------------------------------------------------------------
(* The control client *)

SetControl(c, state) == control' = [control EXCEPT ![c] = state]

\* Variant: the microphone is left as it is.
MuteOnAttach_Not(c) == UNCHANGED track
MuteOnAttach(c) ==
  track' = IF mode = "manual" \/ muted THEN SetTrack(c, TRUE) ELSE track

Attach(c) ==
  /\ control[c] = "attaching"
  /\ SetControl(c, "ready")
  /\ attached' = attached \cup {c}
  /\ opening' = FALSE
  /\ MuteOnAttach(c)
  /\ UNCHANGED <<turnVars, current, display, muted, mode, media, owned, peer, told, released,
                 hermesVars>>

\* connect() fails; the control client goes on trying by itself ...
AttachFails(c) ==
  /\ control[c] = "attaching"
  /\ SetControl(c, "lost")
  /\ opening' = FALSE
  /\ UNCHANGED <<turnVars, current, display, muted, mode, mediaVars, attached, hermesVars>>

\* ... and nobody is told of its success but the state the page displays.
Reattach(c) ==
  /\ control[c] = "lost"
  /\ SetControl(c, "ready")
  /\ UNCHANGED <<turnVars, pageVars, mediaVars, attached, hermesVars>>

AnyTurnAsk == turn \in InFlight \/ orphans # {}

\* rejectCommands: every request in flight has failed.
FailAsks ==
  /\ modeAsk' = "none"
  /\ orphans' = {}
  /\ locked' = (locked \/ modeAsk # "none" \/ AnyTurnAsk)
  /\ muted' = (muted \/ modeAsk # "none")
  /\ track' = IF modeAsk # "none" THEN SetTrack(current, TRUE) ELSE track
  /\ turn' = CASE turn = "committing" -> "failed"
               [] turn = "discarding" -> "stuck"
               [] OTHER -> turn
  /\ capture' = IF AnyTurnAsk THEN "error" ELSE capture

\* The socket closes, or an error frame arrives, which leaves it open.
ControlBreaks(c) ==
  /\ control[c] \in {"ready", "degraded"}
  /\ \E state \in {"lost", "degraded"} : SetControl(c, state)
  /\ FailAsks
  /\ UNCHANGED <<current, opening, display, mode, mixed, media, owned, peer, told, released,
                 attached, hermesVars>>

\* Any other command: sending clears "degraded", a full send buffer sets it.
SendInput ==
  /\ IsReady(current)
  /\ \E state \in {"ready", "degraded"} : SetControl(current, state)
  /\ UNCHANGED <<turnVars, pageVars, mediaVars, attached, hermesVars>>

-----------------------------------------------------------------------------
(* Mute and turn mode *)

ToggleMute ==
  /\ Ready
  /\ capture \notin Active
  /\ muted' = ~muted
  /\ track' = SetTrack(current, ~muted \/ mode = "manual")
  /\ UNCHANGED <<turnVars, current, opening, display, mode, media, owned, peer, told, released,
                 controlVars, hermesVars>>

Other(m) == CHOOSE n \in Modes : n # m

AskMode ==
  /\ Ready
  /\ capture \notin Active /\ turn \notin Active
  /\ modeAsk = "none"
  /\ modeAsk' = Other(mode)
  /\ track' = IF Other(mode) = "manual" THEN SetTrack(current, TRUE) ELSE track
  /\ wire' = wire \cup {[call |-> current, mode |-> Other(mode)]}
  /\ UNCHANGED <<turn, capture, orphans, locked, mixed, pageVars, media, owned, peer, told,
                 released, controlVars, sessionMode>>

ModeAccepted ==
  /\ modeAsk # "none"
  /\ [call |-> current, mode |-> modeAsk] \notin wire
  /\ sessionMode[current] = modeAsk
  /\ mode' = modeAsk
  /\ modeAsk' = "none"
  /\ turn' = "none" /\ capture' = "idle"
  /\ orphans' = orphans \cup ({turn} \cap InFlight)
  /\ locked' = FALSE
  /\ track' = SetTrack(current, modeAsk = "manual" \/ muted)
  /\ UNCHANGED <<mixed, current, opening, display, muted, media, owned, peer, told, released,
                 controlVars, hermesVars>>

\* Variant: the page unmutes again as if nothing had been asked.
FailMode_Open ==
  /\ track' = SetTrack(current, muted)
  /\ UNCHANGED <<muted, locked>>
FailMode ==
  /\ muted' = TRUE
  /\ track' = SetTrack(current, TRUE)
  /\ locked' = TRUE

\* Refused, unknown, invalid or too late; Hermes may have done it or may yet.
ModeFails ==
  /\ modeAsk # "none"
  /\ modeAsk' = "none"
  /\ FailMode
  /\ UNCHANGED <<turn, capture, orphans, mixed, current, opening, display, mode, media, owned,
                 peer, told, released, controlVars, hermesVars>>

\* Hermes decides on a mode change: it is done, or will never be.
HermesDecides ==
  /\ \E w \in wire :
       /\ wire' = wire \ {w}
       /\ sessionMode' \in {sessionMode, [sessionMode EXCEPT ![w.call] = w.mode]}
  /\ UNCHANGED <<turnVars, pageVars, mediaVars, controlVars>>

-----------------------------------------------------------------------------
(* Manual turns *)

StartTurn ==
  /\ Ready
  /\ mode = "manual"
  /\ capture \in {"idle", "retry"} /\ turn \notin Active
  /\ turn' = "capturing" /\ capture' = "capturing"
  /\ muted' = FALSE
  /\ track' = SetTrack(current, FALSE)
  /\ mixed' = (mixed \/ modeAsk # "none")
  /\ UNCHANGED <<modeAsk, orphans, locked, current, opening, display, mode, media, owned, peer,
                 told, released, controlVars, hermesVars>>

\* commitManualTurn and discardManualTurn: muted first, then sent, once.
FinishTurn ==
  /\ Ready
  /\ mode = "manual"
  /\ capture = "capturing" /\ turn = "capturing"
  /\ turn' \in InFlight /\ capture' = turn'
  /\ track' = SetTrack(current, TRUE)
  /\ UNCHANGED <<modeAsk, orphans, locked, mixed, pageVars, media, owned, peer, told, released,
                 controlVars, hermesVars>>

Outcomes == {"accepted", "rejected", "unknown", "error"}

TurnAfter(op, outcome) ==
  CASE outcome = "accepted" -> IF op = "committing" THEN "complete" ELSE "none"
    [] outcome = "rejected" -> "failed"
    [] outcome = "unknown"  -> "complete"
    [] outcome = "error"    -> IF op = "committing" THEN "failed" ELSE "stuck"

\* Hermes had no audio to commit: the turn may be recorded again.
Empty(op, outcome) == op = "committing" /\ outcome = "rejected"

CaptureAfter(op, outcome) ==
  IF outcome = "accepted" THEN "idle" ELSE IF Empty(op, outcome) THEN "retry" ELSE "error"

\* The answer to the request of the turn, or of one that was replaced.
TurnReply ==
  /\ \E op \in InFlight, outcome \in Outcomes :
       /\ \/ turn = op /\ turn' = TurnAfter(op, outcome) /\ UNCHANGED orphans
          \/ op \in orphans /\ orphans' = orphans \ {op} /\ UNCHANGED turn
       /\ capture' = CaptureAfter(op, outcome)
       /\ locked' = (outcome # "accepted" /\ ~Empty(op, outcome))
  /\ UNCHANGED <<modeAsk, mixed, pageVars, mediaVars, controlVars, hermesVars>>

-----------------------------------------------------------------------------

Init ==
  /\ turn = "none" /\ capture = "idle" /\ modeAsk = "none" /\ orphans = {}
  /\ locked = FALSE /\ mixed = FALSE
  /\ current = NoCall /\ opening = FALSE /\ display = "closed"
  /\ muted = FALSE /\ mode = "server_vad"
  /\ media = [c \in Calls |-> "none"]
  /\ owned = {} /\ attached = {} /\ told = {}
  /\ track = [c \in Calls |-> "none"]
  /\ peer = [c \in Calls |-> "none"]
  /\ control = [c \in Calls |-> "none"]
  /\ released = [c \in Calls |-> 0]
  /\ sessionMode = [c \in Calls |-> "server_vad"]
  /\ wire = {}

User == EndCall \/ ToggleMute \/ AskMode \/ StartTurn \/ FinishTurn \/ SendInput

Next ==
  \/ User \/ ModeAccepted \/ ModeFails \/ TurnReply \/ HermesDecides
  \/ \E c \in Calls :
       \/ Connect(c) \/ Switch(c)
       \/ GotMicrophone(c) \/ MicrophoneDenied(c) \/ Offer(c) \/ OpenFails(c) \/ Answered(c)
       \/ PeerUp(c) \/ Connected(c) \/ ActivateFails(c) \/ ReleaseDone(c)
       \/ PeerDrops(c) \/ PeerReturns(c)
       \/ Attach(c) \/ AttachFails(c) \/ Reattach(c) \/ ControlBreaks(c)

Spec == Init /\ [][Next]_vars

-----------------------------------------------------------------------------
(* Properties *)

(* The variables keep their types; in particular no session is released    *)
(* twice.                                                                  *)
TypeOK ==
  /\ turn \in Active \cup {"none", "complete", "failed"}
  /\ capture \in InFlight \cup {"idle", "capturing", "error", "retry"}
  /\ modeAsk \in Modes \cup {"none"} /\ orphans \subseteq InFlight
  /\ locked \in BOOLEAN /\ mixed \in BOOLEAN
  /\ current \in Calls \cup {NoCall} /\ opening \in BOOLEAN
  /\ display \in {"closed", "connecting", "connected", "failed"}
  /\ muted \in BOOLEAN /\ mode \in Modes
  /\ media \in [Calls -> {"none", "microphone", "negotiate", "exchange", "activate",
                          "connected", "releasing", "over"}]
  /\ owned \subseteq Calls /\ attached \subseteq Calls /\ told \subseteq Calls
  /\ track \in [Calls -> {"none", "live", "muted"}]
  /\ peer \in [Calls -> {"none", "new", "up", "down"}]
  /\ control \in [Calls -> {"none", "attaching", "ready", "degraded", "lost"}]
  /\ released \in [Calls -> {0, 1}]
  /\ sessionMode \in [Calls -> Modes]
  /\ wire \subseteq [call : Calls, mode : Modes]

(* The microphone does what the page says.  A call that was closed has     *)
(* none, also if the user allows it afterwards.  Once the control client   *)
(* is attached, it sends nothing while the page says that it is muted, nor *)
(* in manual mode between turns, nor while the call waits for recovery;    *)
(* and it sends while a turn is recorded.  (Before, it is live whatever    *)
(* the page says, and stays so if the first attempt to attach fails.)      *)
MicrophoneObeys ==
  /\ \A c \in Calls \ {current} : track[c] = "none"
  /\ current \in attached /\ track[current] = "live" =>
       /\ ~muted
       /\ mode = "manual" => turn = "capturing"
       /\ locked => mixed
  /\ turn = "capturing" /\ ~locked /\ ~mixed => track[current] = "live"

(* After a request whose outcome is not known the call stays unusable      *)
(* until it is replaced: no answer that is still on its way unlocks it,    *)
(* unless a turn was started while a mode change was pending.              *)
LockHolds ==
  [][locked /\ ~mixed /\ current' = current => locked']_vars

(* The page and Hermes agree on the turn mode of a call that is not locked *)
(* and has asked for no change, whatever was lost or came late.            *)
ModesAgree ==
  current \in attached /\ ~locked /\ ~mixed /\ modeAsk = "none" =>
    sessionMode[current] = mode

(* A session the page has heard of is released once, and that when the     *)
(* page uses it no longer: however the opening of a call, its failure, the *)
(* end of the call and the next call fall together.                        *)
SessionsAreReleased ==
  /\ owned \subseteq {current}
  /\ \A c \in told : released[c] = IF c \in owned THEN 0 ELSE 1
=============================================================================
