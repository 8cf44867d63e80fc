------------------------- MODULE RealtimeCallProofs -------------------------
(***************************************************************************)
(* Theorems about the calls of a page: for any number of calls and faults, *)
(* whatever is lost or late, the microphone does what the page says, page  *)
(* and Hermes agree on the turn mode, a call in doubt stays locked, and    *)
(* every session is given back once.                                       *)
(***************************************************************************)
EXTENDS RealtimeCall, TLAPS

(* TypeOK in two parts: its flags, and what is not a flag. *)
Flags == {opening, muted, locked, mixed} \subseteq BOOLEAN

Names ==
  /\ turn \in Active \cup {"none", "complete", "failed"}
  /\ capture \in InFlight \cup {"idle", "capturing", "error", "retry"}
  /\ modeAsk \in Modes \cup {"none"} /\ orphans \subseteq InFlight
  /\ current \in Calls \cup {NoCall}
  /\ display \in {"closed", "connecting", "connected", "failed"}
  /\ mode \in Modes

Parts ==
  /\ media \in [Calls -> {"none", "microphone", "negotiate", "exchange", "activate",
                          "connected", "releasing", "over"}]
  /\ owned \subseteq Calls /\ attached \subseteq Calls /\ told \subseteq Calls
  /\ track \in [Calls -> {"none", "live", "muted"}]
  /\ peer \in [Calls -> {"none", "new", "up", "down"}]
  /\ control \in [Calls -> {"none", "attaching", "ready", "degraded", "lost"}]
  /\ released \in [Calls -> {0, 1}]
  /\ sessionMode \in [Calls -> Modes]
  /\ wire \subseteq [call : Calls, mode : Modes]

(* Where the session of a call is while it is opened: nobody has heard of  *)
(* it before the answer, and the client owns it until it fails or is torn  *)
(* down, which is when it is released.                                     *)
Owned ==
  /\ owned \subseteq {current} \cap told
  /\ \A c \in Calls :
       /\ released[c] = IF c \in told \ owned THEN 1 ELSE 0
       /\ media[c] \in {"none", "microphone", "negotiate", "exchange"} => c \notin told
       /\ media[c] \in {"activate", "connected"} => c \in owned

(* Only the current call is controlled, when its media is connected, and   *)
(* its microphone is there from the negotiation on.                        *)
Opened ==
  /\ \A c \in Calls :
       /\ media[c] = "none" => c # current /\ (\A w \in wire : w.call # c)
       /\ c = current /\ media[c] \in {"negotiate", "exchange", "activate", "connected"} =>
            track[c] # "none"
       /\ control[c] # "none" => c = current /\ media[c] = "connected"
       /\ c \in attached => media[c] \in {"connected", "over"}
       /\ control[c] = "attaching" => c \notin attached

(* A call that is not attached yet has neither a turn nor a lock. *)
Quiet ==
  current = NoCall \/ control[current] \in {"none", "attaching"} =>
    turn = "none" /\ modeAsk = "none" /\ orphans = {} /\ ~locked

(* One request at a time, unless a turn was started during a mode change:  *)
(* and none is in flight while the call is locked.                         *)
OneAsk ==
  /\ turn \in Active => mode = "manual"
  /\ orphans # {} => mixed
  /\ modeAsk # "none" /\ turn \in Active => mixed
  /\ ~mixed /\ locked => modeAsk = "none" /\ turn \notin InFlight
  /\ ~mixed /\ turn = "capturing" => capture = "capturing"

(* What Hermes may still make of the current call is what the page asked. *)
Asked ==
  current # NoCall /\ ~locked /\ ~mixed =>
    /\ sessionMode[current] \in {mode, modeAsk}
    /\ \A w \in wire : w.call = current => w.mode = modeAsk

IInv == Flags /\ Names /\ Parts /\ Owned /\ Opened /\ Quiet /\ OneAsk /\ MicrophoneObeys /\ Asked

-----------------------------------------------------------------------------
(* Initial states *)

LEMMA InitIInv == Init => IInv
<1> SUFFICES ASSUME Init PROVE IInv
  OBVIOUS
<1>1. Flags /\ Names /\ Parts
  BY DEF Init, Flags, Names, Parts, Modes
<1>2. Owned /\ Opened
  BY NoCallAssumption DEF Init, Owned, Opened
<1>3. Quiet /\ OneAsk /\ MicrophoneObeys /\ Asked
  BY NoCallAssumption DEF Init, Quiet, OneAsk, MicrophoneObeys, Asked, Active, InFlight
<1> QED
  BY <1>1, <1>2, <1>3 DEF IInv

(* There is another mode. *)
LEMMA OtherMode ==
  \A m \in Modes : Other(m) \in Modes /\ Other(m) # m /\ (m = "manual" => Other(m) # "manual")
BY DEF Other, Modes

-----------------------------------------------------------------------------
(* teardown, connect, close and a change of conversation *)

LEMMA Connect_Step ==
  ASSUME NEW c \in Calls, IInv, Connect(c)
  PROVE  IInv'
<1>1. Flags'
  BY DEF IInv, Flags, Connect, Teardown, Open
<1>2. Names'
  BY DEF IInv, Names, Connect, Teardown, Open
<1>3. Parts'
  BY DEF IInv, Names, Parts, Owned, Connect, Teardown, Hung, Open, OfCurrent, Aborted
<1>4. Owned'
  BY DEF IInv, Owned, Connect, Teardown, Hung, Open, Aborted, Fresh
<1>5. Opened'
  BY NoCallAssumption DEF IInv, Parts, Opened, Connect, Teardown, Hung, Open, OfCurrent,
    Aborted, Fresh
<1>6. Quiet'
  BY DEF IInv, Quiet, Connect, Teardown
<1>7. OneAsk'
  BY DEF IInv, OneAsk, Connect, Teardown, Active, InFlight
<1>8. MicrophoneObeys'
  BY NoCallAssumption DEF IInv, Parts, MicrophoneObeys, Connect, Teardown, OfCurrent
<1>9. Asked'
  BY DEF IInv, Parts, Opened, Asked, Connect, Open, Fresh
<1> QED
  BY <1>1, <1>2, <1>3, <1>4, <1>5, <1>6, <1>7, <1>8, <1>9 DEF IInv

LEMMA Switch_Step ==
  ASSUME NEW c \in Calls, IInv, Switch(c)
  PROVE  IInv'
<1>1. Flags'
  BY DEF IInv, Flags, Switch, Teardown, Open
<1>2. Names'
  BY DEF IInv, Names, Switch, Teardown, Open, Modes
<1>3. Parts'
  BY DEF IInv, Names, Parts, Owned, Switch, Teardown, Hung, Open, OfCurrent, Aborted,
    Modes
<1>4. Owned'
  BY DEF IInv, Owned, Switch, Teardown, Hung, Open, Aborted, Fresh
<1>5. Opened'
  BY NoCallAssumption DEF IInv, Parts, Opened, Switch, Teardown, Hung, Open, OfCurrent,
    Aborted, Fresh
<1>6. Quiet'
  BY DEF IInv, Quiet, Switch, Teardown
<1>7. OneAsk'
  BY DEF IInv, OneAsk, Switch, Teardown, Active, InFlight
<1>8. MicrophoneObeys'
  BY NoCallAssumption DEF IInv, Parts, MicrophoneObeys, Switch, Teardown, OfCurrent
<1>9. Asked'
  BY DEF IInv, Parts, Opened, Asked, Switch, Open, Fresh
<1> QED
  BY <1>1, <1>2, <1>3, <1>4, <1>5, <1>6, <1>7, <1>8, <1>9 DEF IInv

LEMMA EndCall_Step ==
  ASSUME IInv, EndCall
  PROVE  IInv'
<1>1. Flags'
  BY DEF IInv, Flags, EndCall, Teardown
<1>2. Names'
  BY DEF IInv, Names, EndCall, Teardown
<1>3. Parts'
  BY DEF IInv, Names, Parts, Owned, EndCall, Teardown, Hung, OfCurrent, Aborted,
    hermesVars
<1>4. Owned'
  BY DEF IInv, Owned, EndCall, Teardown, Hung, Aborted
<1>5. Opened'
  BY NoCallAssumption DEF IInv, Parts, Opened, EndCall, Teardown, Hung, OfCurrent,
    Aborted, hermesVars
<1>6. Quiet'
  BY DEF IInv, Quiet, EndCall, Teardown
<1>7. OneAsk'
  BY DEF IInv, OneAsk, EndCall, Teardown, Active, InFlight
<1>8. MicrophoneObeys'
  BY DEF IInv, Parts, MicrophoneObeys, EndCall, Teardown, OfCurrent
<1>9. Asked'
  BY DEF IInv, Asked, EndCall
<1> QED
  BY <1>1, <1>2, <1>3, <1>4, <1>5, <1>6, <1>7, <1>8, <1>9 DEF IInv

-----------------------------------------------------------------------------
(* RealtimeClient.open *)

LEMMA GotMicrophone_Step ==
  ASSUME NEW c \in Calls, IInv, GotMicrophone(c)
  PROVE  IInv'
<1>1. (Flags /\ Names /\ Quiet /\ OneAsk /\ Asked)'
  BY DEF IInv, Flags, Names, Quiet, OneAsk, Asked, GotMicrophone, turnVars, pageVars,
    controlVars, hermesVars
<1>2. Parts'
  BY DEF IInv, Parts, GotMicrophone, Go, controlVars, hermesVars
<1>3. Owned'
  BY DEF IInv, Parts, Owned, GotMicrophone, At, Go, pageVars
<1>4. Opened'
  BY DEF IInv, Parts, Opened, GotMicrophone, At, Go, pageVars, controlVars, hermesVars
<1>5. MicrophoneObeys'
  BY DEF IInv, Parts, Opened, MicrophoneObeys, GotMicrophone, At, turnVars, pageVars,
    controlVars
<1> QED
  BY <1>1, <1>2, <1>3, <1>4, <1>5 DEF IInv

LEMMA MicrophoneDenied_Step ==
  ASSUME NEW c \in Calls, IInv, MicrophoneDenied(c)
  PROVE  IInv'
<1>1. (Names /\ Quiet /\ OneAsk /\ MicrophoneObeys /\ Asked)'
  BY DEF IInv, Names, Quiet, OneAsk, MicrophoneObeys, Asked, MicrophoneDenied, turnVars,
    controlVars, hermesVars
<1>2. Flags'
  BY DEF IInv, Flags, MicrophoneDenied, Settle, turnVars
<1>3. Parts'
  BY DEF IInv, Parts, MicrophoneDenied, Go, controlVars, hermesVars
<1>4. Owned'
  BY DEF IInv, Owned, MicrophoneDenied, Go
<1>5. Opened'
  BY DEF IInv, Opened, MicrophoneDenied, At, Go, controlVars, hermesVars
<1> QED
  BY <1>1, <1>2, <1>3, <1>4, <1>5 DEF IInv

LEMMA Offer_Step ==
  ASSUME NEW c \in Calls, IInv, Offer(c)
  PROVE  IInv'
<1>1. (Flags /\ Names /\ Quiet /\ OneAsk /\ MicrophoneObeys /\ Asked)'
  BY DEF IInv, Flags, Names, Quiet, OneAsk, MicrophoneObeys, Asked, Offer, turnVars,
    pageVars, controlVars, hermesVars
<1>2. Parts'
  BY DEF IInv, Parts, Offer, Go, controlVars, hermesVars
<1>3. Owned'
  BY DEF IInv, Owned, Offer, At, Go, pageVars
<1>4. Opened'
  BY DEF IInv, Opened, Offer, At, Go, pageVars, controlVars, hermesVars
<1> QED
  BY <1>1, <1>2, <1>3, <1>4 DEF IInv

LEMMA OpenFails_Step ==
  ASSUME NEW c \in Calls, IInv, OpenFails(c)
  PROVE  IInv'
<1>1. (Quiet /\ OneAsk /\ Asked)'
  BY DEF IInv, Quiet, OneAsk, Asked, OpenFails, turnVars, controlVars, hermesVars
<1>2. Flags'
  BY DEF IInv, Flags, Opened, Quiet, OpenFails, Fail, Settle, turnVars
<1>3. Names'
  BY DEF IInv, Names, OpenFails, Fail, turnVars
<1>4. Parts'
  BY DEF IInv, Parts, OpenFails, Fail, Go, controlVars, hermesVars
<1>5. Owned'
  BY DEF IInv, Parts, Owned, OpenFails, Fail, Go
<1>6. Opened'
  BY DEF IInv, Parts, Opened, OpenFails, Fail, Go, controlVars, hermesVars
<1>7. MicrophoneObeys'
  BY DEF IInv, Parts, Opened, Quiet, MicrophoneObeys, OpenFails, Fail, turnVars,
    controlVars
<1> QED
  BY <1>1, <1>2, <1>3, <1>4, <1>5, <1>6, <1>7 DEF IInv

LEMMA Answered_Step ==
  ASSUME NEW c \in Calls, IInv, Answered(c)
  PROVE  IInv'
<1>1. (Flags /\ Names /\ Quiet /\ OneAsk /\ MicrophoneObeys /\ Asked)'
  BY DEF IInv, Flags, Names, Quiet, OneAsk, MicrophoneObeys, Asked, Answered, turnVars,
    pageVars, controlVars, hermesVars
<1>2. Parts'
  BY DEF IInv, Parts, Owned, Answered, At, Go, Superseded, controlVars, hermesVars
<1>3. Owned'
  BY DEF IInv, Parts, Owned, Answered, At, Go, Superseded, pageVars
<1>4. Opened'
  BY DEF IInv, Parts, Opened, Answered, At, Go, pageVars, controlVars, hermesVars
<1> QED
  BY <1>1, <1>2, <1>3, <1>4 DEF IInv

LEMMA PeerUp_Step ==
  ASSUME NEW c \in Calls, IInv, PeerUp(c)
  PROVE  IInv'
<1>1. (Flags /\ Names /\ Owned /\ Opened /\ Quiet /\ OneAsk /\ MicrophoneObeys /\ Asked)'
  BY DEF IInv, Flags, Names, Owned, Opened, Quiet, OneAsk, MicrophoneObeys, Asked,
    PeerUp, turnVars, pageVars, controlVars, hermesVars
<1>2. Parts'
  BY DEF IInv, Parts, PeerUp, controlVars, hermesVars
<1> QED
  BY <1>1, <1>2 DEF IInv

LEMMA Connected_Step ==
  ASSUME NEW c \in Calls, IInv, Connected(c)
  PROVE  IInv'
<1>1. (Flags /\ OneAsk /\ MicrophoneObeys /\ Asked)'
  BY DEF IInv, Flags, OneAsk, MicrophoneObeys, Asked, Connected, turnVars, hermesVars
<1>2. Names'
  BY DEF IInv, Names, Connected, turnVars
<1>3. Parts'
  BY DEF IInv, Parts, Connected, Go, hermesVars
<1>4. Owned'
  BY DEF IInv, Owned, Connected, At, Go
<1>5. Opened'
  BY DEF IInv, Parts, Owned, Opened, Connected, At, Go, hermesVars
<1>6. Quiet'
  BY DEF IInv, Opened, Quiet, Connected, At, turnVars
<1> QED
  BY <1>1, <1>2, <1>3, <1>4, <1>5, <1>6 DEF IInv

LEMMA ActivateFails_Step ==
  ASSUME NEW c \in Calls, IInv, ActivateFails(c)
  PROVE  IInv'
<1>1. (Flags /\ Names /\ Quiet /\ OneAsk /\ MicrophoneObeys /\ Asked)'
  BY DEF IInv, Flags, Names, Quiet, OneAsk, MicrophoneObeys, Asked, ActivateFails,
    turnVars, pageVars, controlVars, hermesVars
<1>2. Parts'
  BY DEF IInv, Parts, Owned, ActivateFails, At, Go, Disown, controlVars, hermesVars
<1>3. Owned'
  BY DEF IInv, Parts, Owned, ActivateFails, At, Go, Disown
<1>4. Opened'
  BY DEF IInv, Opened, ActivateFails, At, Go, pageVars, controlVars, hermesVars
<1> QED
  BY <1>1, <1>2, <1>3, <1>4 DEF IInv

LEMMA ReleaseDone_Step ==
  ASSUME NEW c \in Calls, IInv, ReleaseDone(c)
  PROVE  IInv'
<1>1. (Quiet /\ OneAsk /\ Asked)'
  BY DEF IInv, Quiet, OneAsk, Asked, ReleaseDone, turnVars, controlVars, hermesVars
<1>2. Flags'
  BY DEF IInv, Flags, ReleaseDone, Fail, Settle, turnVars
<1>3. Names'
  BY DEF IInv, Names, ReleaseDone, Fail, turnVars
<1>4. Parts'
  BY DEF IInv, Parts, ReleaseDone, Fail, Go, controlVars, hermesVars
<1>5. Owned'
  BY DEF IInv, Owned, ReleaseDone, Fail, Go
<1>6. Opened'
  BY DEF IInv, Opened, ReleaseDone, At, Fail, Go, controlVars, hermesVars
<1>7. MicrophoneObeys'
  BY DEF IInv, Opened, Quiet, MicrophoneObeys, ReleaseDone, At, Fail, turnVars,
    controlVars
<1> QED
  BY <1>1, <1>2, <1>3, <1>4, <1>5, <1>6, <1>7 DEF IInv

LEMMA PeerDrops_Step ==
  ASSUME NEW c \in Calls, IInv, PeerDrops(c)
  PROVE  IInv'
<1>1. (Flags /\ Owned /\ Opened /\ Quiet /\ OneAsk /\ MicrophoneObeys /\ Asked)'
  BY DEF IInv, Flags, Owned, Opened, Quiet, OneAsk, MicrophoneObeys, Asked, PeerDrops,
    turnVars, controlVars, hermesVars
<1>2. Names'
  BY DEF IInv, Names, PeerDrops, turnVars
<1>3. Parts'
  BY DEF IInv, Parts, PeerDrops, controlVars, hermesVars
<1> QED
  BY <1>1, <1>2, <1>3 DEF IInv

LEMMA PeerReturns_Step ==
  ASSUME NEW c \in Calls, IInv, PeerReturns(c)
  PROVE  IInv'
<1>1. (Flags /\ Names /\ Owned /\ Opened /\ Quiet /\ OneAsk /\ MicrophoneObeys /\ Asked)'
  BY DEF IInv, Flags, Names, Owned, Opened, Quiet, OneAsk, MicrophoneObeys, Asked,
    PeerReturns, turnVars, pageVars, controlVars, hermesVars
<1>2. Parts'
  BY DEF IInv, Parts, PeerReturns, controlVars, hermesVars
<1> QED
  BY <1>1, <1>2 DEF IInv

-----------------------------------------------------------------------------
(* The control client *)

LEMMA Attach_Step ==
  ASSUME NEW c \in Calls, IInv, Attach(c)
  PROVE  IInv'
<1>1. (Names /\ Owned /\ OneAsk /\ Asked)'
  BY DEF IInv, Names, Owned, OneAsk, Asked, Attach, turnVars, hermesVars
<1>2. Flags'
  BY DEF IInv, Flags, Attach, turnVars
<1>3. Parts'
  BY DEF IInv, Parts, Attach, SetControl, MuteOnAttach, SetTrack, hermesVars
<1>4. Opened'
  BY DEF IInv, Parts, Opened, Attach, SetControl, MuteOnAttach, SetTrack, hermesVars
<1>5. Quiet'
  BY DEF IInv, Quiet, Attach, SetControl, turnVars
<1>6. MicrophoneObeys'
  BY DEF IInv, Parts, Quiet, MicrophoneObeys, Attach, MuteOnAttach, SetTrack, turnVars
<1> QED
  BY <1>1, <1>2, <1>3, <1>4, <1>5, <1>6 DEF IInv

LEMMA AttachFails_Step ==
  ASSUME NEW c \in Calls, IInv, AttachFails(c)
  PROVE  IInv'
<1>1. (Names /\ Owned /\ OneAsk /\ MicrophoneObeys /\ Asked)'
  BY DEF IInv, Names, Owned, OneAsk, MicrophoneObeys, Asked, AttachFails, turnVars,
    mediaVars, hermesVars
<1>2. Flags'
  BY DEF IInv, Flags, AttachFails, turnVars
<1>3. Parts'
  BY DEF IInv, Parts, AttachFails, SetControl, mediaVars, hermesVars
<1>4. Opened'
  BY DEF IInv, Opened, AttachFails, SetControl, mediaVars, hermesVars
<1>5. Quiet'
  BY DEF IInv, Quiet, AttachFails, SetControl, turnVars
<1> QED
  BY <1>1, <1>2, <1>3, <1>4, <1>5 DEF IInv

LEMMA Reattach_Step ==
  ASSUME NEW c \in Calls, IInv, Reattach(c)
  PROVE  IInv'
<1>1. (Flags /\ Names /\ Owned /\ OneAsk /\ MicrophoneObeys /\ Asked)'
  BY DEF IInv, Flags, Names, Owned, OneAsk, MicrophoneObeys, Asked, Reattach, turnVars,
    pageVars, mediaVars, hermesVars
<1>2. Parts'
  BY DEF IInv, Parts, Reattach, SetControl, mediaVars, hermesVars
<1>3. Opened'
  BY DEF IInv, Opened, Reattach, SetControl, pageVars, mediaVars, hermesVars
<1>4. Quiet'
  BY DEF IInv, Quiet, Reattach, SetControl, turnVars, pageVars
<1> QED
  BY <1>1, <1>2, <1>3, <1>4 DEF IInv

LEMMA ControlBreaks_Step ==
  ASSUME NEW c \in Calls, IInv, ControlBreaks(c)
  PROVE  IInv'
<1>1. Owned'
  BY DEF IInv, Owned, ControlBreaks
<1>2. Flags'
  BY DEF IInv, Flags, ControlBreaks, FailAsks
<1>3. Names'
  BY DEF IInv, Names, ControlBreaks, FailAsks, Active
<1>4. Parts'
  BY DEF IInv, Parts, Opened, ControlBreaks, SetControl, FailAsks, SetTrack, hermesVars
<1>5. Opened'
  BY DEF IInv, Opened, ControlBreaks, SetControl, FailAsks, SetTrack, hermesVars
<1>6. Quiet'
  BY NoCallAssumption DEF IInv, Opened, Quiet, ControlBreaks, SetControl
<1>7. OneAsk'
  BY DEF IInv, OneAsk, ControlBreaks, FailAsks, AnyTurnAsk, Active, InFlight
<1>8. MicrophoneObeys'
  BY DEF IInv, Flags, Parts, OneAsk, MicrophoneObeys, ControlBreaks, FailAsks,
    AnyTurnAsk, SetTrack, Active, InFlight
<1>9. Asked'
  BY DEF IInv, Asked, OneAsk, Names, ControlBreaks, FailAsks, hermesVars, Modes
<1> QED
  BY <1>1, <1>2, <1>3, <1>4, <1>5, <1>6, <1>7, <1>8, <1>9 DEF IInv

LEMMA SendInput_Step ==
  ASSUME IInv, SendInput
  PROVE  IInv'
<1>1. (Flags /\ Names /\ Owned /\ OneAsk /\ MicrophoneObeys /\ Asked)'
  BY DEF IInv, Flags, Names, Owned, OneAsk, MicrophoneObeys, Asked, SendInput, turnVars,
    pageVars, mediaVars, hermesVars
<1>2. Parts'
  BY DEF IInv, Names, Parts, SendInput, SetControl, IsReady, mediaVars, hermesVars
<1>3. Opened'
  BY DEF IInv, Opened, SendInput, SetControl, IsReady, pageVars, mediaVars, hermesVars
<1>4. Quiet'
  BY DEF IInv, Quiet, SendInput, SetControl, turnVars, pageVars
<1> QED
  BY <1>1, <1>2, <1>3, <1>4 DEF IInv

-----------------------------------------------------------------------------
(* Mute and turn mode *)

LEMMA ToggleMute_Step ==
  ASSUME IInv, ToggleMute
  PROVE  IInv'
<1>1. (Names /\ Owned /\ Quiet /\ OneAsk /\ Asked)'
  BY DEF IInv, Names, Owned, Quiet, OneAsk, Asked, ToggleMute, turnVars, controlVars,
    hermesVars
<1>2. Flags'
  BY DEF IInv, Flags, ToggleMute, turnVars
<1>3. Parts'
  BY DEF IInv, Names, Parts, ToggleMute, Ready, SetTrack, controlVars, hermesVars
<1>4. Opened'
  BY DEF IInv, Opened, ToggleMute, SetTrack, controlVars, hermesVars
<1>5. MicrophoneObeys'
  BY DEF IInv, Flags, Parts, OneAsk, MicrophoneObeys, ToggleMute, Ready, SetTrack,
    turnVars, controlVars, Active
<1> QED
  BY <1>1, <1>2, <1>3, <1>4, <1>5 DEF IInv

LEMMA AskMode_Step ==
  ASSUME IInv, AskMode
  PROVE  IInv'
<1>1. (Flags /\ Owned)'
  BY DEF IInv, Flags, Owned, AskMode, pageVars
<1>2. Names'
  BY OtherMode DEF IInv, Names, AskMode, pageVars
<1>3. Parts'
  BY OtherMode DEF IInv, Names, Parts, AskMode, Ready, SetTrack, controlVars
<1>4. Opened'
  BY DEF IInv, Opened, AskMode, SetTrack, pageVars, controlVars
<1>5. Quiet'
  BY DEF IInv, Quiet, AskMode, Ready, pageVars, controlVars
<1>6. OneAsk'
  BY DEF IInv, OneAsk, AskMode, Ready
<1>7. MicrophoneObeys'
  BY DEF IInv, MicrophoneObeys, AskMode, SetTrack, pageVars, controlVars, Active
<1>8. Asked'
  BY DEF IInv, Names, Parts, Asked, AskMode, pageVars, Modes
<1> QED
  BY <1>1, <1>2, <1>3, <1>4, <1>5, <1>6, <1>7, <1>8 DEF IInv

LEMMA ModeAccepted_Step ==
  ASSUME IInv, ModeAccepted
  PROVE  IInv'
<1>1. Owned'
  BY DEF IInv, Owned, ModeAccepted
<1>2. Flags'
  BY DEF IInv, Flags, ModeAccepted
<1>3. Names'
  BY DEF IInv, Names, ModeAccepted
<1>4. Parts'
  BY DEF IInv, Names, Parts, Quiet, ModeAccepted, SetTrack, controlVars, hermesVars
<1>5. Opened'
  BY DEF IInv, Opened, ModeAccepted, SetTrack, controlVars, hermesVars
<1>6. Quiet'
  BY DEF IInv, Quiet, ModeAccepted, controlVars
<1>7. OneAsk'
  BY DEF IInv, OneAsk, ModeAccepted, Active, InFlight
<1>8. MicrophoneObeys'
  BY DEF IInv, Parts, MicrophoneObeys, ModeAccepted, SetTrack, controlVars
<1>9. Asked'
  BY DEF IInv, Parts, OneAsk, Asked, ModeAccepted, hermesVars
<1> QED
  BY <1>1, <1>2, <1>3, <1>4, <1>5, <1>6, <1>7, <1>8, <1>9 DEF IInv

LEMMA ModeFails_Step ==
  ASSUME IInv, ModeFails
  PROVE  IInv'
<1>1. Owned'
  BY DEF IInv, Owned, ModeFails
<1>2. Flags'
  BY DEF IInv, Flags, ModeFails, FailMode
<1>3. Names'
  BY DEF IInv, Names, ModeFails
<1>4. Parts'
  BY DEF IInv, Names, Parts, Quiet, ModeFails, FailMode, SetTrack, controlVars,
    hermesVars
<1>5. Opened'
  BY DEF IInv, Opened, ModeFails, FailMode, SetTrack, controlVars, hermesVars
<1>6. Quiet'
  BY DEF IInv, Quiet, ModeFails, controlVars
<1>7. OneAsk'
  BY DEF IInv, OneAsk, ModeFails, Active
<1>8. MicrophoneObeys'
  BY DEF IInv, Parts, MicrophoneObeys, ModeFails, FailMode, SetTrack, controlVars
<1>9. Asked'
  BY DEF IInv, Asked, ModeFails, FailMode
<1> QED
  BY <1>1, <1>2, <1>3, <1>4, <1>5, <1>6, <1>7, <1>8, <1>9 DEF IInv

LEMMA HermesDecides_Step ==
  ASSUME IInv, HermesDecides
  PROVE  IInv'
<1>1. (Flags /\ Names /\ Owned /\ Quiet /\ OneAsk /\ MicrophoneObeys)'
  BY DEF IInv, Flags, Names, Owned, Quiet, OneAsk, MicrophoneObeys, HermesDecides,
    turnVars, pageVars, mediaVars, controlVars
<1>2. Parts'
  BY DEF IInv, Parts, HermesDecides, mediaVars, controlVars
<1>3. Opened'
  BY DEF IInv, Opened, HermesDecides, pageVars, mediaVars, controlVars
<1>4. Asked'
  BY DEF IInv, Names, Parts, Asked, HermesDecides, turnVars, pageVars
<1> QED
  BY <1>1, <1>2, <1>3, <1>4 DEF IInv

-----------------------------------------------------------------------------
(* Manual turns *)

LEMMA StartTurn_Step ==
  ASSUME IInv, StartTurn
  PROVE  IInv'
<1>1. Owned'
  BY DEF IInv, Owned, StartTurn
<1>2. Flags'
  BY DEF IInv, Flags, StartTurn
<1>3. Names'
  BY DEF IInv, Names, StartTurn, Active
<1>4. Parts'
  BY DEF IInv, Names, Parts, StartTurn, Ready, SetTrack, controlVars, hermesVars
<1>5. Opened'
  BY DEF IInv, Opened, StartTurn, SetTrack, controlVars, hermesVars
<1>6. Quiet'
  BY DEF IInv, Quiet, StartTurn, Ready, controlVars
<1>7. OneAsk'
  BY DEF IInv, Flags, OneAsk, StartTurn, Ready, Active, InFlight
<1>8. MicrophoneObeys'
  BY DEF IInv, Names, Parts, Opened, MicrophoneObeys, StartTurn, Ready, SetTrack
<1>9. Asked'
  BY DEF IInv, Flags, Asked, StartTurn, hermesVars
<1> QED
  BY <1>1, <1>2, <1>3, <1>4, <1>5, <1>6, <1>7, <1>8, <1>9 DEF IInv

LEMMA FinishTurn_Step ==
  ASSUME IInv, FinishTurn
  PROVE  IInv'
<1>1. (Flags /\ Owned /\ Asked)'
  BY DEF IInv, Flags, Owned, Asked, FinishTurn, pageVars, hermesVars
<1>2. Names'
  BY DEF IInv, Names, FinishTurn, pageVars, Active
<1>3. Parts'
  BY DEF IInv, Names, Parts, FinishTurn, Ready, SetTrack, controlVars, hermesVars
<1>4. Opened'
  BY DEF IInv, Opened, FinishTurn, SetTrack, pageVars, controlVars, hermesVars
<1>5. Quiet'
  BY DEF IInv, Quiet, FinishTurn, pageVars, controlVars
<1>6. OneAsk'
  BY DEF IInv, OneAsk, FinishTurn, Ready, pageVars, Active
<1>7. MicrophoneObeys'
  BY DEF IInv, Parts, MicrophoneObeys, FinishTurn, SetTrack, pageVars, controlVars,
    InFlight
<1> QED
  BY <1>1, <1>2, <1>3, <1>4, <1>5, <1>6, <1>7 DEF IInv

LEMMA TurnReply_Step ==
  ASSUME IInv, TurnReply
  PROVE  IInv'
<1>1. (Parts /\ Owned /\ Opened)'
  BY DEF IInv, Parts, Owned, Opened, TurnReply, pageVars, mediaVars, controlVars,
    hermesVars
<1>2. Flags'
  BY DEF IInv, Flags, TurnReply, pageVars
<1>3. Names'
  BY DEF IInv, Names, TurnReply, Outcomes, TurnAfter, CaptureAfter, pageVars, Active
<1>4. Quiet'
  BY DEF IInv, Quiet, TurnReply, pageVars, controlVars, InFlight
<1>5. OneAsk'
  BY DEF IInv, OneAsk, TurnReply, Outcomes, TurnAfter, pageVars, Active, InFlight
<1>6. MicrophoneObeys'
  BY DEF IInv, OneAsk, MicrophoneObeys, TurnReply, Outcomes, TurnAfter, pageVars,
    mediaVars, controlVars, Active, InFlight
<1>7. Asked'
  BY DEF IInv, OneAsk, Asked, TurnReply, pageVars, hermesVars
<1> QED
  BY <1>1, <1>2, <1>3, <1>4, <1>5, <1>6, <1>7 DEF IInv

-----------------------------------------------------------------------------
(* The theorems *)

LEMMA NextIInv == IInv /\ [Next]_vars => IInv'
<1> SUFFICES ASSUME IInv, [Next]_vars PROVE IInv'
  OBVIOUS
<1>1. CASE User
  BY <1>1, EndCall_Step, ToggleMute_Step, AskMode_Step, StartTurn_Step, FinishTurn_Step,
    SendInput_Step DEF User
<1>2. CASE ModeAccepted \/ ModeFails \/ TurnReply \/ HermesDecides
  BY <1>2, ModeAccepted_Step, ModeFails_Step, TurnReply_Step, HermesDecides_Step
<1>3. ASSUME NEW c \in Calls, Connect(c) PROVE IInv'
  BY <1>3, Connect_Step
<1>4. ASSUME NEW c \in Calls, Switch(c) PROVE IInv'
  BY <1>4, Switch_Step
<1>5. ASSUME NEW c \in Calls, GotMicrophone(c) PROVE IInv'
  BY <1>5, GotMicrophone_Step
<1>6. ASSUME NEW c \in Calls, MicrophoneDenied(c) PROVE IInv'
  BY <1>6, MicrophoneDenied_Step
<1>7. ASSUME NEW c \in Calls, Offer(c) PROVE IInv'
  BY <1>7, Offer_Step
<1>8. ASSUME NEW c \in Calls, OpenFails(c) PROVE IInv'
  BY <1>8, OpenFails_Step
<1>9. ASSUME NEW c \in Calls, Answered(c) PROVE IInv'
  BY <1>9, Answered_Step
<1>10. ASSUME NEW c \in Calls, PeerUp(c) PROVE IInv'
  BY <1>10, PeerUp_Step
<1>11. ASSUME NEW c \in Calls, Connected(c) PROVE IInv'
  BY <1>11, Connected_Step
<1>12. ASSUME NEW c \in Calls, ActivateFails(c) PROVE IInv'
  BY <1>12, ActivateFails_Step
<1>13. ASSUME NEW c \in Calls, ReleaseDone(c) PROVE IInv'
  BY <1>13, ReleaseDone_Step
<1>14. ASSUME NEW c \in Calls, PeerDrops(c) PROVE IInv'
  BY <1>14, PeerDrops_Step
<1>15. ASSUME NEW c \in Calls, PeerReturns(c) PROVE IInv'
  BY <1>15, PeerReturns_Step
<1>16. ASSUME NEW c \in Calls, Attach(c) PROVE IInv'
  BY <1>16, Attach_Step
<1>17. ASSUME NEW c \in Calls, AttachFails(c) PROVE IInv'
  BY <1>17, AttachFails_Step
<1>18. ASSUME NEW c \in Calls, Reattach(c) PROVE IInv'
  BY <1>18, Reattach_Step
<1>19. ASSUME NEW c \in Calls, ControlBreaks(c) PROVE IInv'
  BY <1>19, ControlBreaks_Step
<1>20. CASE UNCHANGED vars
  BY <1>20 DEF IInv, Flags, Names, Parts, Owned, Opened, Quiet, OneAsk, MicrophoneObeys, Asked,
    vars, turnVars, pageVars, mediaVars, controlVars, hermesVars
<1> QED
  BY <1>1, <1>2, <1>3, <1>4, <1>5, <1>6, <1>7, <1>8, <1>9, <1>10,
    <1>11, <1>12, <1>13, <1>14, <1>15, <1>16, <1>17, <1>18, <1>19, <1>20 DEF Next

(* The relations above hold in every state of every behaviour. *)
THEOREM Coherent == Spec => []IInv
<1>1. Init => IInv
  BY InitIInv
<1>2. IInv /\ [Next]_vars => IInv'
  BY NextIInv
<1> QED
  BY <1>1, <1>2, PTL DEF Spec

(* The variables keep their types, and no session is released twice. *)
THEOREM TypeCorrect == Spec => []TypeOK
<1>1. IInv => TypeOK
  BY DEF IInv, Flags, Names, Parts, TypeOK
<1> QED
  BY <1>1, Coherent, PTL

(* The microphone does what the page says. *)
THEOREM MicrophoneSafe == Spec => []MicrophoneObeys
<1>1. IInv => MicrophoneObeys
  BY DEF IInv
<1> QED
  BY <1>1, Coherent, PTL

(* A session the page has heard of is given back once, when it is done     *)
(* with it.                                                                *)
THEOREM SessionsReleased == Spec => []SessionsAreReleased
<1>1. IInv => SessionsAreReleased
  BY DEF IInv, Owned, SessionsAreReleased, Parts
<1> QED
  BY <1>1, Coherent, PTL

(* The page and Hermes agree on the turn mode of a call that is not in     *)
(* doubt.                                                                  *)
THEOREM AgreedModes == Spec => []ModesAgree
<1>1. IInv => ModesAgree
  BY NoCallAssumption DEF IInv, Names, Parts, Asked, ModesAgree, Modes
<1> QED
  BY <1>1, Coherent, PTL

(* A call in doubt is unlocked by nothing but its replacement. *)
THEOREM LockIsHeld == Spec => LockHolds
<1>1. IInv /\ [Next]_vars => [locked /\ ~mixed /\ current' = current => locked']_vars
  <2> SUFFICES ASSUME IInv, Next, locked, ~mixed, current' = current
               PROVE  locked'
    BY DEF vars, turnVars
  <2>1. modeAsk = "none" /\ turn \notin InFlight /\ orphans = {}
    BY DEF IInv, OneAsk
  <2>2. CASE User
    <3>1. ~EndCall
      BY DEF IInv, Names, EndCall
    <3>2. ~(ToggleMute \/ AskMode \/ StartTurn \/ FinishTurn)
      BY DEF Ready, ToggleMute, AskMode, StartTurn, FinishTurn
    <3>3. SendInput => locked'
      BY DEF SendInput, turnVars
    <3> QED
      BY <2>2, <3>1, <3>2, <3>3 DEF User
  <2>3. ~(ModeAccepted \/ ModeFails \/ TurnReply)
    BY <2>1 DEF ModeAccepted, ModeFails, TurnReply
  <2>4. CASE HermesDecides
    BY <2>4 DEF HermesDecides, turnVars
  <2>5. ASSUME NEW c \in Calls, Connect(c) \/ Switch(c) PROVE FALSE
    BY <2>5 DEF IInv, Opened, Connect, Switch, Open, Fresh
  <2>6. ASSUME NEW c \in Calls, ControlBreaks(c) PROVE locked'
    BY <2>6 DEF ControlBreaks, FailAsks
  <2>7. ASSUME NEW c \in Calls,
               \/ GotMicrophone(c) \/ MicrophoneDenied(c) \/ Offer(c) \/ OpenFails(c)
               \/ Answered(c) \/ PeerUp(c) \/ Connected(c) \/ ActivateFails(c)
               \/ ReleaseDone(c) \/ PeerDrops(c) \/ PeerReturns(c)
               \/ Attach(c) \/ AttachFails(c) \/ Reattach(c)
        PROVE  locked'
    BY <2>7 DEF GotMicrophone, MicrophoneDenied, Offer, OpenFails, Answered, PeerUp, Connected,
      ActivateFails, ReleaseDone, PeerDrops, PeerReturns, Attach, AttachFails, Reattach, turnVars
  <2> QED
    BY <2>2, <2>3, <2>4, <2>5, <2>6, <2>7 DEF Next
<1> QED
  BY <1>1, Coherent, PTL DEF Spec, LockHolds
=============================================================================
