------------------------- MODULE RealtimeReplayProofs -------------------------
(***************************************************************************)
(* Theorems about the replay of realtime events: for any number of events, *)
(* lost connections and frames on the way, the page shows the events in    *)
(* order, each once and none left out.                                     *)
(***************************************************************************)
EXTENDS RealtimeReplay, TLAPS

(* TypeOK without its Boolean-valued variables. *)
FrameTypes == {"snapshot", "event", "replay.gap", "error"}
Stages == {"none", "subscribing", "asleep", "asking", "sending", "gap", "stopped", "dead"}
Frames == [type : FrameTypes, id : Nat]

Numbers ==
  /\ log \in 0 .. MaxEvents /\ floor \in 0 .. log
  /\ {cursor, sent, upto} \subseteq 0 .. log
  /\ stage = "sending" => cursor <= sent /\ sent < upto
  /\ drops \in 0 .. MaxDrops

Names ==
  /\ {session, row, polled} \subseteq {"active", "closed"}
  /\ stage \in Stages
  /\ page \in {"away", "connecting", "ready", "closed"}

Flags == deleting \in BOOLEAN /\ degraded \in BOOLEAN

(* Where a page that shows v is when it takes the i-th frame of w, and when *)
(* it has taken them all.                                                  *)
Before(v, w, i) == IF i = 1 THEN Len(v) ELSE w[i - 1].id
After(v, w) == IF w = <<>> THEN Len(v) ELSE w[Len(w)].id
Last == After(view, wire)

(* The frames on the wire lead the page on step by step: an event is the   *)
(* next one, a snapshot is not behind, an error changes nothing.           *)
Leads(frame, n) ==
  /\ n <= frame.id
  /\ frame.type = "event" => frame.id = n + 1
  /\ frame.type = "error" => frame.id = n

Wired ==
  /\ wire \in Seq(Frames) /\ Len(wire) <= MaxWire
  /\ \A i \in 1 .. Len(wire) : Leads(wire[i], Before(view, wire, i)) /\ wire[i].id <= log

(* The socket goes on where a page that takes its frames will be.          *)
Positioned ==
  page # "closed" =>
    /\ stage \in {"asleep", "asking", "gap", "stopped"} => cursor = Last
    /\ stage = "sending" => sent = Last

(* Nothing is on the wire of a page that is away, closed or not yet         *)
(* subscribed, and the first thing a page gets is a snapshot.              *)
Connected ==
  /\ page = "away" => wire = <<>> /\ stage = "none"
  /\ page = "closed" => wire = <<>>
  /\ stage = "subscribing" => page \in {"connecting", "closed"} /\ wire = <<>>
  /\ page = "connecting" /\ stage # "subscribing" => wire # <<>> /\ wire[1].type = "snapshot"

(* What the page shows are the events up to some number, and it has taken  *)
(* no others.                                                              *)
Viewed ==
  /\ Len(view) \in 0 .. log
  /\ view = UpTo(Len(view))
  /\ seen \subseteq 1 .. Len(view)

IInv == Numbers /\ Names /\ Flags /\ Wired /\ Positioned /\ Connected /\ Viewed

-----------------------------------------------------------------------------
(* Lemmas on the operators *)

(* The first n events are a sequence of n. *)
LEMMA UpToFacts ==
  ASSUME NEW n \in Nat
  PROVE  UpTo(n) \in Seq(1 .. n) /\ Len(UpTo(n)) = n
BY DEF UpTo

(* The next event makes the first n into the first n + 1. *)
LEMMA UpToAppend ==
  ASSUME NEW n \in Nat
  PROVE  Append(UpTo(n), n + 1) = UpTo(n + 1)
<1>1. UpTo(n) \in Seq(Nat) /\ Len(UpTo(n)) = n
  BY UpToFacts DEF UpTo
<1>2. /\ Append(UpTo(n), n + 1) \in Seq(Nat) /\ UpTo(n + 1) \in Seq(Nat)
      /\ Len(Append(UpTo(n), n + 1)) = n + 1 /\ Len(UpTo(n + 1)) = n + 1
  BY <1>1, UpToFacts DEF UpTo
<1>3. \A i \in 1 .. n + 1 : Append(UpTo(n), n + 1)[i] = UpTo(n + 1)[i]
  BY <1>1 DEF UpTo
<1> QED
  BY <1>2, <1>3

(* Where the socket puts a frame: after the last one. *)
LEMMA LastFacts ==
  ASSUME IInv
  PROVE  Last \in Nat /\ Last <= log
<1>1. log \in Nat /\ Len(view) \in 0 .. log
  BY BoundsAssumption DEF IInv, Numbers, Viewed
<1>2. CASE wire = <<>>
  BY <1>1, <1>2 DEF Last, After
<1>3. CASE wire # <<>>
  <2>1. Len(wire) \in 1 .. Len(wire) /\ wire[Len(wire)] \in Frames
    BY <1>3 DEF IInv, Wired
  <2>2. wire[Len(wire)].id <= log
    BY <2>1 DEF IInv, Wired
  <2> QED
    BY <1>3, <2>1, <2>2 DEF Last, After, Frames
<1> QED
  BY <1>2, <1>3

(* Sending a frame that leads on from the last one. *)
LEMMA SendStep ==
  ASSUME IInv, NEW type \in FrameTypes, NEW n \in Nat,
         Send(Frame(type, n)), page # "closed", UNCHANGED <<log, view>>,
         n <= log, Leads(Frame(type, n), Last)
  PROVE  Wired' /\ Last' = n /\ wire' # <<>>
         /\ (wire = <<>> => wire'[1] = Frame(type, n))
         /\ (wire # <<>> => wire'[1] = wire[1])
<1>1. Frame(type, n) \in Frames /\ wire \in Seq(Frames)
  BY DEF Frame, Frames, IInv, Wired
<1>2. /\ wire' = Append(wire, Frame(type, n)) /\ wire' \in Seq(Frames)
      /\ Len(wire') = Len(wire) + 1 /\ Len(wire') <= MaxWire /\ Len(wire) \in Nat
      /\ wire'[Len(wire) + 1] = Frame(type, n)
      /\ \A i \in 1 .. Len(wire) : wire'[i] = wire[i]
  BY <1>1, BoundsAssumption DEF Send
<1>3. wire' # <<>> /\ Last' = n
  BY <1>2 DEF Last, After, Frame
<1>4. ASSUME NEW i \in 1 .. Len(wire')
      PROVE  Leads(wire'[i], Before(view', wire', i)) /\ wire'[i].id <= log'
  <2>1. CASE i \in 1 .. Len(wire)
    <3>1. wire'[i] = wire[i] /\ (i # 1 => wire'[i - 1] = wire[i - 1])
      BY <2>1, <1>2
    <3>2. Before(view', wire', i) = Before(view, wire, i)
      BY <3>1 DEF Before
    <3> QED
      BY <2>1, <3>1, <3>2 DEF IInv, Wired
  <2>2. CASE i = Len(wire) + 1
    <3>1. wire'[i] = Frame(type, n)
      BY <2>2, <1>2
    <3>2. Before(view', wire', i) = Last
      <4>1. CASE wire = <<>>
        BY <4>1, <2>2 DEF Before, Last, After
      <4>2. CASE wire # <<>>
        <5>1. Len(wire) \in 1 .. Len(wire) /\ i # 1 /\ i - 1 = Len(wire)
          BY <4>2, <2>2, <1>1, <1>2
        <5> QED
          BY <4>2, <5>1, <1>2 DEF Before, Last, After
      <4> QED
        BY <4>1, <4>2
    <3>3. Frame(type, n).id = n
      BY DEF Frame
    <3> QED
      BY <3>1, <3>2, <3>3
  <2> QED
    BY <2>1, <2>2, <1>2
<1>5. Wired'
  BY <1>2, <1>4 DEF Wired
<1> QED
  BY <1>2, <1>3, <1>5

(* Taking a frame: what is left leads on from where it has brought the page. *)
LEMMA TakeStep ==
  ASSUME IInv, wire # <<>>, wire' = Tail(wire), UNCHANGED log,
         Len(view') = Head(wire).id
  PROVE  Wired' /\ Last' = Last
<1>1. wire \in Seq(Frames) /\ Len(wire) \in Nat \ {0} /\ Head(wire) = wire[1]
  BY DEF IInv, Wired
<1>2. /\ wire' \in Seq(Frames) /\ Len(wire') = Len(wire) - 1
      /\ \A i \in 1 .. Len(wire') : wire'[i] = wire[i + 1]
  BY <1>1
<1>3. ASSUME NEW i \in 1 .. Len(wire')
      PROVE  Leads(wire'[i], Before(view', wire', i)) /\ wire'[i].id <= log'
  <2>1. wire'[i] = wire[i + 1] /\ i + 1 \in 1 .. Len(wire)
    BY <1>1, <1>2
  <2>2. Before(view', wire', i) = Before(view, wire, i + 1)
    <3>1. CASE i = 1
      BY <1>1, <3>1 DEF Before
    <3>2. CASE i # 1
      <4>1. i - 1 \in 1 .. Len(wire') /\ (i - 1) + 1 = i /\ i + 1 # 1 /\ (i + 1) - 1 = i
        BY <3>2, <1>2
      <4>2. wire'[i - 1] = wire[i]
        BY <1>2, <4>1
      <4> QED
        BY <3>2, <4>1, <4>2 DEF Before
    <3> QED
      BY <3>1, <3>2
  <2>3. Leads(wire[i + 1], Before(view, wire, i + 1)) /\ wire[i + 1].id <= log
    BY <2>1 DEF IInv, Wired
  <2> QED
    BY <2>1, <2>2, <2>3
<1>4. Wired'
  BY <1>1, <1>2, <1>3, BoundsAssumption DEF IInv, Wired
<1>5. Last' = Last
  <2>1. CASE Len(wire) = 1
    BY <2>1, <1>1, <1>2 DEF Last, After
  <2>2. CASE Len(wire) # 1
    <3>0. Len(wire') \in 1 .. Len(wire') /\ Len(wire') + 1 = Len(wire)
      BY <2>2, <1>1, <1>2
    <3>1. wire'[Len(wire')] = wire[Len(wire') + 1]
      BY <3>0, <1>2
    <3>2. wire'[Len(wire')] = wire[Len(wire)]
      BY <3>0, <3>1
    <3>3. wire' # <<>>
      <4>1. wire' = <<>> => Len(wire') = 0
        OBVIOUS
      <4> QED
        BY <4>1, <3>0
    <3> QED
      BY <3>2, <3>3, <1>1 DEF Last, After
  <2> QED
    BY <2>1, <2>2
<1> QED
  BY <1>4, <1>5

(* The first frame on the wire brings the page to its number.              *)
LEMMA HeadFacts ==
  ASSUME IInv, wire # <<>>
  PROVE  /\ Head(wire) = wire[1] /\ Head(wire) \in Frames
         /\ Leads(Head(wire), Len(view)) /\ Head(wire).id <= log
<1>1. 1 \in 1 .. Len(wire) /\ Head(wire) = wire[1] /\ wire[1] \in Frames
  BY DEF IInv, Wired
<1>2. Before(view, wire, 1) = Len(view)
  BY DEF Before
<1> QED
  BY <1>1, <1>2 DEF IInv, Wired

-----------------------------------------------------------------------------
(* The invariant *)

LEMMA InitIInv == Init => IInv
<1> SUFFICES ASSUME Init PROVE IInv
  OBVIOUS
<1>1. Numbers
  BY BoundsAssumption DEF Init, Numbers
<1>2. Names
  BY DEF Init, Names, Stages
<1>3. Flags
  BY DEF Init, Flags
<1>4. Wired
  BY BoundsAssumption DEF Init, Wired
<1>5. Positioned /\ Connected
  BY DEF Init, Positioned, Connected
<1>6. Viewed
  BY BoundsAssumption DEF Init, Viewed, UpTo
<1> QED
  BY <1>1, <1>2, <1>3, <1>4, <1>5, <1>6 DEF IInv

(* Steps of Hermes and of the DELETE: nothing on the way to the page.      *)
LEMMA ElsewhereStep ==
  ASSUME IInv, EventHappens \/ Forgets \/ Delete \/ Deleted
  PROVE  IInv'
<1>1. /\ UNCHANGED <<socketVars, wire, pageVars, drops>>
      /\ log' \in log .. MaxEvents /\ floor' \in 0 .. log'
  BY BoundsAssumption DEF EventHappens, Forgets, Delete, Deleted, hermesVars, IInv, Numbers
<1>2. Numbers'
  BY <1>1, BoundsAssumption DEF IInv, Numbers, socketVars
<1>3. Names'
  BY <1>1 DEF IInv, Names, socketVars, pageVars, EventHappens, Forgets, Delete, Deleted, CloseRow,
              hermesVars
<1>4. Flags'
  BY <1>1 DEF IInv, Flags, pageVars, EventHappens, Forgets, Delete, Deleted
<1>5. Wired'
  <2> SUFFICES ASSUME NEW i \in 1 .. Len(wire) PROVE wire[i].id <= log'
    BY <1>1 DEF IInv, Wired, pageVars
  <2>1. wire[i].id <= log /\ wire[i] \in Frames
    BY DEF IInv, Wired
  <2> QED
    BY <1>1, <2>1, BoundsAssumption DEF IInv, Numbers, Frames
<1>6. Positioned' /\ Connected'
  BY <1>1 DEF IInv, Positioned, Connected, Last, After, socketVars, pageVars
<1>7. Viewed'
  BY <1>1, BoundsAssumption DEF IInv, Viewed, Numbers, pageVars
<1> QED
  BY <1>2, <1>3, <1>4, <1>5, <1>6, <1>7 DEF IInv

(* Steps of the socket that send nothing. *)
LEMMA PollStep ==
  ASSUME IInv, ReadSession \/ Events \/ Gap \/ RecoverFails \/ PollDies
  PROVE  IInv'
<1>1. /\ UNCHANGED <<log, floor, session, deleting, wire, pageVars, drops, cursor>>
      /\ stage \in {"asleep", "asking", "gap"}
      /\ stage' \in {"asleep", "asking", "sending", "gap", "dead"}
      /\ \/ stage' # "sending" /\ UNCHANGED <<sent, upto>>
         \/ sent' = cursor /\ upto' = log /\ (stage' = "sending" => cursor < log)
  BY DEF ReadSession, Events, Gap, RecoverFails, PollDies, hermesVars
<1>2. Numbers'
  BY <1>1, BoundsAssumption DEF IInv, Numbers
<1>3. Names'
  BY <1>1 DEF IInv, Names, Stages, pageVars, ReadSession, Events, Gap, RecoverFails, PollDies,
              update_session
<1>4. Flags'
  BY <1>1 DEF IInv, Flags, pageVars
<1>5. Wired' /\ Viewed'
  BY <1>1 DEF IInv, Wired, Viewed, pageVars
<1>6. Positioned'
  BY <1>1 DEF IInv, Positioned, Last, After, pageVars
<1>7. Connected'
  BY <1>1 DEF IInv, Connected, pageVars
<1> QED
  BY <1>2, <1>3, <1>4, <1>5, <1>6, <1>7 DEF IInv

(* What is sent to a page that has closed is lost. *)
LEMMA LostStep ==
  ASSUME IInv, Subscribe \/ SendEvent \/ Recover \/ PollFails, page = "closed"
  PROVE  IInv'
<1>1. /\ UNCHANGED <<log, floor, session, row, deleting, upto, polled, wire, pageVars, drops>>
      /\ stage' \in {"asleep", "sending", "stopped"}
  BY DEF Subscribe, SendEvent, Recover, PollFails, Tell, Send, hermesVars
<1>2. Numbers'
  <2>1. CASE Subscribe \/ Recover \/ PollFails
    BY <2>1, <1>1, BoundsAssumption
    DEF IInv, Numbers, Subscribe, Recover, PollFails, Starts
  <2>2. CASE SendEvent
    BY <2>2, <1>1, BoundsAssumption DEF IInv, Numbers, SendEvent, Moves
  <2> QED
    BY <2>1, <2>2
<1>3. Names' /\ Connected' /\ Positioned'
  BY <1>1 DEF IInv, Names, Stages, Connected, Positioned, pageVars
<1>4. Flags'
  BY <1>1 DEF IInv, Flags, pageVars
<1>5. Wired' /\ Viewed'
  BY <1>1 DEF IInv, Wired, Viewed, pageVars
<1> QED
  BY <1>2, <1>3, <1>4, <1>5 DEF IInv

(* Steps of the socket that send a frame. *)
LEMMA SendingStep ==
  ASSUME IInv, Subscribe \/ SendEvent \/ Recover \/ PollFails, page # "closed"
  PROVE  IInv'
<1> DEFINE type == CASE stage = "subscribing" -> "snapshot"
                     [] stage = "sending" -> "event"
                     [] stage = "gap" -> "replay.gap"
                     [] OTHER -> "error"
           n == CASE stage = "subscribing" -> log
                  [] stage = "sending" -> sent + 1
                  [] stage = "gap" -> log
                  [] OTHER -> cursor
<1>1. /\ Send(Frame(type, n)) /\ type \in FrameTypes
      /\ UNCHANGED <<log, floor, session, row, deleting, upto, polled, pageVars, drops>>
      /\ stage \in {"subscribing", "sending", "gap", "asleep", "asking"}
  BY DEF Subscribe, SendEvent, Recover, PollFails, Tell, hermesVars, FrameTypes
<1>2. log \in Nat /\ Last \in Nat /\ Last <= log /\ {cursor, sent, upto} \subseteq Nat
  BY LastFacts, BoundsAssumption DEF IInv, Numbers
<1>3. /\ n \in Nat /\ n <= log /\ Last <= n
      /\ type = "event" => n = Last + 1
      /\ type = "error" => n = Last
  BY <1>1, <1>2 DEF IInv, Positioned, Numbers
<1>4. Frame(type, n).type = type /\ Frame(type, n).id = n
  BY DEF Frame
<1>5. Leads(Frame(type, n), Last)
  BY <1>3, <1>4 DEF Leads
<1> HIDE DEF type, n
<1>6. /\ Wired' /\ Last' = n /\ wire' # <<>>
      /\ wire = <<>> => wire'[1] = Frame(type, n)
      /\ wire # <<>> => wire'[1] = wire[1]
  BY <1>1, <1>3, <1>5, SendStep DEF pageVars
<1> USE DEF type, n
<1>7. CASE stage = "subscribing"
  <2>1. /\ Subscribe /\ cursor' = log /\ stage' = "asleep" /\ sent' = sent
        /\ n = log /\ type = "snapshot"
    BY <1>7 DEF Subscribe, SendEvent, Recover, PollFails, Starts
  <2> HIDE DEF type, n
  <2>2. Numbers'
    BY <1>1, <2>1, BoundsAssumption DEF IInv, Numbers
  <2>3. Positioned'
    BY <1>6, <2>1 DEF Positioned
  <2>4. Connected'
    BY <1>1, <1>4, <1>6, <1>7, <2>1 DEF IInv, Connected, pageVars
  <2> QED
    BY <1>1, <1>6, <2>1, <2>2, <2>3, <2>4 DEF IInv, Names, Stages, Flags, Viewed, pageVars
<1>8. CASE stage = "sending"
  <2>1. /\ SendEvent /\ sent' = sent + 1 /\ n = sent + 1
        /\ stage' = IF sent' = upto THEN "asleep" ELSE "sending"
        /\ cursor' = IF sent' = upto THEN upto ELSE cursor
    BY <1>8 DEF Subscribe, SendEvent, Recover, PollFails, Moves
  <2> HIDE DEF type, n
  <2>2. Numbers'
    BY <1>1, <1>2, <1>8, <2>1, BoundsAssumption DEF IInv, Numbers
  <2>3. Positioned'
    BY <1>6, <2>1 DEF Positioned
  <2>4. Connected'
    BY <1>1, <1>6, <1>8, <2>1 DEF IInv, Connected, pageVars
  <2> QED
    BY <1>1, <1>6, <2>1, <2>2, <2>3, <2>4 DEF IInv, Names, Stages, Flags, Viewed, pageVars
<1>9. CASE stage = "gap"
  <2>1. Recover /\ cursor' = log /\ stage' = "asleep" /\ sent' = sent /\ n = log
    BY <1>9 DEF Subscribe, SendEvent, Recover, PollFails
  <2> HIDE DEF type, n
  <2>2. Numbers'
    BY <1>1, <2>1, BoundsAssumption DEF IInv, Numbers
  <2>3. Positioned'
    BY <1>6, <2>1 DEF Positioned
  <2>4. Connected'
    BY <1>1, <1>6, <1>9, <2>1 DEF IInv, Connected, pageVars
  <2> QED
    BY <1>1, <1>6, <2>1, <2>2, <2>3, <2>4 DEF IInv, Names, Stages, Flags, Viewed, pageVars
<1>10. CASE stage \in {"asleep", "asking"}
  <2>1. PollFails /\ cursor' = cursor /\ stage' = "stopped" /\ sent' = sent /\ n = cursor
    BY <1>10 DEF Subscribe, SendEvent, Recover, PollFails
  <2> HIDE DEF type, n
  <2>2. Numbers'
    BY <1>1, <2>1, BoundsAssumption DEF IInv, Numbers
  <2>3. Positioned'
    BY <1>6, <2>1 DEF Positioned
  <2>4. Connected'
    BY <1>1, <1>6, <1>10, <2>1 DEF IInv, Connected, pageVars
  <2> QED
    BY <1>1, <1>6, <2>1, <2>2, <2>3, <2>4 DEF IInv, Names, Stages, Flags, Viewed, pageVars
<1> QED
  BY <1>1, <1>7, <1>8, <1>9, <1>10

(* Losing the connection, ending it and making a new one: nothing on the wire. *)
LEMMA LinkStep ==
  ASSUME IInv, Drop \/ Connect \/ Close \/ HangsUp
  PROVE  IInv'
<1>1. /\ UNCHANGED <<log, floor, session, row, deleting, cursor, sent, upto, polled, view, seen,
                     degraded>>
      /\ drops' \in 0 .. MaxDrops
      /\ wire' = <<>>
      /\ \/ page' = "away" /\ stage' = "none"
         \/ page' = "connecting" /\ stage' = "subscribing"
         \/ page' = "closed" /\ stage' \in {"none", stage}
  BY BoundsAssumption DEF Drop, Connect, Close, HangsUp, hermesVars, socketVars, pageVars, IInv,
                          Numbers, Connected
<1>2. Numbers'
  BY <1>1 DEF IInv, Numbers
<1>3. Names' /\ Flags' /\ Viewed'
  BY <1>1 DEF IInv, Names, Stages, Flags, Viewed
<1>4. Wired'
  BY <1>1, BoundsAssumption DEF Wired
<1>5. Positioned' /\ Connected'
  BY <1>1 DEF Positioned, Connected
<1> QED
  BY <1>2, <1>3, <1>4, <1>5 DEF IInv

(* What the page makes of a frame: it is where the frame brings it.        *)
LEMMA PageTakes ==
  ASSUME IInv, TakeSnapshot \/ TakeEvent \/ TakeError
  PROVE  /\ wire # <<>> /\ wire' = Tail(wire)
         /\ UNCHANGED <<log, floor, session, row, deleting, socketVars, drops>>
         /\ view' = UpTo(Head(wire).id) /\ Len(view') = Head(wire).id
         /\ seen' \subseteq 1 .. Len(view')
         /\ page' = "ready" \/ (page' = page /\ Head(wire).type # "snapshot")
         /\ degraded' \in BOOLEAN
         /\ view' = view \/ view' = Append(view, Len(view) + 1) \/ TakeSnapshot
<1>1. /\ wire # <<>> /\ wire' = Tail(wire)
      /\ UNCHANGED <<log, floor, session, row, deleting, socketVars, drops>>
  BY DEF TakeSnapshot, TakeEvent, TakeError, Takes, hermesVars
<1>2. /\ Head(wire) = wire[1] /\ Head(wire) \in Frames /\ Head(wire).id \in Nat
      /\ Leads(Head(wire), Len(view)) /\ Head(wire).id <= log
  BY <1>1, HeadFacts DEF Frames
<1>3. Len(view) \in Nat /\ view = UpTo(Len(view)) /\ seen \subseteq 1 .. Len(view)
  BY BoundsAssumption DEF IInv, Viewed, Numbers
<1>4. degraded' \in BOOLEAN
  BY DEF TakeSnapshot, TakeEvent, TakeError, IInv, Flags
<1>5. CASE TakeSnapshot
  <2>1. view' = UpTo(Head(wire).id) /\ seen' = seen /\ page' = "ready"
    BY <1>5 DEF TakeSnapshot
  <2>2. Len(view') = Head(wire).id
    BY <1>2, <2>1, UpToFacts
  <2>3. Len(view) <= Head(wire).id
    BY <1>2 DEF Leads
  <2> QED
    BY <1>1, <1>2, <1>3, <1>4, <1>5, <2>1, <2>2, <2>3
<1>6. CASE TakeEvent
  <2>1. Head(wire).type = "event" /\ Head(wire).id = Len(view) + 1
    BY <1>2, <1>6 DEF TakeEvent, Takes, Leads
  <2>2. page = "ready"
    BY <1>1, <1>2, <2>1 DEF IInv, Connected, Names
  <2>3. Head(wire).id \notin seen
    BY <1>3, <2>1
  <2>4. /\ view' = Append(view, Head(wire).id) /\ seen' = seen \cup {Head(wire).id}
        /\ page' = page
    BY <1>6, <2>2, <2>3 DEF TakeEvent
  <2>5. view' = UpTo(Len(view) + 1) /\ view' = Append(view, Len(view) + 1)
    BY <1>3, <2>1, <2>4, UpToAppend
  <2>6. Len(view') = Len(view) + 1
    BY <1>3, <2>5, UpToFacts
  <2>7. view' = UpTo(Head(wire).id) /\ Len(view') = Head(wire).id
    BY <2>1, <2>5, <2>6
  <2>8. seen' \subseteq 1 .. Len(view')
    <3> SUFFICES ASSUME NEW n \in seen' PROVE n \in 1 .. Len(view')
      OBVIOUS
    <3>1. n \in 1 .. Len(view) \/ n = Len(view) + 1
      BY <1>3, <2>1, <2>4
    <3>2. Len(view) \in Nat
      BY <1>3
    <3> QED
      BY <2>6, <3>1, <3>2
  <2> QED
    BY <1>1, <1>4, <2>2, <2>4, <2>5, <2>7, <2>8
<1>7. CASE TakeError
  <2>1. /\ Head(wire).type = "error" /\ Head(wire).id = Len(view)
        /\ UNCHANGED <<page, view, seen>>
    BY <1>2, <1>7 DEF TakeError, Takes, Leads
  <2> QED
    BY <1>1, <1>3, <1>4, <2>1
<1> QED
  BY <1>5, <1>6, <1>7

LEMMA PageStep ==
  ASSUME IInv, TakeSnapshot \/ TakeEvent \/ TakeError
  PROVE  IInv'
<1>1. /\ wire # <<>> /\ wire' = Tail(wire)
      /\ UNCHANGED <<log, floor, session, row, deleting, socketVars, drops>>
      /\ view' = UpTo(Head(wire).id) /\ Len(view') = Head(wire).id
      /\ seen' \subseteq 1 .. Len(view')
      /\ page' = "ready" \/ (page' = page /\ Head(wire).type # "snapshot")
      /\ degraded' \in BOOLEAN
  BY PageTakes
<1>2. /\ Head(wire) = wire[1] /\ Head(wire).id \in Nat /\ Head(wire).id <= log
  BY <1>1, HeadFacts DEF Frames
<1>3. page' = "ready"
  BY <1>1, <1>2 DEF IInv, Connected, Names
<1>4. Wired' /\ Last' = Last
  BY <1>1, TakeStep
<1>5. Numbers' /\ Names' /\ Flags'
  BY <1>1, <1>3 DEF IInv, Numbers, Names, Flags, socketVars
<1>6. Viewed'
  BY <1>1, <1>2, BoundsAssumption DEF IInv, Viewed, Numbers
<1>7. Positioned' /\ Connected'
  BY <1>1, <1>3, <1>4 DEF IInv, Positioned, Connected, socketVars
<1> QED
  BY <1>4, <1>5, <1>6, <1>7 DEF IInv

LEMMA NextIInv == IInv /\ [Next]_vars => IInv'
<1> SUFFICES ASSUME IInv, [Next]_vars PROVE IInv'
  OBVIOUS
<1>1. CASE UNCHANGED vars
  <2>1. /\ UNCHANGED <<log, floor, session, row, deleting, stage, cursor, sent, upto, polled,
                       wire, page, view, seen, degraded, drops>>
    BY <1>1 DEF vars, hermesVars, socketVars, pageVars
  <2>2. Numbers' /\ Names'
    BY <2>1 DEF IInv, Numbers, Names
  <2>3. Flags'
    BY <2>1 DEF IInv, Flags
  <2>4. Wired'
    BY <2>1 DEF IInv, Wired
  <2>5. Last' = Last
    BY <2>1 DEF Last
  <2>6. Positioned' /\ Connected' /\ Viewed'
    BY <2>1, <2>5 DEF IInv, Positioned, Connected, Viewed
  <2> QED
    BY <2>2, <2>3, <2>4, <2>6 DEF IInv
<1>2. CASE Next
  BY <1>2, ElsewhereStep, PollStep, LostStep, SendingStep, LinkStep, PageStep
  DEF Next, Replay, Page
<1> QED
  BY <1>1, <1>2

-----------------------------------------------------------------------------
(* Theorems *)

(* Where the socket is, what is on the wire and what the page shows fit    *)
(* together, whatever is lost or forgotten (replay_loop and the page's      *)
(* RealtimeControlClient).                                                 *)
THEOREM Replayed == Spec => []IInv
BY InitIInv, NextIInv, PTL DEF Spec

LEMMA IInvTyped == IInv => TypeOK
<1> SUFFICES ASSUME IInv PROVE TypeOK
  OBVIOUS
<1>1. log \in Nat /\ Len(view) \in 0 .. log
  BY BoundsAssumption DEF IInv, Numbers, Viewed
<1>2. view \in Seq(1 .. log) /\ seen \subseteq 1 .. log
  <2>1. UpTo(Len(view)) \in Seq(1 .. Len(view)) /\ 1 .. Len(view) \subseteq 1 .. log
    BY <1>1, UpToFacts
  <2> QED
    BY <2>1, <1>1 DEF IInv, Viewed
<1>3. wire \in Seq([type : FrameTypes, id : 0 .. log])
  <2>1. ASSUME NEW i \in 1 .. Len(wire)
        PROVE  wire[i] \in [type : FrameTypes, id : 0 .. log]
    <3>1. wire[i] \in Frames /\ wire[i].id <= log
      BY DEF IInv, Wired
    <3> QED
      BY <3>1, <1>1 DEF Frames
  <2>2. wire \in Seq(Frames)
    BY DEF IInv, Wired
  <2> DEFINE F == [type : FrameTypes, id : 0 .. log]
  <2>3. \A i \in 1 .. Len(wire) : wire[i] \in F
    BY <2>1
  <2> HIDE DEF F
  <2>4. wire \in Seq(F)
    BY <2>2, <2>3
  <2> QED
    BY <2>4 DEF F
<1> QED
  BY <1>2, <1>3 DEF IInv, Numbers, Names, Flags, Wired, FrameTypes, Stages, TypeOK

(* Type correctness. *)
THEOREM TypeCorrect == Spec => []TypeOK
BY Replayed, IInvTyped, PTL

LEMMA InitFeed == Init => Feed!Init
BY DEF Init, Feed!Init

LEMMA NextFeed == IInv /\ [Next]_vars => [Feed!Next]_(Feed!vars)
<1> SUFFICES ASSUME IInv, [Next]_vars PROVE [Feed!Next]_(Feed!vars)
  OBVIOUS
<1>1. CASE TakeSnapshot \/ TakeEvent \/ TakeError
  <2>1. /\ log' = log /\ wire # <<>>
        /\ view' = UpTo(Head(wire).id)
    BY <1>1, PageTakes
  <2>2. /\ Head(wire).id \in Nat /\ Head(wire).id <= log
        /\ Len(view) <= Head(wire).id /\ Len(view) \in Nat /\ log \in Nat
    BY <2>1, HeadFacts, BoundsAssumption DEF Frames, Leads, IInv, Viewed, Numbers
  <2>3. Head(wire).id \in Len(view) .. log
    BY <2>2
  <2>4. Feed!CatchesUp
    BY <2>1, <2>3 DEF Feed!CatchesUp, Feed!UpTo, UpTo
  <2> QED
    BY <2>4 DEF Feed!Next
<1>2. CASE EventHappens
  BY <1>2 DEF EventHappens, pageVars, Feed!Next, Feed!Happens
<1>3. CASE ~(TakeSnapshot \/ TakeEvent \/ TakeError) /\ ~EventHappens
  <2>1. UNCHANGED <<log, view>>
    BY <1>3 DEF Next, Replay, Page, Forgets, Delete, Deleted, Subscribe, ReadSession, Events,
                SendEvent, Gap, Recover, RecoverFails, PollFails, PollDies, Drop, Connect,
                Close, HangsUp, hermesVars, pageVars, vars
  <2> QED
    BY <2>1 DEF Feed!vars
<1> QED
  BY <1>1, <1>2, <1>3

(* The page shows the events of the conversation in order, each once and   *)
(* none left out: the replay implements the feed.                          *)
THEOREM Refinement == Spec => ImplementsFeed
BY InitFeed, NextFeed, Replayed, PTL DEF Spec, ImplementsFeed, Feed!Spec
=============================================================================
