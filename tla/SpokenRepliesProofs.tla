------------------------- MODULE SpokenRepliesProofs -------------------------
(***************************************************************************)
(* Theorems about spoken replies: for any number of turns and sentences,   *)
(* and however replies replace each other, fail or are cancelled.          *)
(*                                                                         *)
(* Five invariants, each on top of the ones before it: IInv, of the tasks  *)
(* and the files; Begun, of the turns that get a reply; Typed; Obedient,   *)
(* of what is left of a cancelled turn; and Audible, of the frames on      *)
(* their way and the clip that arrives.                                    *)
(***************************************************************************)
EXTENDS SpokenReplies, SequenceTheorems, TLAPS

-----------------------------------------------------------------------------
(* The tasks and the files *)

Stages == {"none", "ready", "synth", "audio", "end", "complete"} \cup Finished

(* The part of TypeOK this needs. *)
Tasks ==
  /\ stage \in [Turns -> Stages]
  /\ current \in Turns \cup {None}
  /\ current # None => stage[current] # "none"
  /\ \A t \in cancelling : t \in Turns /\ Suspended(t)

(* A file is there only between the provider and the last send, so that a  *)
(* task that never ran has none to remove.                                 *)
Filed == \A t \in files : t \in Turns /\ stage[t] \in {"synth", "audio", "end"}

(* One task at most speaks and was not told to stop. *)
OneTask == \A t \in Turns : Suspended(t) /\ t \notin cancelling => t = current

IInv == Tasks /\ Filed /\ OneTask

-----------------------------------------------------------------------------

LEMMA InitIInv == Init => IInv
BY DEF Init, IInv, Tasks, Filed, OneTask, Stages, Suspended

(* A task is moved along its stages, and is cancelled only by its end; a   *)
(* file comes with the provider and goes before the end.                   *)
Moves(t) ==
  /\ UNCHANGED current
  /\ Suspended(t)
  /\ stage' \in [Turns -> Stages]
  /\ \A u \in Turns : u # t => stage'[u] = stage[u]
  /\ stage'[t] # "none"
  /\ \/ cancelling' = cancelling /\ (t \in cancelling => Suspended(t)')
     \/ cancelling' = cancelling \ {t}
  /\ Suspended(t)' => t \notin cancelling /\ cancelling' = cancelling
  /\ files' \subseteq files \cup {t}
  /\ t \in files' => stage'[t] \in {"synth", "audio", "end"}

LEMMA SynthesisMoves ==
  ASSUME IInv, NEW t \in Turns, Synthesis(t)
  PROVE  Moves(t)
<1>1. CASE Begin(t)
  BY <1>1 DEF Begin, Runs, reserve_path, IInv, Tasks, Stages, Suspended, Moves
<1>2. CASE SynthesisFails(t)
  BY <1>2 DEF SynthesisFails, Runs, cleanup, IInv, Tasks, Stages, Finished, Suspended, Moves
<1>3. CASE SendStart(t)
  BY <1>3 DEF SendStart, Runs, IInv, Tasks, Stages, Suspended, Moves
<1>4. CASE SendAudio(t)
  BY <1>4 DEF SendAudio, Runs, IInv, Tasks, Stages, Suspended, Moves
<1>5. CASE SendEnd(t)
  <2>1. CASE chunk[t] < Sentences
    BY <1>5, <2>1 DEF SendEnd, Runs, IInv, Tasks, Stages, Suspended, Moves
  <2>2. CASE ~(chunk[t] < Sentences)
    BY <1>5, <2>2 DEF SendEnd, Runs, cleanup, IInv, Tasks, Stages, Suspended, Moves
  <2> QED
    BY <2>1, <2>2
<1>6. CASE SendComplete(t)
  BY <1>6 DEF SendComplete, Runs, IInv, Tasks, Filed, Stages, Finished, Suspended, Moves
<1>7. CASE CancelTakesEffect(t)
  <2>1. Suspended(t) /\ (stage[t] = "ready" => t \notin files)
    BY <1>7 DEF CancelTakesEffect, IInv, Tasks, Filed
  <2>2. /\ stage' = [stage EXCEPT ![t] = "cancelled"] /\ cancelling' = cancelling \ {t}
        /\ UNCHANGED current
        /\ files' = IF stage[t] = "ready" THEN files ELSE files \ {t}
    BY <1>7 DEF CancelTakesEffect, cleanup
  <2>3. stage'[t] = "cancelled" /\ t \notin files'
    BY <2>1, <2>2 DEF IInv, Tasks
  <2> QED
    BY <2>1, <2>2, <2>3 DEF IInv, Tasks, Stages, Finished, Suspended, Moves
<1> QED
  BY <1>1, <1>2, <1>3, <1>4, <1>5, <1>6, <1>7 DEF Synthesis

LEMMA SynthesisStep ==
  ASSUME IInv, NEW t \in Turns, Synthesis(t)
  PROVE  IInv'
<1>1. Moves(t)
  BY SynthesisMoves
<1>2. \A u \in Turns : u # t => (Suspended(u)' <=> Suspended(u))
  BY <1>1 DEF Moves, Suspended
<1>3. Tasks'
  BY <1>1, <1>2 DEF Moves, IInv, Tasks
<1>4. Filed'
  BY <1>1 DEF Moves, IInv, Filed
<1>5. OneTask'
  BY <1>1, <1>2 DEF Moves, IInv, OneTask
<1> QED
  BY <1>3, <1>4, <1>5 DEF IInv

(* The tasks that speak are cancelled together: there is only the latest.  *)
LEMMA CancelAll ==
  ASSUME IInv, Cancel
  PROVE  /\ \A t \in cancelling' : t \in Turns /\ Suspended(t)
         /\ \A t \in Turns : Suspended(t) => t \in cancelling'
<1>1. ASSUME NEW t \in cancelling' PROVE t \in Turns /\ Suspended(t)
  <2>1. CASE t \in cancelling
    BY <2>1 DEF IInv, Tasks
  <2>2. CASE t \notin cancelling
    <3>1. t = current /\ t \in Turns /\ ~Done(t)
      BY <2>2, <1>1 DEF Cancel, IInv, Tasks
    <3>2. stage[t] # "none"
      BY <3>1, NoTurnAssumption DEF IInv, Tasks
    <3> QED
      BY <3>1, <3>2 DEF IInv, Tasks, Stages, Done, Suspended
  <2> QED
    BY <2>1, <2>2
<1>2. ASSUME NEW t \in Turns, Suspended(t) PROVE t \in cancelling'
  <2>1. ~Done(t) /\ t # None
    BY <1>2, NoTurnAssumption DEF Suspended, Done, Finished
  <2> QED
    BY <1>2, <2>1 DEF Cancel, IInv, OneTask
<1> QED
  BY <1>1, <1>2

(* Everything else but the start of a reply leaves the tasks alone or      *)
(* cancels them.                                                           *)
LEMMA OutsideStep ==
  ASSUME IInv, UNCHANGED <<stage, current, files>>, UNCHANGED cancelling \/ Cancel
  PROVE  IInv'
<1>1. \A t \in Turns : Suspended(t)' <=> Suspended(t)
  BY DEF Suspended
<1>2. Filed'
  BY DEF IInv, Filed
<1>3. CASE UNCHANGED cancelling
  BY <1>1, <1>2, <1>3 DEF IInv, Tasks, OneTask
<1>4. CASE Cancel
  BY <1>1, <1>2, <1>4, CancelAll DEF IInv, Tasks, OneTask
<1> QED
  BY <1>3, <1>4

LEMMA SpeakStep ==
  ASSUME IInv, NEW t \in Turns, Speak(t)
  PROVE  IInv'
<1>1. stage[t] = "none" /\ files' = files /\ ~Suspended(t)
  BY DEF Speak, Suspended
<1>2. t \notin files /\ t \notin cancelling
  BY <1>1 DEF IInv, Filed, Tasks
<1>3. CASE Marked(t)
  <2>1. /\ stage' = [stage EXCEPT ![t] = "skipped"] /\ UNCHANGED <<cancelling, current>>
    BY <1>3 DEF Speak
  <2>2. /\ stage' \in [Turns -> Stages]
        /\ \A u \in Turns : Suspended(u)' <=> Suspended(u)
    BY <1>1, <2>1 DEF IInv, Tasks, Stages, Finished, Suspended
  <2>3. Tasks' /\ OneTask'
    BY <2>1, <2>2 DEF IInv, Tasks, OneTask
  <2>4. Filed'
    BY <1>1, <1>2, <2>1 DEF IInv, Filed, Tasks
  <2> QED
    BY <2>3, <2>4 DEF IInv
<1>4. CASE ~Marked(t)
  <2>1. stage' = [stage EXCEPT ![t] = "ready"] /\ current' = t /\ Cancel
    BY <1>4 DEF Speak
  <2>2. /\ stage' \in [Turns -> Stages]
        /\ \A u \in Turns : u # t => (Suspended(u)' <=> Suspended(u))
        /\ Suspended(t)'
    BY <2>1 DEF IInv, Tasks, Stages, Suspended
  <2>3. Tasks'
    BY <1>1, <2>1, <2>2, CancelAll DEF IInv, Tasks
  <2>4. OneTask'
    BY <1>1, <2>1, <2>2, CancelAll DEF OneTask
  <2>5. Filed'
    BY <1>1, <1>2, <2>1 DEF IInv, Filed, Tasks
  <2> QED
    BY <2>3, <2>4, <2>5 DEF IInv
<1> QED
  BY <1>3, <1>4

LEMMA NextIInv == IInv /\ [Next]_vars => IInv'
<1> SUFFICES ASSUME IInv, [Next]_vars PROVE IInv'
  OBVIOUS
<1>1. ASSUME NEW t \in Turns, Speak(t) \/ Synthesis(t) PROVE IInv'
  BY <1>1, SpeakStep, SynthesisStep
<1>2. CASE CancelSpeech \/ \E t \in Turns : BeginTurn(t)
  BY <1>2, OutsideStep DEF CancelSpeech, BeginTurn, taskVars
<1>3. CASE TakeCancel \/ ConfirmCancel \/ Close
  BY <1>3, OutsideStep DEF TakeCancel, ConfirmCancel, Close, taskVars
<1>4. CASE Playback
  <2>1. UNCHANGED taskVars
    BY <1>4 DEF Playback, IgnoreFrame, TakeStart, TakeAudio, TakeEnd, TakeComplete,
                TakeCancelled, Takes, PlayNext, ClipEnds, RetryPlays, RetryEnds
  <2> QED
    BY <2>1, OutsideStep DEF taskVars
<1>5. CASE Retry \/ UNCHANGED vars
  BY <1>5, OutsideStep DEF Retry, taskVars, vars
<1> QED
  BY <1>1, <1>2, <1>3, <1>4, <1>5 DEF Next

(* A reply is to a turn that was begun. *)
Begun == \A t \in Turns : stage[t] # "none" => t \in begun

LEMMA InitBegun == Init => Begun
BY DEF Init, Begun

LEMMA NextBegun == IInv /\ Begun /\ [Next]_vars => Begun'
<1> SUFFICES ASSUME IInv, Begun, [Next]_vars PROVE Begun'
  OBVIOUS
<1>1. ASSUME NEW t \in Turns, Speak(t) PROVE Begun'
  <2>1. t \in begun /\ begun' = begun /\ \A u \in Turns \ {t} : stage'[u] = stage[u]
    BY <1>1 DEF Speak, pageVars, turnVars, IInv, Tasks
  <2> QED
    BY <2>1 DEF Begun
<1>2. ASSUME NEW t \in Turns, Synthesis(t) PROVE Begun'
  <2>1. Suspended(t) /\ \A u \in Turns \ {t} : stage'[u] = stage[u]
    BY <1>2, SynthesisMoves DEF Moves
  <2>2. begun' = begun
    BY <1>2 DEF Synthesis, Begin, SynthesisFails, SendStart, SendAudio, SendEnd, SendComplete,
                CancelTakesEffect, pageVars, turnVars
  <2> QED
    BY <2>1, <2>2 DEF Begun, Suspended
<1>3. CASE \E t \in Turns : BeginTurn(t)
  BY <1>3 DEF BeginTurn, taskVars, Begun
<1>4. CASE TakeCancel \/ ConfirmCancel \/ Close \/ CancelSpeech \/ Retry \/ UNCHANGED vars
  <2>1. UNCHANGED <<stage, begun>>
    BY <1>4 DEF TakeCancel, ConfirmCancel, Close, CancelSpeech, Retry, vars, taskVars, pageVars,
                turnVars
  <2> QED
    BY <2>1 DEF Begun
<1>5. CASE Playback
  <2>1. UNCHANGED <<stage, begun>>
    BY <1>5 DEF Playback, IgnoreFrame, TakeStart, TakeAudio, TakeEnd, TakeComplete,
                TakeCancelled, Takes, PlayNext, ClipEnds, RetryPlays, RetryEnds, taskVars, turnVars
  <2> QED
    BY <2>1 DEF Begun
<1> QED
  BY <1>1, <1>2, <1>3, <1>4, <1>5 DEF Next

-----------------------------------------------------------------------------
(* Sequences, and the cancelled turns *)

LEMMA Elements ==
  ASSUME NEW S, NEW s \in Seq(S)
  PROVE  /\ Len(s) \in Nat
         /\ ToSet(s) \subseteq S
         /\ \A i \in 1..Len(s) : s[i] \in ToSet(s)
         /\ \A x \in ToSet(s) : \E i \in 1..Len(s) : s[i] = x
BY LenProperties, ElementOfSeq DEF ToSet

(* Only the turn that is forgotten goes. *)
LEMMA Forgotten ==
  ASSUME NEW S, NEW s \in Seq(S), NEW t
  PROVE  /\ Forget(s, t) \in Seq(S)
         /\ Len(Forget(s, t)) <= Len(s)
         /\ ToSet(Forget(s, t)) \subseteq ToSet(s)
         /\ ToSet(s) \ {t} \subseteq ToSet(Forget(s, t))
<1>1. Len(s) \in Nat /\ DOMAIN s = 1..Len(s)
  BY LenProperties
<1>2. CASE t \notin ToSet(s)
  BY <1>1, <1>2 DEF Forget
<1>3. CASE t \in ToSet(s)
  <2> DEFINE k == CHOOSE i \in DOMAIN s : s[i] = t
             a == SubSeq(s, 1, k - 1)
             b == SubSeq(s, k + 1, Len(s))
  <2>1. k \in 1..Len(s) /\ s[k] = t
    BY <1>1, <1>3 DEF ToSet
  <2>2. Forget(s, t) = a \o b
    BY <1>3 DEF Forget, RemoveAt
  <2> HIDE DEF k
  <2>3. \A i \in 1..Len(s) : s[i] \in S
    BY ElementOfSeq
  <2>4. /\ a \in Seq(S) /\ Len(a) = k - 1
        /\ \A i \in 1..k - 1 : a[i] = s[i]
    <3>1. \A i \in 1..k - 1 : s[i] \in S
      BY <1>1, <2>1, <2>3
    <3>2. 1 \in Int /\ k - 1 \in Int
      BY <1>1, <2>1
    <3> QED
      BY <1>1, <2>1, <3>1, <3>2, SubSeqProperties
  <2>5. /\ b \in Seq(S) /\ Len(b) = Len(s) - k
        /\ \A i \in 1..Len(s) - k : b[i] = s[k + i]
    <3>1. \A i \in k + 1..Len(s) : s[i] \in S
      BY <1>1, <2>1, <2>3
    <3>2. k + 1 \in Int /\ Len(s) \in Int
      BY <1>1, <2>1
    <3>3. /\ b \in Seq(S)
          /\ Len(b) = IF k + 1 <= Len(s) THEN Len(s) - (k + 1) + 1 ELSE 0
          /\ \A i \in 1..Len(s) - (k + 1) + 1 : b[i] = s[(k + 1) + i - 1]
      BY <3>1, <3>2, SubSeqProperties
    <3>4. /\ Len(s) - (k + 1) + 1 = Len(s) - k
          /\ \A i \in 1..Len(s) - k : (k + 1) + i - 1 = k + i
      BY <1>1, <2>1
    <3> HIDE DEF b
    <3>5. Len(b) = Len(s) - k
      <4>1. CASE k + 1 <= Len(s)
        BY <3>3, <3>4, <4>1
      <4>2. CASE ~(k + 1 <= Len(s))
        <5>1. Len(b) = 0
          BY <3>3, <4>2
        <5>2. k \in Nat /\ k <= Len(s) /\ Len(s) \in Nat
          BY <1>1, <2>1
        <5>3. k = Len(s)
          BY <4>2, <5>2
        <5>4. Len(s) - k = 0
          BY <5>2, <5>3
        <5> QED
          BY <5>1, <5>4
      <4> QED
        BY <4>1, <4>2
    <3>6. ASSUME NEW i \in 1..Len(s) - k PROVE b[i] = s[k + i]
      <4>1. i \in 1..Len(s) - (k + 1) + 1 /\ (k + 1) + i - 1 = k + i
        BY <1>1, <2>1
      <4>2. b[i] = s[(k + 1) + i - 1]
        BY <3>3, <4>1, Zenon
      <4> QED
        BY <4>1, <4>2
    <3> QED
      BY <3>3, <3>5, <3>6
  <2> HIDE DEF a, b
  <2> DEFINE q == a \o b
  <2>6. /\ q \in Seq(S) /\ Len(q) = Len(s) - 1
        /\ \A i \in 1..Len(s) - 1 : q[i] = IF i < k THEN s[i] ELSE s[i + 1]
    <3>1. /\ q \in Seq(S) /\ Len(q) = Len(a) + Len(b)
          /\ \A i \in 1..Len(a) + Len(b) : q[i] =
                IF i <= Len(a) THEN a[i] ELSE b[i - Len(a)]
      BY <2>4, <2>5, ConcatProperties
    <3>2. Len(a) + Len(b) = Len(s) - 1
      BY <1>1, <2>1, <2>4, <2>5
    <3> HIDE DEF q
    <3>3. ASSUME NEW i \in 1..Len(s) - 1
          PROVE  q[i] = IF i < k THEN s[i] ELSE s[i + 1]
      <4>1. CASE i < k
        <5>1. i \in 1..k - 1 /\ i <= k - 1
          BY <1>1, <2>1, <4>1
        <5>2. q[i] = a[i]
          BY <2>4, <3>1, <3>2, <5>1
        <5> QED
          BY <2>4, <4>1, <5>1, <5>2
      <4>2. CASE ~(i < k)
        <5>1. i - (k - 1) \in 1..Len(s) - k /\ k + (i - (k - 1)) = i + 1 /\ ~(i <= k - 1)
          BY <1>1, <2>1, <4>2
        <5>2. q[i] = b[i - (k - 1)]
          BY <2>4, <3>1, <3>2, <5>1
        <5> QED
          BY <2>5, <4>2, <5>1, <5>2
      <4> QED
        BY <4>1, <4>2
    <3> QED
      BY <3>1, <3>2, <3>3
  <2> HIDE DEF q
  <2>7. \A i \in 1..Len(s) - 1 : q[i] \in ToSet(s)
    <3> TAKE i \in 1..Len(s) - 1
    <3>1. i \in 1..Len(s) /\ i + 1 \in 1..Len(s)
      BY <1>1
    <3> QED
      BY <2>6, <3>1, Elements
  <2>8. ToSet(q) \subseteq ToSet(s)
    <3>1. \A x \in ToSet(q) : \E i \in 1..Len(q) : q[i] = x
      BY <2>6, Elements
    <3> QED
      BY <2>6, <2>7, <3>1
  <2>9. ASSUME NEW x \in ToSet(s) \ {t} PROVE x \in ToSet(q)
    <3>1. PICK i \in 1..Len(s) : s[i] = x
      BY Elements
    <3>2. i # k
      BY <2>1, <2>9, <3>1
    <3>3. \E j \in 1..Len(s) - 1 : q[j] = x
      <4>1. CASE i < k
        <5>1. i \in 1..Len(s) - 1
          BY <1>1, <2>1, <4>1
        <5> QED
          BY <2>6, <3>1, <4>1, <5>1
      <4>2. CASE i > k
        <5>1. i - 1 \in 1..Len(s) - 1 /\ ~(i - 1 < k) /\ (i - 1) + 1 = i
          BY <1>1, <2>1, <4>2
        <5> QED
          BY <2>6, <3>1, <5>1
      <4> QED
        BY <1>1, <2>1, <3>2, <4>1, <4>2
    <3> QED
      BY <2>6, <3>3, Elements
  <2>10. Forget(s, t) = q
    BY <2>2 DEF q
  <2> QED
    BY <1>1, <2>6, <2>8, <2>9, <2>10
<1> QED
  BY <1>2, <1>3

(* The turn that is marked stays, whatever drops out. *)
LEMMA MarkKeeps ==
  ASSUME NEW s \in Seq(Turns), Len(s) <= MaxCancelled, NEW t \in Turns
  PROVE  /\ Mark(s, t) \in Seq(Turns)
         /\ Len(Mark(s, t)) <= MaxCancelled
         /\ t \in ToSet(Mark(s, t))
         /\ ToSet(Mark(s, t)) \subseteq ToSet(s) \cup {t}
<1> DEFINE f == Forget(s, t)
           all == Append(f, t)
<1>1. /\ f \in Seq(Turns) /\ Len(f) \in Nat /\ Len(f) <= MaxCancelled
      /\ ToSet(f) \subseteq ToSet(s)
  BY Forgotten, LenProperties, MarksAssumption
<1>2. Mark(s, t) = IF Len(all) > MaxCancelled THEN Tail(all) ELSE all
  BY DEF Mark
<1> HIDE DEF f
<1>3. /\ all \in Seq(Turns) /\ Len(all) = Len(f) + 1 /\ all # <<>>
      /\ \A i \in 1..Len(f) : all[i] = f[i]
      /\ all[Len(f) + 1] = t
  BY <1>1, AppendProperties
<1>4. \A i \in 1..Len(all) : all[i] \in ToSet(s) \cup {t}
  BY <1>1, <1>3, Elements
<1> HIDE DEF all
<1>5. CASE Len(all) <= MaxCancelled
  <2>1. t \in ToSet(all) /\ ToSet(all) \subseteq ToSet(s) \cup {t}
    BY <1>1, <1>3, <1>4, Elements
  <2> QED
    BY <1>1, <1>2, <1>3, <1>5, <2>1, MarksAssumption
<1>6. CASE ~(Len(all) <= MaxCancelled)
  <2>1. /\ Tail(all) \in Seq(Turns) /\ Len(Tail(all)) = Len(f)
        /\ \A i \in 1..Len(f) : Tail(all)[i] = all[i + 1]
    <3>1. Len(Tail(all)) = Len(all) - 1
      BY <1>3, HeadTailProperties
    <3>2. Len(all) - 1 = Len(f)
      BY <1>1, <1>3
    <3> QED
      BY <1>3, <3>1, <3>2, HeadTailProperties
  <2>2. Len(f) \in 1..Len(f)
    BY <1>1, <1>3, <1>6, MarksAssumption
  <2>3. \A i \in 1..Len(f) : Tail(all)[i] \in ToSet(s) \cup {t}
    <3> TAKE i \in 1..Len(f)
    <3>1. i + 1 \in 1..Len(all)
      BY <1>1, <1>3
    <3> QED
      BY <1>4, <2>1, <3>1
  <2>4. t \in ToSet(Tail(all)) /\ ToSet(Tail(all)) \subseteq ToSet(s) \cup {t}
    <3> DEFINE q == Tail(all)
    <3> HIDE DEF q
    <3>1. q \in Seq(Turns) /\ Len(q) = Len(f) /\ q[Len(f)] = t
      BY <1>3, <2>1, <2>2 DEF q
    <3>2. \A i \in 1..Len(q) : q[i] \in ToSet(s) \cup {t}
      BY <2>3, <3>1 DEF q
    <3>3. /\ \A i \in 1..Len(q) : q[i] \in ToSet(q)
          /\ \A x \in ToSet(q) : \E i \in 1..Len(q) : q[i] = x
      BY <3>1, Elements
    <3>4. t \in ToSet(q) /\ ToSet(q) \subseteq ToSet(s) \cup {t}
      BY <2>2, <3>1, <3>2, <3>3
    <3> QED
      BY <3>4 DEF q
  <2>5. Mark(s, t) = Tail(all) /\ Len(Tail(all)) <= MaxCancelled
    BY <1>1, <1>2, <1>3, <1>6, <2>1, MarksAssumption
  <2> QED
    BY <2>1, <2>4, <2>5
<1> QED
  BY <1>5, <1>6

(* What cancel() and forget_cancel() do to the cancelled turns: no other   *)
(* turn is added, and one that goes was pushed out.                        *)
LEMMA MarkTurnKeeps ==
  ASSUME marks \in Seq(Turns), Len(marks) <= MaxCancelled, evicted \subseteq Turns,
         NEW t \in Turns, NEW forget \in BOOLEAN, MarkTurn(t, forget)
  PROVE  /\ marks' \in Seq(Turns) /\ Len(marks') <= MaxCancelled
         /\ ToSet(marks') \subseteq ToSet(marks) \cup {t}
         /\ evicted \subseteq evicted' /\ evicted' \subseteq Turns
         /\ \A u \in Turns \ {t} : Marked(u) => Marked(u)' \/ u \in evicted'
         /\ ~forget => Marked(t)'
<1> DEFINE m == Mark(marks, t)
<1>1. /\ m \in Seq(Turns) /\ Len(m) <= MaxCancelled /\ Len(m) \in Nat /\ t \in ToSet(m)
      /\ ToSet(m) \subseteq ToSet(marks) \cup {t}
  BY MarkKeeps, LenProperties
<1>2. /\ Forget(m, t) \in Seq(Turns) /\ Len(Forget(m, t)) <= Len(m) /\ Len(Forget(m, t)) \in Nat
      /\ ToSet(Forget(m, t)) \subseteq ToSet(m)
  BY <1>1, Forgotten, LenProperties
<1>3. /\ marks' = IF forget THEN Forget(m, t) ELSE m
      /\ evicted' = evicted \cup (ToSet(marks) \ (ToSet(marks') \cup {t}))
  BY DEF MarkTurn
<1> HIDE DEF m
<1>4. marks' \in Seq(Turns) /\ Len(marks') <= MaxCancelled
  BY <1>1, <1>2, <1>3, MarksAssumption
<1>5. ToSet(marks) \subseteq Turns
  BY Elements
<1> QED
  BY <1>1, <1>2, <1>3, <1>4, <1>5 DEF Marked

-----------------------------------------------------------------------------
(* What is on its way *)

FrameTypes == {"tts.start", "audio", "tts.end", "tts.complete", "tts.cancelled"}
Frames == [type : FrameTypes, turn : Turns, chunk : 0 .. Sentences]
Clips == [kind : {"clip"}, turn : Turns, chunk : 0 .. Sentences, bytes : SUBSET Turns]
Completions == [kind : {"completion"}, turn : Turns, chunk : {0}, bytes : {{}}]

(* The rest of TypeOK: of the replies, of what is between the socket and   *)
(* the page, and of the page.                                              *)
Replies ==
  /\ attached \in BOOLEAN
  /\ chunk \in [Turns -> 0 .. Sentences]
  /\ \A t \in Turns : stage[t] \in {"synth", "audio", "end"} => chunk[t] # 0
  /\ marks \in Seq(Turns) /\ Len(marks) <= MaxCancelled
  /\ evicted \subseteq Turns

Wires ==
  /\ wire \in Seq(Frames)
  /\ asked \in Seq(Turns)
  /\ confirming \in Turns \cup {None}

Page ==
  /\ turn \in Turns \cup {None} /\ begun \subseteq Turns /\ unheard \subseteq Turns
  /\ active \in Turns \cup {None}
  /\ incoming \in Clips \cup {None}
  /\ chain \in Seq(Clips \cup Completions)
  /\ lastChunk \in [Turns -> 0 .. Sentences]
  /\ silenced \subseteq Turns
  /\ held \in {None, "chain", "retry"}
  /\ cancels \in 0 .. MaxCancels /\ retries \in 0 .. MaxRetries

Typed == Replies /\ Wires /\ Page

(* All frames but tts.cancelled come from the task of the turn. *)
Spoken(f) == f.type # "tts.cancelled"
Mentions(q, t) == \E i \in 1..Len(q) : Spoken(q[i]) /\ q[i].turn = t
Revokes(q, t) == \E i \in 1..Len(q) : ~Spoken(q[i]) /\ q[i].turn = t

(* The task that may send, and its next frame. *)
Speaking(t) == Suspended(t) /\ t \notin cancelling
Sends(t) == stage[t] \in {"synth", "audio", "end", "complete"} /\ t \notin cancelling
Upcoming(t) ==
  IF stage[t] = "complete" THEN Frame("tts.complete", t, 0)
  ELSE Frame(IF stage[t] = "synth" THEN "tts.start"
             ELSE IF stage[t] = "audio" THEN "audio" ELSE "tts.end", t, chunk[t])

(* A frame follows another: within a sentence, from one to the next, or    *)
(* anything before the first sentence of a reply.                          *)
Opens(f) == f.type = "tts.start" /\ f.chunk = 1
Links(e, f) ==
  \/ Opens(f)
  \/ f.type \in {"tts.start", "tts.complete"} /\ e.type = "tts.end" /\ e.turn = f.turn
  \/ f.type = "audio" /\ e.type = "tts.start" /\ e.turn = f.turn /\ e.chunk = f.chunk
  \/ f.type = "tts.end" /\ e.type = "audio" /\ e.turn = f.turn /\ e.chunk = f.chunk

(* A step of the task of a turn, as the rest of the system sees it. *)
Advances(t) ==
  /\ UNCHANGED <<attached, confirming, asked, pageVars, cancels>>
  /\ \/ wire' = wire
     \/ Sends(t) /\ Upcoming(t) \in Frames /\ wire' = Append(wire, Upcoming(t))
  /\ stage'[t] \notin {"none", "ready"}
  /\ \A u \in Turns \ {t} : chunk'[u] = chunk[u]
  /\ Sends(t)' => \/ stage[t] = "ready" /\ Opens(Upcoming(t)') /\ wire' = wire
                  \/ /\ Sends(t) /\ Links(Upcoming(t), Upcoming(t)')
                     /\ wire' = Append(wire, Upcoming(t)) /\ ~Opens(Upcoming(t)')
  /\ Sends(t)' => Upcoming(t)' \in Frames /\ Upcoming(t)'.turn = t
  /\ wire' # wire /\ Upcoming(t).type = "tts.complete" => stage'[t] = "completed"
  /\ ToSet(marks') \subseteq ToSet(marks) \cup {t}
  /\ Speaking(t)' => marks' = marks
  /\ \A u \in Turns \ {t} : Marked(u) => Marked(u)' \/ u \in evicted'
  /\ evicted \subseteq evicted'

LEMMA UpcomingIs ==
  ASSUME IInv, Replies, NEW t \in Turns, Sends(t)
  PROVE  Upcoming(t) \in Frames /\ Upcoming(t).turn = t /\ Spoken(Upcoming(t))
<1>1. chunk[t] \in 0 .. Sentences /\ 0 \in 0 .. Sentences
  BY SentencesAssumption DEF Replies
<1> QED
  BY <1>1 DEF Upcoming, Frame, Frames, FrameTypes, Spoken

LEMMA SynthesisAdvances ==
  ASSUME IInv, Replies, NEW t \in Turns, Synthesis(t)
  PROVE  Advances(t) /\ Replies'
<1>1. /\ stage[t] \in Stages /\ chunk[t] \in 0 .. Sentences /\ Sentences \in Nat /\ 1 <= Sentences
      /\ DOMAIN stage = Turns /\ DOMAIN chunk = Turns
  BY SentencesAssumption DEF IInv, Tasks, Replies
<1>2. CASE Begin(t)
  <2>1. /\ stage[t] = "ready" /\ t \notin cancelling
        /\ UNCHANGED <<attached, cancelling, current, marks, evicted, confirming, wire, asked, pageVars, cancels>>
        /\ stage' = [stage EXCEPT ![t] = "synth"] /\ chunk' = [chunk EXCEPT ![t] = 1]
    BY <1>2 DEF Begin, Runs
  <2>2. stage'[t] = "synth" /\ chunk'[t] = 1 /\ t \notin cancelling'
    BY <1>1, <2>1
  <2>3. Upcoming(t)' = Frame("tts.start", t, 1)
    BY <2>2 DEF Upcoming, Frame
  <2>4. Upcoming(t)' \in Frames /\ Opens(Upcoming(t)') /\ Upcoming(t)'.turn = t
    BY <1>1, <2>3 DEF Frame, Frames, FrameTypes, Opens
  <2>5. Replies'
    BY <1>1, <2>1 DEF Replies, IInv, Tasks
  <2> QED
    BY <1>1, <2>1, <2>2, <2>4, <2>5 DEF Advances, Marked
<1>3. ASSUME /\ marks' = Forget(marks, t)
             /\ UNCHANGED <<attached, chunk, cancelling, current, evicted, confirming, asked, pageVars, cancels>>
             /\ stage[t] \in {"synth", "complete"} /\ t \notin cancelling
             /\ \/ stage' = [stage EXCEPT ![t] = "failed"] /\ wire' = wire
                \/ /\ stage' = [stage EXCEPT ![t] = "completed"]
                   /\ stage[t] = "complete" /\ wire' = Append(wire, Upcoming(t))
      PROVE  Advances(t) /\ Replies'
  <2>1. stage'[t] \in {"failed", "completed"} /\ \A u \in Turns \ {t} : stage'[u] = stage[u]
    BY <1>1, <1>3
  <2>2. ~Sends(t)' /\ ~Speaking(t)'
    BY <2>1 DEF Sends, Speaking, Suspended
  <2>3. /\ marks' \in Seq(Turns) /\ Len(marks') <= MaxCancelled
        /\ ToSet(marks') \subseteq ToSet(marks) /\ ToSet(marks) \ {t} \subseteq ToSet(marks')
    <3>1. Len(Forget(marks, t)) \in Nat /\ Len(marks) \in Nat
      BY Forgotten, LenProperties DEF Replies
    <3> QED
      BY <1>3, <3>1, Forgotten, MarksAssumption DEF Replies
  <2>4. Sends(t) /\ Upcoming(t) \in Frames
    BY <1>3, UpcomingIs DEF Sends
  <2>5. Replies'
    BY <1>1, <1>3, <2>1, <2>3 DEF Replies
  <2>6. wire' # wire => stage'[t] = "completed"
    BY <1>1, <1>3
  <2> QED
    BY <1>3, <2>1, <2>2, <2>3, <2>4, <2>5, <2>6 DEF Advances, Marked
<1>4. CASE SynthesisFails(t)
  BY <1>3, <1>4 DEF SynthesisFails, Runs
<1>5. CASE SendComplete(t)
  <2>1. Upcoming(t) = Frame("tts.complete", t, 0)
    BY <1>5 DEF SendComplete, Runs, Upcoming
  <2> QED
    BY <1>3, <1>5, <2>1 DEF SendComplete, Runs, Send
<1>6. ASSUME /\ UNCHANGED <<attached, cancelling, current, marks, evicted, confirming, asked, pageVars, cancels>>
             /\ stage[t] \in {"synth", "audio", "end"} /\ t \notin cancelling
             /\ wire' = Append(wire, Upcoming(t))
             /\ \/ /\ chunk' = chunk
                   /\ \E s \in {"audio", "end", "complete"} :
                        /\ stage' = [stage EXCEPT ![t] = s]
                        /\ <<stage[t], s>> \in {<<"synth", "audio">>, <<"audio", "end">>, <<"end", "complete">>}
                \/ /\ stage[t] = "end" /\ chunk[t] < Sentences
                   /\ stage' = [stage EXCEPT ![t] = "synth"]
                   /\ chunk' = [chunk EXCEPT ![t] = @ + 1]
      PROVE  Advances(t) /\ Replies'
  <2>1. Sends(t) /\ Upcoming(t) \in Frames /\ Upcoming(t).turn = t /\ chunk[t] # 0
    BY <1>6, UpcomingIs DEF Sends, Replies
  <2>2. Upcoming(t) = Frame(IF stage[t] = "synth" THEN "tts.start"
                            ELSE IF stage[t] = "audio" THEN "audio" ELSE "tts.end", t, chunk[t])
    BY <1>6 DEF Upcoming
  <2>3. Replies'
    <3>1. CASE chunk' = chunk
      <4>1. \A u \in Turns : stage'[u] \in {"synth", "audio", "end"} => chunk[u] # 0
        BY <1>1, <1>6, <2>1, <3>1 DEF Replies
      <4> QED
        BY <1>6, <3>1, <4>1 DEF Replies
    <3>2. CASE chunk' # chunk
      <4>1. /\ stage' = [stage EXCEPT ![t] = "synth"] /\ chunk' = [chunk EXCEPT ![t] = @ + 1]
            /\ chunk[t] + 1 \in 0 .. Sentences /\ chunk[t] + 1 # 0
        BY <1>1, <1>6, <3>2
      <4>2. \A u \in Turns : stage'[u] \in {"synth", "audio", "end"} => chunk'[u] # 0
        BY <1>1, <4>1 DEF Replies
      <4> QED
        BY <1>6, <4>1, <4>2 DEF Replies
    <3> QED
      BY <3>1, <3>2
  <2>4. /\ Upcoming(t)' \in Frames /\ Upcoming(t)'.turn = t
        /\ Links(Upcoming(t), Upcoming(t)') /\ ~Opens(Upcoming(t)')
    <3>1. CASE chunk' = chunk
      <4>1. <<stage[t], stage'[t]>> \in {<<"synth", "audio">>, <<"audio", "end">>, <<"end", "complete">>}
        BY <1>1, <1>6, <3>1
      <4>2. Upcoming(t)' = IF stage'[t] = "complete" THEN Frame("tts.complete", t, 0)
                           ELSE Frame(IF stage'[t] = "audio" THEN "audio" ELSE "tts.end", t, chunk[t])
        BY <3>1, <4>1 DEF Upcoming
      <4>3. CASE stage[t] = "synth"
        <5>1. Upcoming(t) = Frame("tts.start", t, chunk[t]) /\ Upcoming(t)' = Frame("audio", t, chunk[t])
          BY <2>2, <4>1, <4>2, <4>3
        <5> QED
          BY <1>1, <5>1 DEF Frame, Frames, FrameTypes, Links, Opens
      <4>4. CASE stage[t] = "audio"
        <5>1. Upcoming(t) = Frame("audio", t, chunk[t]) /\ Upcoming(t)' = Frame("tts.end", t, chunk[t])
          BY <2>2, <4>1, <4>2, <4>4
        <5> QED
          BY <1>1, <5>1 DEF Frame, Frames, FrameTypes, Links, Opens
      <4>5. CASE stage[t] = "end"
        <5>1. Upcoming(t) = Frame("tts.end", t, chunk[t]) /\ Upcoming(t)' = Frame("tts.complete", t, 0)
          BY <2>2, <4>1, <4>2, <4>5
        <5> QED
          BY <1>1, <5>1 DEF Frame, Frames, FrameTypes, Links, Opens
      <4> QED
        BY <4>1, <4>3, <4>4, <4>5
    <3>2. CASE chunk' # chunk
      <4>1. /\ stage[t] = "end" /\ chunk[t] < Sentences
            /\ stage'[t] = "synth" /\ chunk'[t] = chunk[t] + 1
        BY <1>1, <1>6, <3>2
      <4>2. Upcoming(t)' = Frame("tts.start", t, chunk[t] + 1) /\ Upcoming(t) = Frame("tts.end", t, chunk[t])
        BY <2>2, <4>1 DEF Upcoming
      <4>3. chunk[t] + 1 \in 0 .. Sentences /\ chunk[t] + 1 # 1
        BY <1>1, <2>1, <4>1
      <4> QED
        BY <4>2, <4>3 DEF Frame, Frames, FrameTypes, Links, Opens
    <3> QED
      BY <3>1, <3>2
  <2>5. Upcoming(t).type # "tts.complete"
    BY <2>2 DEF Frame
  <2>6. \A u \in Turns \ {t} : chunk'[u] = chunk[u]
    BY <1>1, <1>6
  <2>7. /\ UNCHANGED <<attached, confirming, asked, pageVars, cancels, marks, evicted>>
        /\ wire' = Append(wire, Upcoming(t))
    BY <1>6
  <2>8. ToSet(marks') = ToSet(marks) /\ \A u \in Turns : Marked(u) = Marked(u)'
    BY <2>7 DEF Marked
  <2>9. stage'[t] \notin {"none", "ready"}
    BY <1>1, <1>6
  <2> QED
    BY <2>1, <2>3, <2>4, <2>5, <2>6, <2>7, <2>8, <2>9 DEF Advances
<1>7. CASE SendStart(t) \/ SendAudio(t)
  <2>1. \/ stage[t] = "synth" /\ Upcoming(t) = Frame("tts.start", t, chunk[t])
        \/ stage[t] = "audio" /\ Upcoming(t) = Frame("audio", t, chunk[t])
    BY <1>7 DEF SendStart, SendAudio, Runs, Upcoming
  <2>2. CASE SendStart(t)
    BY <1>6, <2>1, <2>2 DEF SendStart, Runs, Send
  <2>3. CASE SendAudio(t)
    BY <1>6, <2>1, <2>3 DEF SendAudio, Runs, Send
  <2> QED
    BY <1>7, <2>2, <2>3
<1>8. CASE SendEnd(t)
  <2>1. stage[t] = "end" /\ Upcoming(t) = Frame("tts.end", t, chunk[t])
    BY <1>8 DEF SendEnd, Runs, Upcoming
  <2>2. CASE chunk[t] < Sentences
    BY <1>6, <1>8, <2>1, <2>2 DEF SendEnd, Runs, Send
  <2>3. CASE ~(chunk[t] < Sentences)
    <3>1. /\ stage' = [stage EXCEPT ![t] = "complete"] /\ chunk' = chunk
          /\ wire' = Append(wire, Upcoming(t)) /\ t \notin cancelling
          /\ UNCHANGED <<attached, cancelling, current, marks, evicted, confirming, asked, pageVars, cancels>>
      BY <1>8, <2>1, <2>3 DEF SendEnd, Runs, Send
    <3> QED
      BY <1>6, <2>1, <3>1
  <2> QED
    BY <2>2, <2>3
<1>9. CASE CancelTakesEffect(t)
  <2>1. /\ stage' = [stage EXCEPT ![t] = "cancelled"] /\ t \in cancelling
        /\ UNCHANGED <<attached, chunk, current, confirming, wire, asked, pageVars, cancels>>
        /\ \/ UNCHANGED <<marks, evicted>>
           \/ MarkTurn(t, TRUE)
    BY <1>9 DEF CancelTakesEffect
  <2>2. /\ marks' \in Seq(Turns) /\ Len(marks') <= MaxCancelled
        /\ ToSet(marks') \subseteq ToSet(marks) \cup {t}
        /\ evicted \subseteq evicted' /\ evicted' \subseteq Turns
        /\ \A u \in Turns \ {t} : Marked(u) => Marked(u)' \/ u \in evicted'
    <3>1. CASE UNCHANGED <<marks, evicted>>
      BY <3>1 DEF Replies, Marked
    <3>2. CASE MarkTurn(t, TRUE)
      BY <3>2, MarkTurnKeeps DEF Replies
    <3> QED
      BY <2>1, <3>1, <3>2
  <2>3. stage'[t] = "cancelled"
    BY <1>1, <2>1
  <2>4. ~Sends(t)' /\ ~Speaking(t)'
    BY <2>3 DEF Sends, Speaking, Suspended
  <2>5. Replies'
    BY <1>1, <2>1, <2>2 DEF Replies
  <2> QED
    BY <2>1, <2>2, <2>3, <2>4, <2>5 DEF Advances
<1> QED
  BY <1>2, <1>4, <1>5, <1>7, <1>8, <1>9 DEF Synthesis

-----------------------------------------------------------------------------
(* The order of the frames *)

Holds(c, t) == c # None /\ c.turn = t

(* The clip that arrives, if its end is not going to be ignored: the turn  *)
(* of any other is past, and it is never queued.                           *)
Arriving == IF incoming # None /\ turn \notin {None, incoming.turn} THEN None ELSE incoming

LEMMA ArrivingIs ==
  /\ Arriving \in {incoming, None}
  /\ \A t : Holds(Arriving, t) <=> Holds(incoming, t) /\ turn \in {None, t}
BY DEF Arriving, Holds

(* The clip that arrives fits a frame: nothing of the turn of a start is   *)
(* arriving, nor when its reply is complete.                               *)
Ready(f, c) == Holds(c, f.turn) =>
  \/ f.type = "audio" /\ c.chunk = f.chunk /\ c.bytes = {}
  \/ f.type = "tts.end" /\ c.chunk = f.chunk /\ c.bytes \subseteq {f.turn}

Mute(q, i, j) == \A k \in 1..Len(q) : i < k /\ k < j => ~Spoken(q[k])

(* Each frame follows the one before it, the first one fits the clip, and  *)
(* nothing of a reply comes before its first sentence.                     *)
Ordered(q, c) ==
  /\ \A i, j \in 1..Len(q) :
       i < j /\ Spoken(q[i]) /\ Spoken(q[j]) /\ Mute(q, i, j) => Links(q[i], q[j])
  /\ \A j \in 1..Len(q) : Spoken(q[j]) /\ Mute(q, 0, j) => Ready(q[j], c)
  /\ \A j \in 1..Len(q) : Opens(q[j]) =>
       /\ ~Holds(c, q[j].turn)
       /\ \A i \in 1..Len(q) : i < j /\ Spoken(q[i]) => q[i].turn # q[j].turn

(* A frame may be put behind the others. *)
Fits(q, f, c) == Spoken(f) =>
  /\ \A i \in 1..Len(q) : Spoken(q[i]) /\ Mute(q, i, Len(q) + 1) => Links(q[i], f)
  /\ Mute(q, 0, Len(q) + 1) => Ready(f, c)
  /\ Opens(f) => ~Holds(c, f.turn) /\ ~Mentions(q, f.turn)

LEMMA Put ==
  ASSUME NEW q \in Seq(Frames), NEW f \in Frames
  PROVE  /\ Append(q, f) \in Seq(Frames) /\ Append(q, f) # <<>>
         /\ Len(q) \in Nat /\ Len(Append(q, f)) = Len(q) + 1
         /\ \A i \in 1..Len(q) : Append(q, f)[i] = q[i]
         /\ Append(q, f)[Len(q) + 1] = f
BY AppendProperties, LenProperties

LEMMA Taken ==
  ASSUME NEW q \in Seq(Frames), q # <<>>
  PROVE  /\ Tail(q) \in Seq(Frames)
         /\ Len(q) \in Nat /\ Len(q) > 0 /\ Len(Tail(q)) = Len(q) - 1
         /\ \A i \in 1..Len(Tail(q)) : Tail(q)[i] = q[i + 1]
         /\ Head(q) = q[1] /\ Head(q) \in Frames
BY HeadTailProperties, LenProperties, EmptySeq

LEMMA OrderedPut ==
  ASSUME NEW q \in Seq(Frames), NEW f \in Frames, NEW c
  PROVE  Ordered(Append(q, f), c) <=> Ordered(q, c) /\ Fits(q, f, c)
<1> DEFINE r == Append(q, f)
           n == Len(q)
<1>1. /\ n \in Nat /\ Len(r) = n + 1 /\ \A i \in 1..n : r[i] = q[i]
      /\ r[n + 1] = f
  BY Put
<1> HIDE DEF r, n
<1>2. \A i \in 0..n, j \in 1..n + 1 : Mute(r, i, j) <=> Mute(q, i, j)
  BY <1>1 DEF Mute, n
<1>3. Mentions(q, f.turn) <=> \E i \in 1..n : Spoken(q[i]) /\ q[i].turn = f.turn
  BY DEF Mentions, n
<1>4. ASSUME Ordered(r, c) PROVE Ordered(q, c) /\ Fits(q, f, c)
  <2>1. \A i, j \in 1..n :
          i < j /\ Spoken(q[i]) /\ Spoken(q[j]) /\ Mute(q, i, j) => Links(q[i], q[j])
    BY <1>1, <1>2, <1>4 DEF Ordered
  <2>2. \A j \in 1..n : Spoken(q[j]) /\ Mute(q, 0, j) => Ready(q[j], c)
    BY <1>1, <1>2, <1>4 DEF Ordered
  <2>3. \A j \in 1..n : Opens(q[j]) =>
          /\ ~Holds(c, q[j].turn)
          /\ \A i \in 1..n : i < j /\ Spoken(q[i]) => q[i].turn # q[j].turn
    BY <1>1, <1>4 DEF Ordered
  <2>4. ASSUME Spoken(f), NEW i \in 1..n, Spoken(q[i]), Mute(q, i, n + 1) PROVE Links(q[i], f)
    BY <1>1, <1>2, <1>4, <2>4 DEF Ordered
  <2>5. ASSUME Spoken(f), Mute(q, 0, n + 1) PROVE Ready(f, c)
    BY <1>1, <1>2, <1>4, <2>5 DEF Ordered
  <2>6. ASSUME Opens(f) PROVE ~Holds(c, f.turn) /\ ~Mentions(q, f.turn)
    BY <1>1, <1>3, <1>4, <2>6 DEF Ordered
  <2> QED
    BY <2>1, <2>2, <2>3, <2>4, <2>5, <2>6 DEF Ordered, Fits, n
<1>5. ASSUME Ordered(q, c), Fits(q, f, c) PROVE Ordered(r, c)
  <2>1. ASSUME NEW i \in 1..n + 1, NEW j \in 1..n + 1,
               i < j, Spoken(r[i]), Spoken(r[j]), Mute(r, i, j)
        PROVE  Links(r[i], r[j])
    <3>1. i \in 1..n /\ r[i] = q[i] /\ Mute(q, i, j)
      BY <1>1, <1>2, <2>1
    <3>2. CASE j \in 1..n
      BY <1>1, <1>5, <2>1, <3>1, <3>2 DEF Ordered, n
    <3>3. CASE j = n + 1
      BY <1>1, <1>5, <2>1, <3>1, <3>3 DEF Fits, n
    <3> QED
      BY <1>1, <3>2, <3>3
  <2>2. ASSUME NEW j \in 1..n + 1, Spoken(r[j]), Mute(r, 0, j) PROVE Ready(r[j], c)
    <3>1. Mute(q, 0, j)
      BY <1>1, <1>2, <2>2
    <3>2. CASE j \in 1..n
      BY <1>1, <1>5, <2>2, <3>1, <3>2 DEF Ordered, n
    <3>3. CASE j = n + 1
      BY <1>1, <1>5, <2>2, <3>1, <3>3 DEF Fits, n
    <3> QED
      BY <1>1, <3>2, <3>3
  <2>3. ASSUME NEW j \in 1..n + 1, Opens(r[j])
        PROVE  /\ ~Holds(c, r[j].turn)
               /\ \A i \in 1..n + 1 : i < j /\ Spoken(r[i]) => r[i].turn # r[j].turn
    <3>2. CASE j \in 1..n
      BY <1>1, <1>5, <2>3, <3>2 DEF Ordered, n
    <3>3. CASE j = n + 1
      <4>1. Opens(f) /\ Spoken(f) /\ r[j] = f
        BY <1>1, <2>3, <3>3 DEF Opens, Spoken
      <4>2. ~Holds(c, f.turn) /\ ~Mentions(q, f.turn)
        BY <1>5, <4>1 DEF Fits
      <4> QED
        BY <1>1, <1>3, <3>3, <4>1, <4>2
    <3> QED
      BY <1>1, <3>2, <3>3
  <2> QED
    BY <1>1, <2>1, <2>2, <2>3 DEF Ordered
<1> QED
  BY <1>4, <1>5 DEF r

(* What may come next, after a frame was put behind the others. *)
LEMMA FitsAfter ==
  ASSUME NEW q \in Seq(Frames), NEW e \in Frames, NEW f \in Frames, NEW c
  PROVE  /\ Spoken(e) /\ Links(e, f) /\ ~Opens(f) => Fits(Append(q, e), f, c)
         /\ ~Spoken(e) /\ Fits(q, f, c) => Fits(Append(q, e), f, c)
<1> DEFINE r == Append(q, e)
           n == Len(q)
<1>1. /\ n \in Nat /\ Len(r) = n + 1 /\ \A i \in 1..n : r[i] = q[i]
      /\ r[n + 1] = e
  BY Put
<1> HIDE DEF r, n
<1>2. ASSUME Spoken(e), Links(e, f), ~Opens(f) PROVE Fits(r, f, c)
  <2>1. \A i \in 0..n : ~Mute(r, i, n + 2)
    BY <1>1, <1>2 DEF Mute
  <2>2. \A i \in 1..Len(r) : Mute(r, i, n + 2) => Links(r[i], f)
    BY <1>1, <1>2, <2>1
  <2>3. Len(r) + 1 = n + 2 /\ 0 \in 0..n
    BY <1>1
  <2> QED
    BY <1>2, <2>1, <2>2, <2>3 DEF Fits
<1>3. ASSUME ~Spoken(e), Fits(q, f, c) PROVE Fits(r, f, c)
  <2>1. \A i \in 0..n : Mute(r, i, n + 2) => Mute(q, i, n + 1)
    BY <1>1 DEF Mute, n
  <2>2. Mentions(r, f.turn) => Mentions(q, f.turn)
    BY <1>1, <1>3 DEF Mentions, n
  <2>3. ASSUME NEW i \in 1..Len(r), Spoken(f), Spoken(r[i]), Mute(r, i, n + 2) PROVE Links(r[i], f)
    <3>1. i \in 1..n /\ r[i] = q[i]
      BY <1>1, <1>3, <2>3
    <3> QED
      BY <1>1, <1>3, <2>1, <2>3, <3>1 DEF Fits, n
  <2>4. Spoken(f) /\ Mute(r, 0, n + 2) => Ready(f, c)
    BY <1>1, <1>3, <2>1 DEF Fits, n
  <2>5. Spoken(f) /\ Opens(f) => ~Holds(c, f.turn) /\ ~Mentions(r, f.turn)
    BY <1>3, <2>2 DEF Fits
  <2>6. Len(r) + 1 = n + 2
    BY <1>1
  <2> QED
    BY <2>3, <2>4, <2>5, <2>6 DEF Fits
<1> QED
  BY <1>2, <1>3 DEF r

(* A reply nothing was heard of may start. *)
LEMMA FitsFirst ==
  ASSUME NEW q \in Seq(Frames), NEW f \in Frames, NEW c,
         Opens(f), ~Holds(c, f.turn), ~Mentions(q, f.turn)
  PROVE  Fits(q, f, c)
BY DEF Fits, Links, Ready

(* The clip that arrives after the page has taken a frame. *)
Grasps(e, c, d) ==
  /\ \A t : Holds(d, t) => Holds(c, t) \/ (e.type = "tts.start" /\ e.turn = t)
  /\ ~Spoken(e) => \A f \in Frames : Ready(f, c) => Ready(f, d)
  /\ Spoken(e) /\ Ready(e, c) =>
       \A f \in Frames : Links(e, f) /\ ~Opens(f) => Ready(f, d)

LEMMA OrderedTaken ==
  ASSUME NEW q \in Seq(Frames), q # <<>>, NEW c, NEW d, Ordered(q, c), Grasps(Head(q), c, d)
  PROVE  Ordered(Tail(q), d)
<1> DEFINE r == Tail(q)
           n == Len(r)
           e == Head(q)
<1>1. /\ n \in Nat /\ Len(q) = n + 1 /\ \A i \in 1..n : r[i] = q[i + 1]
      /\ e = q[1] /\ \A i \in 1..n : r[i] \in Frames
  <2>1. \A i \in 1..n : r[i] \in Frames
    BY Taken, ElementOfSeq
  <2> QED
    BY Taken, <2>1
<1> HIDE DEF r, n, e
<1>2. ASSUME NEW i \in 0..n, NEW j \in 1..n, Mute(r, i, j) PROVE Mute(q, i + 1, j + 1)
  <2>1. ASSUME NEW k \in 1..Len(q), i + 1 < k, k < j + 1 PROVE ~Spoken(q[k])
    <3>1. k - 1 \in 1..n /\ i < k - 1 /\ k - 1 < j /\ (k - 1) + 1 = k
      BY <1>1, <2>1
    <3> QED
      BY <1>1, <1>2, <3>1 DEF Mute, n
  <2> QED
    BY <2>1 DEF Mute
<1>3. ASSUME NEW i \in 1..n, NEW j \in 1..n,
             i < j, Spoken(r[i]), Spoken(r[j]), Mute(r, i, j)
      PROVE  Links(r[i], r[j])
  <2>1. i + 1 \in 1..Len(q) /\ j + 1 \in 1..Len(q) /\ i + 1 < j + 1 /\ Mute(q, i + 1, j + 1)
    BY <1>1, <1>2, <1>3
  <2> QED
    BY <1>1, <1>3, <2>1 DEF Ordered
<1>4. ASSUME NEW j \in 1..n, Opens(r[j])
      PROVE  /\ ~Holds(d, r[j].turn)
             /\ \A i \in 1..n : i < j /\ Spoken(r[i]) => r[i].turn # r[j].turn
  <2>1. j + 1 \in 1..Len(q) /\ 1 \in 1..Len(q) /\ 1 < j + 1 /\ r[j] = q[j + 1]
    BY <1>1
  <2>2. ~Holds(c, r[j].turn) /\ (Spoken(e) => e.turn # r[j].turn)
    BY <1>1, <1>4, <2>1 DEF Ordered
  <2>3. ~Holds(d, r[j].turn)
    BY <2>2 DEF Grasps, Spoken, e
  <2>4. ASSUME NEW i \in 1..n, i < j, Spoken(r[i]) PROVE r[i].turn # r[j].turn
    <3>1. i + 1 \in 1..Len(q) /\ i + 1 < j + 1 /\ r[i] = q[i + 1]
      BY <1>1, <2>4
    <3> QED
      BY <1>4, <2>1, <2>4, <3>1 DEF Ordered
  <2> QED
    BY <2>3, <2>4
<1>5. ASSUME NEW j \in 1..n, Spoken(r[j]), Mute(r, 0, j) PROVE Ready(r[j], d)
  <2>1. j + 1 \in 1..Len(q) /\ 1 \in 1..Len(q) /\ 1 < j + 1 /\ r[j] = q[j + 1] /\ r[j] \in Frames
    BY <1>1
  <2>2. Mute(q, 1, j + 1)
    BY <1>1, <1>2, <1>5
  <2>3. CASE Opens(r[j])
    BY <1>4, <2>3 DEF Ready
  <2>4. CASE ~Opens(r[j]) /\ Spoken(e)
    <3>1. Links(e, r[j])
      BY <1>1, <1>5, <2>1, <2>2, <2>4 DEF Ordered
    <3>2. Mute(q, 0, 1)
      BY <1>1 DEF Mute
    <3>3. Ready(e, c)
      BY <1>1, <2>1, <2>4, <3>2 DEF Ordered
    <3> QED
      BY <2>1, <2>4, <3>1, <3>3 DEF Grasps, e
  <2>5. CASE ~Spoken(e)
    <3>1. Mute(q, 0, j + 1)
      <4> SUFFICES ASSUME NEW k \in 1..Len(q), 0 < k, k < j + 1 PROVE ~Spoken(q[k])
        BY DEF Mute
      <4>1. CASE k = 1
        BY <1>1, <2>5, <4>1
      <4>2. CASE k > 1
        BY <2>2, <4>2 DEF Mute
      <4> QED
        BY <1>1, <4>1, <4>2
    <3>2. Ready(r[j], c)
      BY <1>5, <2>1, <3>1 DEF Ordered
    <3> QED
      BY <2>1, <2>5, <3>2 DEF Grasps, e
  <2> QED
    BY <2>3, <2>4, <2>5
<1> QED
  BY <1>3, <1>4, <1>5 DEF Ordered, r, n

LEMMA FitsTaken ==
  ASSUME NEW q \in Seq(Frames), q # <<>>, NEW f \in Frames, NEW c, NEW d,
         Ordered(q, c), Fits(q, f, c), Grasps(Head(q), c, d)
  PROVE  Fits(Tail(q), f, d)
<1>1. /\ Append(q, f) \in Seq(Frames) /\ Append(q, f) # <<>>
      /\ Head(Append(q, f)) = Head(q) /\ Tail(Append(q, f)) = Append(Tail(q), f)
  BY Put, HeadTailAppend
<1>2. Ordered(Append(q, f), c)
  BY OrderedPut
<1>3. Ordered(Append(Tail(q), f), d)
  BY <1>1, <1>2, OrderedTaken
<1> QED
  BY <1>3, Taken, OrderedPut

-----------------------------------------------------------------------------
(* The steps of the page *)

Agree(c, a) == c # None => a = c.turn

(* The page takes a frame. *)
Receives ==
  /\ wire # <<>> /\ wire' = Tail(wire)
  /\ UNCHANGED <<attached, taskVars, confirming, asked, cancels>>
  /\ \/ active' \in {active, None}
     \/ Spoken(Head(wire)) /\ active' = Head(wire).turn
  /\ \/ silenced' = silenced
     \/ /\ ~Spoken(Head(wire)) /\ active' # Head(wire).turn
        /\ silenced' = silenced \cup {Head(wire).turn}
  /\ playing' \in {playing, None}
  /\ \A t : Holds(incoming', t) =>
       Holds(incoming, t) \/ (Head(wire).type = "tts.start" /\ Head(wire).turn = t)
  /\ Grasps(Head(wire), Arriving, Arriving')
  /\ Agree(incoming, active) => Agree(incoming', active')
  /\ \/ chain' \in {chain, <<>>}
     \/ /\ chain' = Append(chain, Arriving) /\ Arriving \in Clips
        /\ Head(wire).type = "tts.end"
        /\ Ready(Head(wire), Arriving) => Arriving.bytes = {Arriving.turn}
     \/ /\ chain' = Append(chain, Completion(Head(wire).turn))
        /\ Head(wire).type = "tts.complete" /\ OfLatest(Head(wire))

(* A step of the page that takes none. *)
Minds ==
  /\ UNCHANGED <<attached, taskVars, confirming, wire, lastChunk, silenced>>
  /\ turn' = turn \/ turn' \in Turns \ begun
  /\ active' \in {active, None} /\ incoming' \in {incoming, None}
  /\ \/ chain' \in {chain, <<>>} /\ playing' \in {playing, None}
     \/ /\ chain # <<>> /\ chain' = Tail(chain)
        /\ \/ playing' = None
           \/ playing' = Head(chain) /\ Head(chain).kind = "clip" /\ active = Head(chain).turn
  /\ active' # active /\ incoming' # None =>
       chain # <<>> /\ Head(chain).kind = "completion" /\ Head(chain).turn = active

LEMMA SilenceIs ==
  ASSUME Page, Silence
  PROVE  /\ active' = None /\ incoming' = None /\ chain' = <<>>
         /\ playing' \in {playing, None} /\ held' = None
         /\ chain' \in Seq(Clips \cup Completions)
BY EmptySeq DEF Silence, Hush

LEMMA ClipTypes ==
  ASSUME NEW t \in Turns, NEW n \in 0 .. Sentences, NEW b \in SUBSET Turns
  PROVE  /\ Clip(t, n, b) \in Clips /\ Clip(t, n, b).turn = t
         /\ Clip(t, n, b).chunk = n /\ Clip(t, n, b).bytes = b
         /\ Completion(t) \in Completions /\ Completion(t).kind = "completion"
         /\ Completion(t).turn = t
BY DEF Clip, Clips, Completion, Completions

LEMMA ChainPut ==
  ASSUME Page, NEW item \in Clips \cup Completions
  PROVE  Append(chain, item) \in Seq(Clips \cup Completions)
BY AppendProperties DEF Page

LEMMA StartReceived ==
  ASSUME Wires, Page, TakeStart
  PROVE  Receives /\ Page'
<1> DEFINE e == Head(wire)
<1>1. /\ wire # <<>> /\ wire' = Tail(wire) /\ e \in Frames /\ e.type = "tts.start"
      /\ UNCHANGED <<attached, taskVars, confirming, asked, cancels>>
      /\ UNCHANGED <<turnVars, lastChunk, chain, soundVars, silenced, retries>>
      /\ turn \in {None, e.turn} /\ turn' = turn
  BY Taken DEF TakeStart, Takes, Wires, OfLatest, turnVars
<1>2. e.turn \in Turns /\ e.chunk \in 0 .. Sentences /\ Spoken(e)
  BY <1>1 DEF Frames, Spoken
<1>3. CASE e.chunk > lastChunk[e.turn] /\ active \in {None, e.turn}
  <2>1. active' = e.turn /\ incoming' = Clip(e.turn, e.chunk, {})
    BY <1>3 DEF TakeStart
  <2>2. incoming' \in Clips /\ incoming'.turn = e.turn /\ incoming'.chunk = e.chunk /\ incoming'.bytes = {}
    BY <1>2, <2>1, ClipTypes
  <2>3. Arriving' = incoming'
    BY <1>1, <2>2 DEF Arriving
  <2>4. ASSUME NEW f \in Frames, Ready(e, Arriving), Links(e, f), ~Opens(f) PROVE Ready(f, Arriving')
    BY <1>1, <2>2, <2>4, <2>3 DEF Links, Ready, Holds
  <2>5. Grasps(e, Arriving, Arriving')
    BY <1>1, <1>2, <2>2, <2>4, <2>3 DEF Grasps, Holds
  <2> QED
    BY <1>1, <1>2, <2>1, <2>2, <2>5 DEF Receives, Agree, Holds, Page, soundVars, turnVars
<1>4. CASE ~(e.chunk > lastChunk[e.turn] /\ active \in {None, e.turn})
  <2>1. UNCHANGED <<active, incoming>>
    BY <1>4 DEF TakeStart
  <2>2. Arriving' = Arriving
    BY <1>1, <2>1 DEF Arriving
  <2>3. ASSUME NEW f \in Frames, Ready(e, Arriving), Links(e, f), ~Opens(f) PROVE Ready(f, Arriving)
    BY <1>1, <2>3 DEF Links, Ready, Holds
  <2>4. Grasps(e, Arriving, Arriving')
    BY <1>2, <2>2, <2>3 DEF Grasps
  <2> QED
    BY <1>1, <1>2, <2>1, <2>4 DEF Receives, Agree, Page, soundVars, turnVars
<1> QED
  BY <1>3, <1>4

LEMMA AudioReceived ==
  ASSUME Wires, Page, TakeAudio
  PROVE  Receives /\ Page'
<1> DEFINE e == Head(wire)
<1>1. /\ wire # <<>> /\ wire' = Tail(wire) /\ e \in Frames /\ e.type = "audio"
      /\ UNCHANGED <<attached, taskVars, confirming, asked, cancels>>
      /\ UNCHANGED <<turnVars, active, lastChunk, chain, soundVars, silenced, retries>>
      /\ turn' = turn
      /\ incoming' = IF incoming = None THEN None
                     ELSE [incoming EXCEPT !.bytes = @ \cup {e.turn}]
  BY Taken DEF TakeAudio, Takes, Wires, turnVars
<1>2. e.turn \in Turns /\ Spoken(e)
  BY <1>1 DEF Frames, Spoken
<1>3. CASE incoming = None
  <2>1. incoming' = None
    BY <1>1, <1>3
  <2>2. Arriving' = None /\ Grasps(e, Arriving, Arriving')
    BY <1>2, <1>3, <2>1 DEF Grasps, Holds, Ready, Arriving
  <2> QED
    BY <1>1, <1>2, <2>1, <2>2 DEF Receives, Agree, Holds, Page, soundVars, turnVars
<1>4. CASE incoming # None
  <2>1. incoming \in Clips
    BY <1>4 DEF Page
  <2>2. /\ incoming' \in Clips /\ incoming'.turn = incoming.turn
        /\ incoming'.chunk = incoming.chunk /\ incoming'.bytes = incoming.bytes \cup {e.turn}
    BY <1>1, <1>2, <1>4, <2>1 DEF Clips
  <2>3. \/ Arriving = incoming /\ Arriving' = incoming'
        \/ Arriving = None /\ Arriving' = None
    BY <1>1, <1>4, <2>2 DEF Arriving
  <2>4. ASSUME NEW f \in Frames, Ready(e, Arriving), Links(e, f), ~Opens(f) PROVE Ready(f, Arriving')
    <3>1. f.type = "tts.end" /\ e.turn = f.turn /\ e.chunk = f.chunk
      BY <1>1, <2>4 DEF Links
    <3> QED
      BY <1>1, <1>4, <2>2, <2>4, <2>3, <3>1 DEF Ready, Holds
  <2>5. Grasps(e, Arriving, Arriving')
    BY <1>2, <1>4, <2>2, <2>4, <2>3 DEF Grasps, Holds
  <2> QED
    BY <1>1, <1>2, <1>4, <2>2, <2>5 DEF Receives, Agree, Holds, Page, soundVars, turnVars
<1> QED
  BY <1>3, <1>4

LEMMA EndReceived ==
  ASSUME Wires, Page, TakeEnd
  PROVE  Receives /\ Page'
<1> DEFINE e == Head(wire)
           expected == incoming # None /\ incoming.turn = e.turn /\ incoming.chunk = e.chunk
<1>1. /\ wire # <<>> /\ wire' = Tail(wire) /\ e \in Frames /\ e.type = "tts.end"
      /\ UNCHANGED <<attached, taskVars, confirming, asked, cancels>>
      /\ UNCHANGED <<turnVars, active, soundVars, silenced, retries>>
      /\ turn \in {None, e.turn} /\ turn' = turn
      /\ incoming' = IF expected THEN None ELSE incoming
      /\ lastChunk' = IF expected THEN [lastChunk EXCEPT ![e.turn] = e.chunk] ELSE lastChunk
      /\ chain' = IF expected /\ incoming.bytes # {} THEN Append(chain, incoming) ELSE chain
  BY Taken DEF TakeEnd, Takes, Wires, OfLatest, turnVars
<1>2. e.turn \in Turns /\ e.chunk \in 0 .. Sentences /\ Spoken(e)
  BY <1>1 DEF Frames, Spoken
<1>3. Grasps(e, Arriving, Arriving')
  <2>1. CASE expected
    <3>1. Arriving' = None
      BY <1>1, <2>1 DEF Arriving
    <3> QED
      BY <1>2, <3>1 DEF Grasps, Holds, Ready
  <2>2. CASE ~expected
    <3>1. Arriving' = Arriving
      BY <1>1, <2>2 DEF Arriving
    <3>2. ASSUME NEW f \in Frames, Ready(e, Arriving), Links(e, f), ~Opens(f) PROVE Ready(f, Arriving)
      <4>1. e.turn = f.turn
        BY <1>1, <3>2 DEF Links
      <4>2. ~Holds(Arriving, e.turn)
        BY <1>1, <2>2, <3>2, ArrivingIs DEF Ready, Holds
      <4> QED
        BY <4>1, <4>2 DEF Ready
    <3> QED
      BY <1>1, <1>2, <3>1, <3>2 DEF Grasps, Holds
  <2> QED
    BY <2>1, <2>2
<1>4. Page' /\ incoming' \in {incoming, None}
  <2>1. CASE expected
    <3>1. incoming \in Clips
      BY <2>1 DEF Page
    <3>2. chain' \in Seq(Clips \cup Completions)
      BY <1>1, <3>1, ChainPut DEF Page
    <3> QED
      BY <1>1, <1>2, <2>1, <3>2 DEF Page, soundVars, turnVars
  <2>2. CASE ~expected
    BY <1>1, <2>2 DEF Page, soundVars, turnVars
  <2> QED
    BY <2>1, <2>2
<1>5. \/ chain' = chain
      \/ /\ chain' = Append(chain, Arriving) /\ Arriving \in Clips
         /\ Ready(e, Arriving) => Arriving.bytes = {Arriving.turn}
  <2>1. expected => Arriving = incoming /\ incoming \in Clips
    BY <1>1 DEF Arriving, Page
  <2> QED
    BY <1>1, <2>1 DEF Ready, Holds
<1> QED
  BY <1>1, <1>2, <1>3, <1>4, <1>5 DEF Receives, Agree, Holds, soundVars

LEMMA CompleteReceived ==
  ASSUME Wires, Page, TakeComplete
  PROVE  Receives /\ Page'
<1> DEFINE e == Head(wire)
<1>1. /\ wire # <<>> /\ wire' = Tail(wire) /\ e \in Frames /\ e.type = "tts.complete"
      /\ UNCHANGED <<attached, taskVars, confirming, asked, cancels>>
      /\ UNCHANGED <<turnVars, active, incoming, lastChunk, soundVars, silenced, retries>>
      /\ OfLatest(e) /\ turn' = turn
      /\ chain' = IF active = e.turn THEN Append(chain, Completion(e.turn)) ELSE chain
  BY Taken DEF TakeComplete, Takes, Wires, turnVars
<1>2. e.turn \in Turns /\ Spoken(e)
  BY <1>1 DEF Frames, Spoken
<1>3. Completion(e.turn) \in Clips \cup Completions
  BY <1>2 DEF Completion, Completions
<1>4. chain' \in Seq(Clips \cup Completions)
  BY <1>1, <1>3, ChainPut DEF Page
<1>5. Arriving' = Arriving
  BY <1>1 DEF Arriving
<1>6. Grasps(e, Arriving, Arriving')
  BY <1>1, <1>2, <1>5 DEF Grasps, Links, Opens
<1> QED
  BY <1>1, <1>2, <1>4, <1>6 DEF Receives, Agree, Page, soundVars, turnVars

LEMMA CancelledReceived ==
  ASSUME Wires, Page, TakeCancelled
  PROVE  Receives /\ Page'
<1> DEFINE e == Head(wire)
<1>1. /\ wire # <<>> /\ wire' = Tail(wire) /\ e \in Frames /\ e.type = "tts.cancelled"
      /\ UNCHANGED <<attached, taskVars, confirming, asked, cancels>>
      /\ UNCHANGED <<turnVars, lastChunk, retries>> /\ turn' = turn
      /\ Silences(e.turn) /\ silenced' = silenced \cup {e.turn}
  BY Taken DEF TakeCancelled, Takes, Wires, turnVars
<1>2. e.turn \in Turns /\ ~Spoken(e) /\ e.turn # None
  BY <1>1, NoTurnAssumption DEF Frames, Spoken
<1>3. CASE active = None \/ active = e.turn
  <2>1. Silence
    BY <1>1, <1>3 DEF Silences
  <2>2. Arriving' = None /\ Grasps(e, Arriving, Arriving')
    BY <1>2, <2>1, SilenceIs DEF Grasps, Holds, Ready, Arriving
  <2> QED
    BY <1>1, <1>2, <2>1, <2>2, SilenceIs DEF Receives, Agree, Holds, Page, turnVars
<1>4. CASE ~(active = None \/ active = e.turn)
  <2>1. UNCHANGED <<active, incoming, chain, soundVars>>
    BY <1>1, <1>2, <1>4 DEF Silences
  <2>2. Arriving' = Arriving /\ Grasps(e, Arriving, Arriving')
    BY <1>1, <1>2, <2>1 DEF Grasps, Arriving
  <2> QED
    BY <1>1, <1>2, <1>4, <2>1, <2>2 DEF Receives, Agree, Page, soundVars, turnVars
<1> QED
  BY <1>3, <1>4

(* A frame of an earlier turn: no clip of that turn can be queued any more. *)
LEMMA IgnoredReceived ==
  ASSUME Wires, Page, IgnoreFrame
  PROVE  Receives /\ Page'
<1> DEFINE e == Head(wire)
<1>1. /\ wire # <<>> /\ wire' = Tail(wire) /\ e \in Frames
      /\ UNCHANGED <<attached, taskVars, confirming, asked, cancels>>
      /\ UNCHANGED <<turn, begun, active, incoming, lastChunk, chain, soundVars, silenced, retries>>
      /\ turn \notin {None, e.turn} /\ unheard' \in {unheard, unheard \cup {e.turn}}
  BY Taken DEF IgnoreFrame, Takes, Wires, OfLatest
<1>2. e.turn \in Turns
  BY <1>1 DEF Frames
<1>3. Arriving' = Arriving /\ ~Holds(Arriving, e.turn)
  BY <1>1, ArrivingIs DEF Arriving
<1>4. ASSUME NEW f \in Frames, Links(e, f), ~Opens(f) PROVE Ready(f, Arriving)
  <2>1. e.turn = f.turn
    BY <1>4 DEF Links
  <2> QED
    BY <1>3, <2>1 DEF Ready
<1>5. Grasps(e, Arriving, Arriving')
  BY <1>3, <1>4 DEF Grasps
<1>6. Page'
  BY <1>1, <1>2 DEF Page, soundVars
<1> QED
  BY <1>1, <1>5, <1>6 DEF Receives, Agree, soundVars

LEMMA OthersMind ==
  ASSUME Wires, Page, Retry \/ ClipEnds \/ RetryPlays \/ RetryEnds \/ PlayNext
  PROVE  Minds /\ Page' /\ asked' = asked
<1>1. CASE Retry
  <2>1. retries' \in 0 .. MaxRetries
    BY <1>1, MarksAssumption DEF Retry, Page
  <2> QED
    BY <1>1, <2>1 DEF Retry, Minds, Page, turnVars
<1>2. CASE ClipEnds
  BY <1>2 DEF ClipEnds, Rest, Minds, Page, turnVars
<1>3. CASE RetryPlays
  BY <1>3 DEF RetryPlays, Minds, Page, turnVars
<1>4. CASE RetryEnds
  BY <1>4 DEF RetryEnds, Rest, Minds, Page, turnVars
<1>5. CASE PlayNext
  <2>1. chain # <<>> /\ chain' = Tail(chain) /\ chain' \in Seq(Clips \cup Completions)
    BY <1>5, HeadTailProperties DEF PlayNext, Page
  <2>2. /\ UNCHANGED <<attached, taskVars, confirming, wire, asked, incoming, lastChunk, silenced, cancels, retries>>
        /\ UNCHANGED <<turn, begun, unheard>>
        /\ playing' = IF Head(chain).kind = "clip" /\ active = Head(chain).turn THEN Head(chain) ELSE None
        /\ held' \in {held, "chain"}
        /\ active' = IF Head(chain).kind = "completion" /\ active = Head(chain).turn THEN None ELSE active
    BY <1>5 DEF PlayNext, turnVars
  <2> QED
    BY <2>1, <2>2 DEF Minds, Page
<1> QED
  BY <1>1, <1>2, <1>3, <1>4, <1>5

LEMMA CancelMinds ==
  ASSUME Wires, Page, CancelSpeech
  PROVE  Minds /\ Page' /\ asked' \in Seq(Turns)
<1> DEFINE t == IF active # None THEN active ELSE turn
<1>1. t \in Turns
  BY DEF CancelSpeech, Page
<1>2. Silence
  BY DEF CancelSpeech, Silences
<1>3. /\ UNCHANGED <<attached, taskVars, confirming, wire, turn, begun, unheard, lastChunk, silenced, retries>>
      /\ cancels' = cancels + 1 /\ cancels < MaxCancels
      /\ asked' = Append(asked, t)
  BY DEF CancelSpeech, turnVars
<1>4. asked' \in Seq(Turns)
  BY <1>1, <1>3, AppendProperties DEF Wires
<1>5. cancels' \in 0 .. MaxCancels
  BY <1>3, MarksAssumption DEF Page
<1> QED
  BY <1>2, <1>3, <1>4, <1>5, SilenceIs DEF Minds, Page

LEMMA BeginMinds ==
  ASSUME Wires, Page, NEW t \in Turns, BeginTurn(t)
  PROVE  Minds /\ Page' /\ asked' = asked
BY DEF BeginTurn, Minds, Page, soundVars

LEMMA PageReceives ==
  ASSUME Wires, Page,
         IgnoreFrame \/ TakeStart \/ TakeAudio \/ TakeEnd \/ TakeComplete \/ TakeCancelled
  PROVE  Receives /\ Page'
BY IgnoredReceived, StartReceived, AudioReceived, EndReceived, CompleteReceived, CancelledReceived

(* The kinds of step there are, and what each leaves alone. *)
Cancels ==
  /\ UNCHANGED <<stage, chunk, current, files, wire, pageVars, cancels>>
  /\ Cancel
  /\ \/ confirming' = None /\ UNCHANGED <<marks, evicted>>
     \/ \E t \in Turns : MarkTurn(t, FALSE) /\ confirming' = t
Confirms ==
  /\ confirming # None /\ confirming' = None
  /\ wire' = Append(wire, Frame("tts.cancelled", confirming, 0))
  /\ UNCHANGED <<attached, taskVars, asked, pageVars, cancels>>

Steps ==
  \/ \E t \in Turns : Speak(t) \/ (Synthesis(t) /\ Moves(t) /\ Advances(t))
  \/ Cancels \/ Confirms \/ Receives \/ Minds
  \/ UNCHANGED vars

LEMMA ReceivesTyped ==
  ASSUME Typed, Receives, Page', UNCHANGED stage
  PROVE  Typed'
<1>1. Wires'
  BY Taken DEF Typed, Wires, Receives
<1>2. Replies'
  BY DEF Typed, Replies, Receives, taskVars
<1> QED
  BY <1>1, <1>2 DEF Typed

LEMMA NextTyped ==
  ASSUME IInv, Typed, [Next]_vars
  PROVE  Typed' /\ Steps
<1> USE DEF Typed
<1>1. ASSUME NEW t \in Turns, Speak(t) PROVE Typed' /\ Steps
  <2>1. UNCHANGED <<attached, chunk, marks, evicted, confirming, wire, asked, pageVars, cancels>>
    BY <1>1 DEF Speak
  <2>2. \A u \in Turns : stage'[u] \in {"synth", "audio", "end"} => stage'[u] = stage[u]
    BY <1>1 DEF Speak, IInv, Tasks
  <2>3. Replies'
    BY <2>1, <2>2 DEF Replies
  <2>4. Wires' /\ Page'
    BY <2>1 DEF Wires, Page, pageVars, turnVars, soundVars
  <2> QED
    BY <1>1, <2>3, <2>4 DEF Steps
<1>2. ASSUME NEW t \in Turns, Synthesis(t) PROVE Typed' /\ Steps
  <2>1. Moves(t) /\ Advances(t) /\ Replies'
    BY <1>2, SynthesisMoves, SynthesisAdvances
  <2>2. Wires'
    BY <2>1, Put DEF Advances, Wires
  <2>3. Page'
    BY <2>1 DEF Advances, Page, pageVars, turnVars, soundVars
  <2> QED
    BY <1>2, <2>1, <2>2, <2>3 DEF Steps
<1>3. CASE CancelSpeech \/ \E t \in Turns : BeginTurn(t)
  <2>1. Minds /\ Page' /\ asked' \in Seq(Turns)
    BY <1>3, CancelMinds, BeginMinds DEF Wires
  <2>2. Wires' /\ Replies'
    BY <2>1 DEF Minds, Wires, Replies, taskVars
  <2> QED
    BY <2>1, <2>2 DEF Steps
<1>4. CASE TakeCancel
  <2>1. /\ UNCHANGED <<attached, stage, chunk, current, files, wire, pageVars, cancels>>
        /\ Cancel /\ asked # <<>> /\ asked' = Tail(asked) /\ confirming' = Head(asked)
        /\ MarkTurn(Head(asked), FALSE)
    BY <1>4 DEF TakeCancel
  <2>2. Head(asked) \in Turns /\ asked' \in Seq(Turns)
    BY <2>1, HeadTailProperties DEF Wires
  <2>3. marks' \in Seq(Turns) /\ Len(marks') <= MaxCancelled /\ evicted' \subseteq Turns
    BY <2>1, <2>2, MarkTurnKeeps DEF Replies
  <2>4. Replies'
    BY <2>1, <2>3 DEF Replies
  <2>5. Wires'
    BY <2>1, <2>2 DEF Wires
  <2>6. Page'
    BY <2>1 DEF Page, pageVars, turnVars, soundVars
  <2>7. Cancels
    BY <2>1, <2>2 DEF Cancels
  <2> QED
    BY <2>4, <2>5, <2>6, <2>7 DEF Steps
<1>5. CASE Close
  <2>1. /\ UNCHANGED <<stage, chunk, current, marks, files, evicted, wire, pageVars, cancels>>
        /\ Cancel /\ asked' = <<>> /\ confirming' = None /\ attached' = FALSE
    BY <1>5 DEF Close
  <2>2. Replies'
    BY <2>1 DEF Replies
  <2>3. Wires'
    BY <2>1, EmptySeq DEF Wires
  <2>4. Page'
    BY <2>1 DEF Page, pageVars, turnVars, soundVars
  <2>5. Cancels
    BY <2>1 DEF Cancels
  <2> QED
    BY <2>2, <2>3, <2>4, <2>5 DEF Steps
<1>6. CASE ConfirmCancel
  <2>1. Confirms
    BY <1>6 DEF ConfirmCancel, Send, Confirms
  <2>2. Frame("tts.cancelled", confirming, 0) \in Frames
    BY <2>1, SentencesAssumption DEF Confirms, Wires, Frame, Frames, FrameTypes
  <2>3. Wires'
    BY <2>1, <2>2, Put DEF Confirms, Wires
  <2>4. Replies' /\ Page'
    BY <2>1 DEF Confirms, Replies, Page, taskVars, pageVars, turnVars, soundVars
  <2> QED
    BY <2>1, <2>3, <2>4 DEF Steps
<1>7. CASE Playback \/ Retry
  <2>1. CASE Retry \/ ClipEnds \/ RetryPlays \/ RetryEnds \/ PlayNext
    <3>1. Minds /\ Page' /\ asked' = asked
      BY <2>1, OthersMind
    <3>2. Wires' /\ Replies'
      BY <3>1 DEF Minds, Wires, Replies, taskVars
    <3> QED
      BY <3>1, <3>2 DEF Steps
  <2>2. CASE IgnoreFrame \/ TakeStart \/ TakeAudio \/ TakeEnd \/ TakeComplete \/ TakeCancelled
    <3>1. Receives /\ Page'
      BY <2>2, PageReceives
    <3>2. Typed'
      BY <3>1, ReceivesTyped DEF Receives, taskVars
    <3> QED
      BY <3>1, <3>2 DEF Steps
  <2> QED
    BY <1>7, <2>1, <2>2 DEF Playback
<1>8. CASE UNCHANGED vars
  <2>1. Replies' /\ Wires' /\ Page'
    BY <1>8 DEF vars, Replies, Wires, Page, taskVars, pageVars, turnVars, soundVars
  <2> QED
    BY <1>8, <2>1 DEF Steps
<1> QED
  BY <1>1, <1>2, <1>3, <1>4, <1>5, <1>6, <1>7, <1>8 DEF Next

LEMMA InitTyped == Init => Typed
<1> SUFFICES ASSUME Init PROVE Typed
  OBVIOUS
<1>1. <<>> \in Seq(Turns) /\ <<>> \in Seq(Frames) /\ <<>> \in Seq(Clips \cup Completions)
      /\ Len(<<>>) = 0
  BY EmptySeq
<1> QED
  BY <1>1, SentencesAssumption, MarksAssumption DEF Init, Typed, Replies, Wires, Page

-----------------------------------------------------------------------------
(* A cancelled turn *)

(* The page was told, or is about to be, that the turn is cancelled. *)
Told(t) == confirming = t \/ t \in silenced \/ Revokes(wire, t)

(* Its reply does not start any more, unless its mark was pushed out, and  *)
(* the one that speaks has been told to stop.                              *)
Heeded == \A t \in Turns : Told(t) =>
  t \in evicted \/ IF stage[t] = "none" THEN Marked(t) ELSE ~Speaking(t)

Unmarked == \A t \in Turns : Speaking(t) => ~Marked(t)

(* Once the page has it, nothing of the turn is left. *)
Quiet == \A t \in silenced \ evicted : active # t /\ ~Mentions(wire, t)

(* NothingAfterCancelled, of any frames. *)
Obeys(q, E) == \A i, j \in 1..Len(q) :
  i < j /\ ~Spoken(q[i]) /\ Spoken(q[j]) => q[i].turn # q[j].turn \/ q[i].turn \in E

Obedient == Heeded /\ Unmarked /\ Quiet /\ Obeys(wire, evicted)

LEMMA WordsPut ==
  ASSUME NEW q \in Seq(Frames), NEW f \in Frames, NEW t
  PROVE  /\ Mentions(Append(q, f), t) <=> Mentions(q, t) \/ (Spoken(f) /\ f.turn = t)
         /\ Revokes(Append(q, f), t) <=> Revokes(q, t) \/ (~Spoken(f) /\ f.turn = t)
<1> DEFINE r == Append(q, f)
<1>1. /\ Len(q) \in Nat /\ Len(r) = Len(q) + 1 /\ \A i \in 1..Len(q) : r[i] = q[i]
      /\ r[Len(q) + 1] = f
  BY Put
<1> HIDE DEF r
<1>2. Len(q) + 1 \in 1..Len(r) /\ \A i \in 1..Len(r) : i \in 1..Len(q) \/ i = Len(q) + 1
  BY <1>1
<1>3. \A i \in 1..Len(q) : i \in 1..Len(r)
  BY <1>1
<1>4. Mentions(r, t) <=> Mentions(q, t) \/ (Spoken(f) /\ f.turn = t)
  BY <1>1, <1>2, <1>3 DEF Mentions
<1>5. Revokes(r, t) <=> Revokes(q, t) \/ (~Spoken(f) /\ f.turn = t)
  BY <1>1, <1>2, <1>3 DEF Revokes
<1> QED
  BY <1>4, <1>5 DEF r

LEMMA WordsTaken ==
  ASSUME NEW q \in Seq(Frames), q # <<>>
  PROVE  /\ \A t : Mentions(Tail(q), t) => Mentions(q, t)
         /\ \A t : Revokes(Tail(q), t) => Revokes(q, t)
         /\ IF Spoken(Head(q)) THEN Mentions(q, Head(q).turn) ELSE Revokes(q, Head(q).turn)
<1> DEFINE r == Tail(q)
<1>1. /\ Len(q) \in Nat /\ Len(q) > 0 /\ Len(r) = Len(q) - 1
      /\ \A i \in 1..Len(r) : r[i] = q[i + 1]
      /\ Head(q) = q[1]
  BY Taken
<1> HIDE DEF r
<1>2. 1 \in 1..Len(q) /\ \A i \in 1..Len(r) : i + 1 \in 1..Len(q)
  BY <1>1
<1>3. \A t : Mentions(r, t) => Mentions(q, t)
  BY <1>1, <1>2 DEF Mentions
<1>4. \A t : Revokes(r, t) => Revokes(q, t)
  BY <1>1, <1>2 DEF Revokes
<1>5. IF Spoken(Head(q)) THEN Mentions(q, Head(q).turn) ELSE Revokes(q, Head(q).turn)
  BY <1>1, <1>2 DEF Mentions, Revokes
<1> QED
  BY <1>3, <1>4, <1>5 DEF r

LEMMA ObeysPut ==
  ASSUME NEW q \in Seq(Frames), NEW f \in Frames, NEW E, Obeys(q, E),
         Spoken(f) /\ Revokes(q, f.turn) => f.turn \in E
  PROVE  Obeys(Append(q, f), E)
<1> DEFINE r == Append(q, f)
<1>1. /\ Len(q) \in Nat /\ Len(r) = Len(q) + 1 /\ \A i \in 1..Len(q) : r[i] = q[i]
      /\ r[Len(q) + 1] = f
  BY Put
<1> HIDE DEF r
<1>2. ASSUME NEW i \in 1..Len(r), NEW j \in 1..Len(r), i < j, ~Spoken(r[i]), Spoken(r[j])
      PROVE  r[i].turn # r[j].turn \/ r[i].turn \in E
  <2>1. i \in 1..Len(q) /\ r[i] = q[i]
    BY <1>1, <1>2
  <2>2. CASE j \in 1..Len(q)
    BY <1>1, <1>2, <2>1, <2>2 DEF Obeys
  <2>3. CASE j = Len(q) + 1
    BY <1>1, <1>2, <2>1, <2>3 DEF Revokes
  <2> QED
    BY <1>1, <2>2, <2>3
<1>3. Obeys(r, E)
  BY <1>2 DEF Obeys
<1> QED
  BY <1>3 DEF r

LEMMA ObeysTaken ==
  ASSUME NEW q \in Seq(Frames), q # <<>>, NEW E, Obeys(q, E)
  PROVE  /\ Obeys(Tail(q), E)
         /\ ~Spoken(Head(q)) /\ Mentions(Tail(q), Head(q).turn) => Head(q).turn \in E
<1> DEFINE r == Tail(q)
<1>1. /\ Len(q) \in Nat /\ Len(q) > 0 /\ Len(r) = Len(q) - 1
      /\ \A i \in 1..Len(r) : r[i] = q[i + 1]
      /\ Head(q) = q[1]
  BY Taken
<1> HIDE DEF r
<1>2. \A i \in 1..Len(r) : i + 1 \in 1..Len(q) /\ 1 < i + 1
  BY <1>1
<1>3. Obeys(r, E)
  BY <1>1, <1>2 DEF Obeys
<1>4. ~Spoken(Head(q)) /\ Mentions(r, Head(q).turn) => Head(q).turn \in E
  BY <1>1, <1>2 DEF Obeys, Mentions
<1> QED
  BY <1>3, <1>4 DEF r

LEMMA SpeakObedient ==
  ASSUME IInv, Obedient, NEW t \in Turns, Speak(t)
  PROVE  Obedient'
<1>1. /\ stage[t] = "none"
      /\ UNCHANGED <<attached, chunk, marks, files, evicted, confirming, wire, asked, pageVars, cancels>>
  BY DEF Speak
<1>2. UNCHANGED <<active, silenced>>
  BY <1>1 DEF pageVars
<1>3. Quiet' /\ Obeys(wire, evicted)'
  BY <1>1, <1>2 DEF Obedient, Quiet
<1>4. \A u \in Turns : Told(u)' => Told(u)
  BY <1>1, <1>2 DEF Told
<1>5. CASE Marked(t)
  <2>1. stage' = [stage EXCEPT ![t] = "skipped"] /\ cancelling' = cancelling
    BY <1>5 DEF Speak
  <2>2. \A u \in Turns : stage'[u] = "none" => stage[u] = "none"
    BY <2>1 DEF IInv, Tasks
  <2>3. \A u \in Turns : Speaking(u)' => Speaking(u)
    BY <2>1 DEF IInv, Tasks, Speaking, Suspended
  <2>4. ASSUME NEW u \in Turns, Told(u)'
        PROVE  u \in evicted' \/ IF stage'[u] = "none" THEN Marked(u)' ELSE ~Speaking(u)'
    <3>1. CASE u = t
      BY <2>1, <3>1 DEF IInv, Tasks, Speaking, Suspended
    <3>2. CASE u # t
      <4>1. stage'[u] = stage[u]
        BY <2>1, <3>2 DEF IInv, Tasks
      <4>2. Told(u)
        BY <1>4, <2>4
      <4> QED
        BY <1>1, <2>3, <4>1, <4>2 DEF Obedient, Heeded, Marked
    <3> QED
      BY <3>1, <3>2
  <2>5. Unmarked'
    BY <1>1, <2>3 DEF Obedient, Unmarked, Marked
  <2> QED
    BY <1>3, <2>4, <2>5 DEF Obedient, Heeded
<1>6. CASE ~Marked(t)
  <2>1. stage' = [stage EXCEPT ![t] = "ready"] /\ Cancel
    BY <1>6 DEF Speak
  <2>2. \A u \in Turns \ {t} : stage'[u] = stage[u] /\ ~Speaking(u)'
    BY <2>1, CancelAll DEF IInv, Tasks, Speaking, Suspended
  <2>3. Told(t) => t \in evicted
    BY <1>1, <1>6 DEF Obedient, Heeded
  <2>4. Heeded'
    BY <1>1, <1>4, <2>2, <2>3 DEF Obedient, Heeded, Marked
  <2>5. Unmarked'
    BY <1>1, <1>6, <2>2 DEF Unmarked, Marked
  <2> QED
    BY <1>3, <2>4, <2>5 DEF Obedient
<1> QED
  BY <1>5, <1>6

LEMMA SynthesisObedient ==
  ASSUME IInv, Typed, Obedient, NEW t \in Turns, Moves(t), Advances(t)
  PROVE  Obedient'
<1>1. /\ UNCHANGED <<confirming, active, silenced>>
      /\ \/ wire' = wire
         \/ Sends(t) /\ wire' = Append(wire, Upcoming(t))
  BY DEF Advances, pageVars
<1>2. Suspended(t) /\ stage[t] # "none" /\ stage'[t] # "none"
  BY DEF Moves, Suspended
<1>3. \A u \in Turns \ {t} : stage'[u] = stage[u] /\ (Speaking(u)' <=> Speaking(u))
  BY DEF Moves, Speaking, Suspended
<1>4. Speaking(t)' => Speaking(t) /\ marks' = marks
  BY <1>2 DEF Moves, Advances, Speaking
<1>5. wire \in Seq(Frames) /\ evicted \subseteq evicted'
  BY DEF Typed, Wires, Advances
<1>6. Told(t) => t \in evicted \/ ~Speaking(t)
  BY <1>2 DEF Obedient, Heeded
<1>7. ASSUME wire' # wire
      PROVE  /\ Sends(t) /\ wire' = Append(wire, Upcoming(t))
             /\ Upcoming(t) \in Frames /\ Upcoming(t).turn = t /\ Spoken(Upcoming(t))
             /\ Told(t) => t \in evicted
  <2>1. Sends(t) /\ wire' = Append(wire, Upcoming(t)) /\ Speaking(t)
    BY <1>1, <1>2, <1>7 DEF Sends, Speaking
  <2> QED
    BY <1>6, <2>1, UpcomingIs DEF Typed
<1>8. \A u \in Turns : Told(u)' => Told(u)
  <2>1. \A u \in Turns : Revokes(wire, u)' => Revokes(wire, u)
    BY <1>5, <1>7, WordsPut
  <2> QED
    BY <1>1, <2>1 DEF Told
<1>9. Heeded'
  <2>1. ASSUME NEW u \in Turns, Told(u)'
        PROVE  u \in evicted' \/ IF stage'[u] = "none" THEN Marked(u)' ELSE ~Speaking(u)'
    <3>1. Told(u)
      BY <1>8, <2>1
    <3>2. CASE u = t
      BY <1>2, <1>4, <1>5, <1>6, <3>1, <3>2
    <3>3. CASE u # t
      <4>1. Marked(u) => Marked(u)' \/ u \in evicted'
        BY <3>3 DEF Advances
      <4> QED
        BY <1>3, <1>5, <3>1, <3>3, <4>1 DEF Obedient, Heeded
    <3> QED
      BY <3>2, <3>3
  <2> QED
    BY <2>1 DEF Heeded
<1>10. Unmarked'
  <2>1. ToSet(marks') \subseteq ToSet(marks) \cup {t}
    BY DEF Advances
  <2> QED
    BY <1>3, <1>4, <2>1 DEF Obedient, Unmarked, Marked
<1>11. Quiet'
  <2>1. \A u \in silenced \ evicted : Mentions(wire, u)' => Mentions(wire, u)
    <3>1. t \in silenced \ evicted => wire' = wire
      BY <1>7 DEF Told
    <3> QED
      BY <1>5, <1>7, <3>1, WordsPut
  <2> QED
    BY <1>1, <1>5, <2>1 DEF Obedient, Quiet
<1>12. Obeys(wire, evicted)'
  <2>1. Obeys(wire, evicted')
    BY <1>5 DEF Obedient, Obeys
  <2>2. CASE wire' = wire
    BY <2>1, <2>2
  <2>3. CASE wire' # wire
    <3>1. Revokes(wire, t) => t \in evicted'
      BY <1>5, <1>7, <2>3 DEF Told
    <3> QED
      BY <1>5, <1>7, <2>1, <2>3, <3>1, ObeysPut
  <2> QED
    BY <2>2, <2>3
<1> QED
  BY <1>9, <1>10, <1>11, <1>12 DEF Obedient

LEMMA CancelsObedient ==
  ASSUME IInv, Typed, Obedient, Cancels
  PROVE  Obedient'
<1>1. UNCHANGED <<stage, wire, active, silenced>> /\ Cancel
  BY DEF Cancels, pageVars
<1>2. \A u \in Turns : ~Speaking(u)'
  BY <1>1, CancelAll DEF Speaking, Suspended
<1>3. /\ evicted \subseteq evicted'
      /\ \A u \in Turns : confirming' = u => Marked(u)'
      /\ \A u \in Turns : Marked(u) => Marked(u)' \/ u \in evicted'
  <2>1. CASE confirming' = None /\ UNCHANGED <<marks, evicted>>
    BY <2>1, NoTurnAssumption DEF Marked
  <2>2. ASSUME NEW t \in Turns, MarkTurn(t, FALSE), confirming' = t
        PROVE  /\ evicted \subseteq evicted'
               /\ \A u \in Turns : confirming' = u => Marked(u)'
               /\ \A u \in Turns : Marked(u) => Marked(u)' \/ u \in evicted'
    BY <2>2, MarkTurnKeeps DEF Typed, Replies
  <2> QED
    BY <2>1, <2>2 DEF Cancels
<1>4. Heeded'
  <2>1. ASSUME NEW u \in Turns, Told(u)'
        PROVE  u \in evicted' \/ IF stage'[u] = "none" THEN Marked(u)' ELSE ~Speaking(u)'
    <3>1. confirming' = u \/ Told(u)
      BY <1>1, <2>1 DEF Told
    <3> QED
      BY <1>1, <1>2, <1>3, <3>1 DEF Obedient, Heeded
  <2> QED
    BY <2>1 DEF Heeded
<1>5. Unmarked' /\ Quiet' /\ Obeys(wire, evicted)'
  BY <1>1, <1>2, <1>3 DEF Obedient, Unmarked, Quiet, Obeys
<1> QED
  BY <1>4, <1>5 DEF Obedient

LEMMA ConfirmsObedient ==
  ASSUME Typed, Obedient, Confirms
  PROVE  Obedient'
<1> DEFINE f == Frame("tts.cancelled", confirming, 0)
<1>1. /\ f \in Frames /\ f.turn = confirming /\ ~Spoken(f) /\ wire \in Seq(Frames)
      /\ wire' = Append(wire, f)
  BY SentencesAssumption DEF Confirms, Typed, Wires, Frame, Frames, FrameTypes, Spoken
<1>2. UNCHANGED <<stage, cancelling, marks, evicted, active, silenced>> /\ confirming' = None
  BY DEF Confirms, taskVars, pageVars
<1> HIDE DEF f
<1>3. \A u : /\ Mentions(wire', u) <=> Mentions(wire, u)
             /\ Revokes(wire', u) => Revokes(wire, u) \/ confirming = u
  BY <1>1, WordsPut
<1>4. \A u \in Turns : (Told(u)' => Told(u)) /\ (Speaking(u)' <=> Speaking(u))
  BY <1>2, <1>3, NoTurnAssumption DEF Told, Speaking, Suspended
<1>5. Heeded' /\ Unmarked'
  BY <1>2, <1>4 DEF Obedient, Heeded, Unmarked, Marked
<1>6. Quiet'
  BY <1>2, <1>3 DEF Obedient, Quiet
<1>7. Obeys(wire, evicted)'
  BY <1>1, <1>2, ObeysPut DEF Obedient
<1> QED
  BY <1>5, <1>6, <1>7 DEF Obedient

LEMMA ReceivesObedient ==
  ASSUME Typed, Obedient, Receives
  PROVE  Obedient'
<1> DEFINE e == Head(wire)
<1>1. /\ wire \in Seq(Frames) /\ wire # <<>> /\ wire' = Tail(wire) /\ e.turn \in Turns
      /\ UNCHANGED <<stage, cancelling, marks, evicted, confirming>>
  BY Taken DEF Receives, taskVars, Typed, Wires, Frames
<1>2. /\ active' \in {active, None} \/ (Spoken(e) /\ active' = e.turn)
      /\ \/ silenced' = silenced
         \/ ~Spoken(e) /\ silenced' = silenced \cup {e.turn} /\ active' # e.turn
  BY DEF Receives
<1>3. /\ \A u : Mentions(wire', u) => Mentions(wire, u)
      /\ \A u : Revokes(wire', u) => Revokes(wire, u)
      /\ IF Spoken(e) THEN Mentions(wire, e.turn) ELSE Revokes(wire, e.turn)
  BY <1>1, WordsTaken
<1>4. Obeys(wire, evicted)' /\ (~Spoken(e) /\ Mentions(wire', e.turn) => e.turn \in evicted)
  BY <1>1, ObeysTaken DEF Obedient
<1> HIDE DEF e
<1>5. \A u \in Turns : (Told(u)' => Told(u)) /\ (Speaking(u)' <=> Speaking(u))
  BY <1>1, <1>2, <1>3 DEF Told, Speaking, Suspended
<1>6. Heeded' /\ Unmarked'
  BY <1>1, <1>5 DEF Obedient, Heeded, Unmarked, Marked
<1>7. ASSUME NEW u \in silenced' \ evicted' PROVE active' # u /\ ~Mentions(wire', u)
  <2>1. u # None
    BY <1>1, <1>2, <1>7, NoTurnAssumption DEF Typed, Page
  <2>2. CASE silenced' = silenced
    BY <1>1, <1>2, <1>3, <1>7, <2>1, <2>2 DEF Obedient, Quiet
  <2>3. CASE ~Spoken(e) /\ silenced' = silenced \cup {e.turn} /\ active' # e.turn
    <3>1. CASE u = e.turn
      BY <1>1, <1>2, <1>4, <1>7, <2>3, <3>1
    <3>2. CASE u # e.turn
      BY <1>1, <1>2, <1>3, <1>7, <2>1, <2>3, <3>2 DEF Obedient, Quiet
    <3> QED
      BY <3>1, <3>2
  <2> QED
    BY <1>2, <2>2, <2>3
<1>8. Quiet'
  BY <1>7 DEF Quiet
<1> QED
  BY <1>4, <1>6, <1>8 DEF Obedient

LEMMA MindsObedient ==
  ASSUME Typed, Obedient, Minds \/ UNCHANGED vars
  PROVE  Obedient'
<1>1. /\ UNCHANGED <<stage, cancelling, marks, evicted, confirming, wire, silenced>>
      /\ active' \in {active, None}
  BY DEF Minds, vars, taskVars, pageVars
<1>2. \A u \in Turns : (Told(u)' <=> Told(u)) /\ (Speaking(u)' <=> Speaking(u))
  BY <1>1 DEF Told, Speaking, Suspended
<1>3. Heeded' /\ Unmarked' /\ Obeys(wire, evicted)'
  BY <1>1, <1>2 DEF Obedient, Heeded, Unmarked, Marked
<1>4. Quiet'
  BY <1>1, NoTurnAssumption DEF Obedient, Quiet, Typed, Page
<1> QED
  BY <1>3, <1>4 DEF Obedient

LEMMA NextObedient ==
  ASSUME IInv, Typed, Obedient, [Next]_vars
  PROVE  Obedient'
<1>1. Steps
  BY NextTyped
<1> QED
  BY <1>1, SpeakObedient, SynthesisObedient, CancelsObedient, ConfirmsObedient,
     ReceivesObedient, MindsObedient DEF Steps

LEMMA InitObedient == Init => Obedient
<1> SUFFICES ASSUME Init PROVE Obedient
  OBVIOUS
<1>1. Len(wire) = 0 /\ 1..0 = {}
  BY EmptySeq DEF Init
<1> QED
  BY <1>1, NoTurnAssumption
     DEF Init, Obedient, Heeded, Told, Revokes, Unmarked, Speaking, Suspended, Quiet, Obeys

-----------------------------------------------------------------------------
(* The clips *)

(* The frames fit the clip that arrives, what the task sends next fits     *)
(* them, and nothing was heard of a reply before its first sentence.       *)
Flowing ==
  /\ Ordered(wire, Arriving)
  /\ \A t \in Turns : Sends(t) => Fits(wire, Upcoming(t), Arriving)
  /\ \A t \in Turns : stage[t] \in {"none", "ready"} => ~Holds(incoming, t) /\ ~Mentions(wire, t)

Completed == {t \in Turns : stage[t] = "completed"}
Past == {t \in Completed : ~Holds(incoming, t) /\ ~Mentions(wire, t)}

(* tts.complete is the last frame of a turn. *)
Closed(q, over) == \A i \in 1..Len(q) : q[i].type = "tts.complete" =>
  /\ q[i].turn \in over
  /\ \A j \in 1..Len(q) : i < j /\ Spoken(q[j]) => q[j].turn # q[i].turn

(* The chain has whole clips, and marks of completion when all is past. *)
Whole(c) == c # None /\ c.kind = "clip" => c.bytes = {c.turn}
Kept(s, past) == \A i \in 1..Len(s) :
  Whole(s[i]) /\ (s[i].kind = "completion" => s[i].turn \in past)

Audible ==
  /\ Flowing
  /\ Closed(wire, Completed)
  /\ Kept(chain, Past) /\ Whole(playing)
  /\ Agree(incoming, active)

LEMMA ClosedPut ==
  ASSUME NEW q \in Seq(Frames), NEW f \in Frames, NEW over, NEW more,
         Closed(q, over), over \subseteq more,
         Spoken(f) => f.turn \notin over, f.type = "tts.complete" => f.turn \in more
  PROVE  Closed(Append(q, f), more)
<1> DEFINE r == Append(q, f)
<1>1. /\ Len(q) \in Nat /\ Len(r) = Len(q) + 1 /\ \A i \in 1..Len(q) : r[i] = q[i]
      /\ r[Len(q) + 1] = f
  BY Put
<1> HIDE DEF r
<1>2. ASSUME NEW i \in 1..Len(r), r[i].type = "tts.complete"
      PROVE  /\ r[i].turn \in more
             /\ \A j \in 1..Len(r) : i < j /\ Spoken(r[j]) => r[j].turn # r[i].turn
  <2>1. CASE i \in 1..Len(q)
    <3>1. /\ r[i] = q[i] /\ q[i].turn \in over
          /\ \A j \in 1..Len(q) : i < j /\ Spoken(q[j]) => q[j].turn # q[i].turn
      BY <1>1, <1>2, <2>1 DEF Closed
    <3>2. \A j \in 1..Len(r) : (j \in 1..Len(q) /\ r[j] = q[j]) \/ r[j] = f
      BY <1>1
    <3> QED
      BY <3>1, <3>2
  <2>2. CASE i = Len(q) + 1
    BY <1>1, <1>2, <2>2
  <2> QED
    BY <1>1, <2>1, <2>2
<1>3. Closed(r, more)
  BY <1>2 DEF Closed
<1> QED
  BY <1>3 DEF r

LEMMA ClosedTaken ==
  ASSUME NEW q \in Seq(Frames), q # <<>>, NEW over, Closed(q, over)
  PROVE  /\ Closed(Tail(q), over)
         /\ Head(q).type = "tts.complete" =>
              Head(q).turn \in over /\ ~Mentions(Tail(q), Head(q).turn)
<1> DEFINE r == Tail(q)
<1>1. /\ Len(q) \in Nat /\ Len(q) > 0 /\ Len(r) = Len(q) - 1
      /\ \A i \in 1..Len(r) : r[i] = q[i + 1]
      /\ Head(q) = q[1]
  BY Taken
<1> HIDE DEF r
<1>2. 1 \in 1..Len(q) /\ \A i \in 1..Len(r) : i + 1 \in 1..Len(q) /\ 1 < i + 1
  BY <1>1
<1>3. ASSUME NEW i \in 1..Len(r), r[i].type = "tts.complete"
      PROVE  /\ r[i].turn \in over
             /\ \A j \in 1..Len(r) : i < j /\ Spoken(r[j]) => r[j].turn # r[i].turn
  <2>1. /\ q[i + 1].turn \in over
        /\ \A j \in 1..Len(q) : i + 1 < j /\ Spoken(q[j]) => q[j].turn # q[i + 1].turn
    BY <1>1, <1>2, <1>3 DEF Closed
  <2>2. ASSUME NEW j \in 1..Len(r), i < j, Spoken(r[j]) PROVE r[j].turn # r[i].turn
    <3>1. j + 1 \in 1..Len(q) /\ i + 1 < j + 1 /\ r[j] = q[j + 1] /\ r[i] = q[i + 1]
      BY <1>1, <2>2
    <3> QED
      BY <2>1, <2>2, <3>1
  <2> QED
    BY <1>1, <2>1, <2>2
<1>4. Head(q).type = "tts.complete" => Head(q).turn \in over /\ ~Mentions(r, Head(q).turn)
  BY <1>1, <1>2 DEF Closed, Mentions
<1>5. Closed(r, over)
  BY <1>3 DEF Closed
<1> QED
  BY <1>4, <1>5 DEF r

LEMMA ClosedMore ==
  ASSUME NEW q, NEW over, NEW more, Closed(q, over), over \subseteq more
  PROVE  Closed(q, more)
BY DEF Closed

LEMMA HeadReady ==
  ASSUME NEW q \in Seq(Frames), q # <<>>, NEW c, Ordered(q, c), Spoken(Head(q))
  PROVE  Ready(Head(q), c)
<1>1. Len(q) \in Nat /\ 1 \in 1..Len(q) /\ Head(q) = q[1]
  BY Taken
<1>2. Mute(q, 0, 1)
  BY <1>1 DEF Mute
<1> QED
  BY <1>1, <1>2 DEF Ordered

LEMMA KeptPut ==
  ASSUME NEW s \in Seq(Clips \cup Completions), NEW item \in Clips \cup Completions, NEW past,
         Kept(s, past), Whole(item), item.kind = "completion" => item.turn \in past
  PROVE  Kept(Append(s, item), past)
<1> DEFINE r == Append(s, item)
<1>1. /\ Len(s) \in Nat /\ Len(r) = Len(s) + 1 /\ \A i \in 1..Len(s) : r[i] = s[i]
      /\ r[Len(s) + 1] = item
  BY AppendProperties, LenProperties
<1> HIDE DEF r
<1>2. \A i \in 1..Len(r) : (i \in 1..Len(s) /\ r[i] = s[i]) \/ r[i] = item
  BY <1>1
<1>3. Kept(r, past)
  BY <1>2 DEF Kept
<1> QED
  BY <1>3 DEF r

LEMMA KeptTaken ==
  ASSUME NEW s \in Seq(Clips \cup Completions), s # <<>>, NEW past, Kept(s, past)
  PROVE  /\ Kept(Tail(s), past)
         /\ Whole(Head(s)) /\ (Head(s).kind = "completion" => Head(s).turn \in past)
<1> DEFINE r == Tail(s)
<1>1. /\ Len(s) \in Nat /\ Len(s) > 0 /\ Len(r) = Len(s) - 1
      /\ \A i \in 1..Len(r) : r[i] = s[i + 1]
      /\ Head(s) = s[1]
  BY HeadTailProperties, LenProperties, EmptySeq
<1> HIDE DEF r
<1>2. 1 \in 1..Len(s) /\ \A i \in 1..Len(r) : i + 1 \in 1..Len(s)
  BY <1>1
<1>3. Kept(r, past)
  BY <1>1, <1>2 DEF Kept
<1>4. Whole(Head(s)) /\ (Head(s).kind = "completion" => Head(s).turn \in past)
  BY <1>1, <1>2 DEF Kept
<1> QED
  BY <1>3, <1>4 DEF r

LEMMA KeptMore ==
  ASSUME NEW s, NEW past, NEW more, Kept(s, past), past \subseteq more
  PROVE  Kept(s, more)
BY DEF Kept

LEMMA KeptNone ==
  ASSUME NEW past
  PROVE  Kept(<<>>, past) /\ Closed(<<>>, past) /\ Whole(None)
<1>1. Len(<<>>) = 0 /\ 1..0 = {}
  BY EmptySeq
<1> QED
  BY <1>1 DEF Kept, Closed, Whole

LEMMA SpeakAudible ==
  ASSUME IInv, Typed, Audible, NEW t \in Turns, Speak(t)
  PROVE  Audible'
<1>1. /\ stage[t] = "none"
      /\ UNCHANGED <<chunk, wire, turn, active, incoming, chain, playing>>
      /\ stage' = [stage EXCEPT ![t] = "skipped"] \/ stage' = [stage EXCEPT ![t] = "ready"]
      /\ cancelling \subseteq cancelling' /\ Arriving' = Arriving
  BY DEF Speak, pageVars, turnVars, soundVars, Cancel, Arriving
<1>2. /\ \A u \in Turns \ {t} : stage'[u] = stage[u]
      /\ stage'[t] \in {"skipped", "ready"}
  BY <1>1 DEF IInv, Tasks
<1>3. \A u \in Turns : Sends(u)' => Sends(u) /\ Upcoming(u)' = Upcoming(u)
  BY <1>1, <1>2 DEF Sends, Upcoming
<1>4. Flowing'
  BY <1>1, <1>2, <1>3 DEF Audible, Flowing
<1>5. Completed' = Completed /\ Past' = Past
  BY <1>1, <1>2 DEF Completed, Past
<1> QED
  BY <1>1, <1>4, <1>5 DEF Audible

LEMMA SynthesisAudible ==
  ASSUME IInv, Typed, Audible, NEW t \in Turns, Moves(t), Advances(t)
  PROVE  Audible'
<1>1. /\ UNCHANGED <<active, incoming, chain, playing>> /\ Arriving' = Arriving
      /\ wire \in Seq(Frames)
  BY DEF Advances, Arriving, pageVars, turnVars, soundVars, Typed, Wires
<1>2. /\ Suspended(t) /\ stage'[t] \notin {"none", "ready"} /\ stage[t] # "completed"
      /\ \A u \in Turns \ {t} : stage'[u] = stage[u] /\ chunk'[u] = chunk[u]
      /\ cancelling' \in {cancelling, cancelling \ {t}}
  BY DEF Moves, Advances, Suspended
<1>3. \A u \in Turns \ {t} : (Sends(u)' <=> Sends(u)) /\ Upcoming(u)' = Upcoming(u)
  BY <1>2 DEF Sends, Upcoming
<1>4. Completed \subseteq Completed' /\ t \notin Completed
  BY <1>2 DEF Completed
<1>5. CASE wire' = wire
  <2>1. ASSUME NEW u \in Turns, Sends(u)' PROVE Fits(wire, Upcoming(u)', Arriving)
    <3>1. CASE u = t
      <4>1. \/ stage[t] = "ready" /\ Opens(Upcoming(t)')
            \/ wire' = Append(wire, Upcoming(t)) /\ Sends(t)
        BY <2>1, <3>1 DEF Advances
      <4>2. ~(wire' = Append(wire, Upcoming(t)) /\ Sends(t))
        BY <1>1, <1>5, UpcomingIs, Put DEF Typed
      <4>3. /\ Upcoming(t)' \in Frames /\ Upcoming(t)'.turn = t
            /\ ~Holds(Arriving, t) /\ ~Mentions(wire, t)
        BY <2>1, <3>1, <4>1, <4>2, ArrivingIs DEF Advances, Audible, Flowing
      <4> QED
        BY <1>1, <3>1, <4>1, <4>2, <4>3, FitsFirst
    <3>2. CASE u # t
      BY <1>3, <2>1, <3>2 DEF Audible, Flowing
    <3> QED
      BY <3>1, <3>2
  <2>2. Flowing'
    BY <1>1, <1>2, <1>5, <2>1 DEF Audible, Flowing
  <2>3. Past \subseteq Past'
    BY <1>1, <1>4, <1>5 DEF Past
  <2> QED
    BY <1>1, <1>4, <1>5, <2>2, <2>3, ClosedMore, KeptMore DEF Audible
<1>6. CASE wire' # wire
  <2> DEFINE e == Upcoming(t)
  <2>1. Sends(t) /\ wire' = Append(wire, e)
    BY <1>6 DEF Advances
  <2>2. /\ e \in Frames /\ e.turn = t /\ Spoken(e)
        /\ Fits(wire, e, Arriving)
    BY <2>1, UpcomingIs DEF Typed, Audible, Flowing
  <2>3. \A u \in Turns \ {t} : ~Sends(u)
    BY <2>1 DEF IInv, OneTask, Sends, Suspended
  <2>4. Ordered(wire, Arriving)'
    BY <1>1, <2>1, <2>2, OrderedPut DEF Audible, Flowing
  <2>5. ASSUME NEW u \in Turns, Sends(u)' PROVE Fits(wire', Upcoming(u)', Arriving)
    <3>1. u = t
      BY <1>3, <2>3, <2>5
    <3>2. Links(e, Upcoming(t)') /\ ~Opens(Upcoming(t)') /\ Upcoming(t)' \in Frames
      BY <1>6, <2>5, <3>1 DEF Advances
    <3> QED
      BY <1>1, <2>1, <2>2, <3>1, <3>2, FitsAfter
  <2>6. e.type = "tts.complete" => t \in Completed'
    BY <1>6 DEF Advances, Completed
  <2> HIDE DEF e
  <2>7. \A u : u # t => (Mentions(wire', u) <=> Mentions(wire, u))
    BY <1>1, <2>1, <2>2, WordsPut
  <2>8. Flowing'
    BY <1>1, <1>2, <2>4, <2>5, <2>7 DEF Audible, Flowing
  <2>9. Past \subseteq Past'
    BY <1>1, <1>4, <2>7 DEF Past
  <2>10. Closed(wire, Completed)'
    BY <1>1, <1>4, <2>1, <2>2, <2>6, ClosedPut DEF Audible
  <2> QED
    BY <1>1, <2>8, <2>9, <2>10, KeptMore DEF Audible
<1> QED
  BY <1>5, <1>6

LEMMA CancelsAudible ==
  ASSUME IInv, Typed, Audible, Cancels
  PROVE  Audible'
<1>1. UNCHANGED <<stage, wire, active, incoming, chain, playing>> /\ Cancel /\ Arriving' = Arriving
  BY DEF Cancels, Arriving, pageVars, turnVars, soundVars
<1>2. \A u \in Turns : ~Sends(u)'
  BY <1>1, CancelAll DEF Sends, Suspended
<1>3. Completed' = Completed /\ Past' = Past
  BY <1>1 DEF Completed, Past
<1> QED
  BY <1>1, <1>2, <1>3 DEF Audible, Flowing

LEMMA ConfirmsAudible ==
  ASSUME IInv, Typed, Audible, Confirms
  PROVE  Audible'
<1> DEFINE f == Frame("tts.cancelled", confirming, 0)
<1>1. /\ f \in Frames /\ ~Spoken(f) /\ f.type # "tts.complete" /\ wire \in Seq(Frames)
      /\ wire' = Append(wire, f)
  BY SentencesAssumption DEF Confirms, Typed, Wires, Frame, Frames, FrameTypes, Spoken
<1>2. UNCHANGED <<stage, chunk, cancelling, active, incoming, chain, playing>> /\ Arriving' = Arriving
  BY DEF Confirms, Arriving, taskVars, pageVars, turnVars, soundVars
<1> HIDE DEF f
<1>3. \A u : Mentions(wire', u) <=> Mentions(wire, u)
  BY <1>1, WordsPut
<1>4. \A u \in Turns : (Sends(u)' <=> Sends(u)) /\ Upcoming(u)' = Upcoming(u)
  BY <1>2 DEF Sends, Upcoming
<1>5. ASSUME NEW u \in Turns, Sends(u) PROVE Fits(wire', Upcoming(u), Arriving)
  BY <1>1, <1>5, UpcomingIs, FitsAfter DEF Typed, Audible, Flowing
<1>6. Ordered(wire', Arriving)
  BY <1>1, OrderedPut DEF Audible, Flowing, Fits
<1>7. Flowing'
  BY <1>2, <1>3, <1>4, <1>5, <1>6 DEF Audible, Flowing
<1>8. Completed' = Completed /\ Past' = Past
  BY <1>2, <1>3 DEF Completed, Past
<1>9. Closed(wire', Completed)
  BY <1>1, ClosedPut DEF Audible
<1> QED
  BY <1>2, <1>7, <1>8, <1>9 DEF Audible

LEMMA ReceivesAudible ==
  ASSUME IInv, Typed, Audible, Receives, Page'
  PROVE  Audible'
<1> DEFINE e == Head(wire)
<1>1. /\ wire \in Seq(Frames) /\ wire # <<>> /\ wire' = Tail(wire) /\ e \in Frames
      /\ UNCHANGED <<stage, chunk, cancelling>>
      /\ Grasps(e, Arriving, Arriving')
      /\ playing' \in {playing, None}
      /\ Agree(incoming', active')
  BY Taken DEF Receives, taskVars, Typed, Wires, Audible
<1>2. /\ \A u : Mentions(wire', u) => Mentions(wire, u)
      /\ Spoken(e) => Mentions(wire, e.turn)
  BY <1>1, WordsTaken
<1>3. Ordered(wire', Arriving')
  BY <1>1, OrderedTaken DEF Audible, Flowing
<1>4. \A u \in Turns : (Sends(u)' <=> Sends(u)) /\ Upcoming(u)' = Upcoming(u)
  BY <1>1 DEF Sends, Upcoming
<1>5. ASSUME NEW u \in Turns, Sends(u) PROVE Fits(wire', Upcoming(u), Arriving')
  BY <1>1, <1>5, UpcomingIs, FitsTaken DEF Typed, Audible, Flowing
<1>6. \A u : ~Holds(incoming, u) /\ ~Mentions(wire, u) => ~Holds(incoming', u) /\ ~Mentions(wire', u)
  <2>1. \A u : Holds(incoming', u) => Holds(incoming, u) \/ (e.type = "tts.start" /\ e.turn = u)
    BY DEF Receives
  <2> QED
    BY <1>2, <2>1 DEF Spoken
<1>7. Flowing'
  BY <1>1, <1>3, <1>4, <1>5, <1>6 DEF Audible, Flowing
<1>8. Completed' = Completed
  BY <1>1 DEF Completed
<1>9. Past \subseteq Past'
  BY <1>6, <1>8 DEF Past
<1>10. Closed(wire', Completed)
  BY <1>1, ClosedTaken DEF Audible
<1>11. Whole(playing')
  BY <1>1 DEF Audible, Whole
<1>12. Kept(chain', Past')
  <2>1. chain \in Seq(Clips \cup Completions) /\ Kept(chain, Past')
    BY <1>9, KeptMore DEF Typed, Page, Audible
  <2>2. CASE chain' \in {chain, <<>>}
    BY <2>1, <2>2, KeptNone
  <2>3. CASE /\ chain' = Append(chain, Arriving) /\ Arriving \in Clips
             /\ Ready(e, Arriving) => Arriving.bytes = {Arriving.turn}
             /\ e.type = "tts.end"
    <3>1. Ready(e, Arriving)
      BY <1>1, <2>3, HeadReady DEF Audible, Flowing, Spoken
    <3>2. Whole(Arriving) /\ Arriving.kind # "completion"
      BY <2>3, <3>1 DEF Whole, Clips
    <3> QED
      BY <2>1, <2>3, <3>2, KeptPut
  <2>4. CASE chain' = Append(chain, Completion(e.turn)) /\ e.type = "tts.complete" /\ OfLatest(e)
    <3>1. e.turn \in Completed /\ ~Mentions(wire', e.turn)
      BY <1>1, <2>4, ClosedTaken DEF Audible
    <3>2. ~Holds(incoming, e.turn)
      <4>1. Ready(e, Arriving)
        BY <1>1, <2>4, HeadReady DEF Audible, Flowing, Spoken
      <4> QED
        BY <2>4, <4>1, ArrivingIs DEF Ready, OfLatest
    <3>3. ~Holds(incoming', e.turn)
      BY <2>4, <3>2 DEF Receives
    <3>4. e.turn \in Past'
      BY <1>6, <1>8, <2>4, <3>1, <3>2, <3>3 DEF Past
    <3>5. e.turn \in Turns
      BY <1>1 DEF Frames
    <3> DEFINE item == Completion(e.turn)
    <3>6. item \in Clips \cup Completions /\ item.kind = "completion" /\ item.turn = e.turn
      BY <3>5 DEF Completion, Completions
    <3> HIDE DEF item
    <3>7. Kept(Append(chain, item), Past')
      BY <2>1, <3>4, <3>6, KeptPut DEF Whole
    <3> QED
      BY <2>4, <3>7 DEF item
  <2> QED
    BY <2>2, <2>3, <2>4 DEF Receives
<1> QED
  BY <1>1, <1>7, <1>8, <1>10, <1>11, <1>12 DEF Audible

LEMMA MindsAudible ==
  ASSUME IInv, Begun, Typed, Audible, Minds \/ UNCHANGED vars
  PROVE  Audible'
<1>1. CASE UNCHANGED vars
  <2>1. UNCHANGED <<stage, chunk, cancelling, wire, active, incoming, chain, playing>> /\ Arriving' = Arriving
    BY <1>1 DEF vars, Arriving, taskVars, pageVars, turnVars, soundVars
  <2> QED
    BY <2>1 DEF Audible, Flowing, Sends, Upcoming, Completed, Past
<1>2. CASE Minds
  <2>1. /\ UNCHANGED <<stage, chunk, cancelling, wire>>
        /\ incoming' \in {incoming, None} /\ active' \in {active, None}
    BY <1>2 DEF Minds, taskVars
  <2>2. \A u : Holds(incoming', u) => Holds(incoming, u)
    BY <2>1 DEF Holds
  <2>3. Arriving' \in {Arriving, None}
    <3>1. CASE turn' = turn
      BY <2>1, <3>1 DEF Arriving
    <3>2. CASE turn' \in Turns \ begun
      <4>1. ~Holds(incoming, turn') /\ turn' # None
        BY <3>2, NoTurnAssumption DEF Begun, Audible, Flowing
      <4> QED
        BY <2>1, <4>1 DEF Arriving, Holds
    <3> QED
      BY <1>2, <3>1, <3>2 DEF Minds
  <2>4. \A u : Holds(Arriving', u) => Holds(Arriving, u)
    BY <2>3 DEF Holds
  <2>5. \A f : Ready(f, Arriving) => Ready(f, Arriving')
    BY <2>3 DEF Ready, Holds
  <2>6. Ordered(wire, Arriving')
    BY <2>4, <2>5 DEF Audible, Flowing, Ordered
  <2>7. \A u \in Turns : (Sends(u)' <=> Sends(u)) /\ Upcoming(u)' = Upcoming(u)
    BY <2>1 DEF Sends, Upcoming
  <2>8. \A f : Fits(wire, f, Arriving) => Fits(wire, f, Arriving')
    BY <2>4, <2>5 DEF Fits
  <2>9. Flowing'
    BY <2>1, <2>2, <2>6, <2>7, <2>8 DEF Audible, Flowing
  <2>10. Completed' = Completed /\ Past \subseteq Past'
    BY <2>1, <2>2 DEF Completed, Past
  <2>11. chain \in Seq(Clips \cup Completions) /\ Kept(chain, Past) /\ Kept(chain, Past')
    BY <2>10, KeptMore DEF Typed, Page, Audible
  <2>12. Kept(chain', Past') /\ Whole(playing')
    <3>1. CASE chain' \in {chain, <<>>} /\ playing' \in {playing, None}
      BY <2>11, <3>1, KeptNone DEF Audible
    <3>2. CASE /\ chain # <<>> /\ chain' = Tail(chain)
               /\ playing' = None \/ playing' = Head(chain)
      BY <2>11, <3>2, KeptTaken, KeptNone
    <3> QED
      BY <1>2, <3>1, <3>2 DEF Minds
  <2>13. Agree(incoming', active')
    <3>1. CASE active' = active \/ incoming' = None
      BY <2>1, <3>1 DEF Audible, Agree
    <3>2. CASE active' # active /\ incoming' # None
      <4>1. chain # <<>> /\ Head(chain).kind = "completion" /\ Head(chain).turn = active
        BY <1>2, <3>2 DEF Minds
      <4>2. ~Holds(incoming, active)
        BY <2>11, <4>1, KeptTaken DEF Past
      <4> QED
        BY <2>1, <3>2, <4>2 DEF Audible, Agree, Holds
    <3> QED
      BY <3>1, <3>2
  <2>14. Closed(wire, Completed)'
    BY <2>1, <2>10 DEF Audible
  <2> QED
    BY <2>9, <2>12, <2>13, <2>14 DEF Audible
<1> QED
  BY <1>1, <1>2

LEMMA NextAudible ==
  ASSUME IInv, Begun, Typed, Audible, [Next]_vars
  PROVE  Audible'
<1>1. Steps /\ Page'
  BY NextTyped DEF Typed
<1> QED
  BY <1>1, SpeakAudible, SynthesisAudible, CancelsAudible, ConfirmsAudible,
     ReceivesAudible, MindsAudible DEF Steps

LEMMA InitAudible == Init => Audible
<1> SUFFICES ASSUME Init PROVE Audible
  OBVIOUS
<1>1. wire = <<>> /\ chain = <<>> /\ playing = None /\ incoming = None /\ Arriving = None
  BY DEF Init, Arriving
<1>2. Len(wire) = 0 /\ 1..0 = {}
  BY <1>1, EmptySeq
<1>3. Ordered(wire, Arriving)
  BY <1>2 DEF Ordered
<1>4. \A t \in Turns : ~Sends(t) /\ ~Holds(incoming, t) /\ ~Mentions(wire, t)
  BY <1>1, <1>2 DEF Init, Sends, Holds, Mentions
<1>5. Flowing
  BY <1>3, <1>4 DEF Flowing
<1> QED
  BY <1>1, <1>5, KeptNone DEF Audible, Agree

-----------------------------------------------------------------------------
(* Theorems *)

(* The tasks of TtsSession, their cancellation and the files of            *)
(* OwnedAudioStore fit together.                                           *)
THEOREM Orderly == Spec => []IInv
BY InitIInv, NextIInv, PTL DEF Spec

(* Only a turn the user began gets a spoken reply. *)
THEOREM RepliesBegun == Spec => []Begun
BY Orderly, InitBegun, NextBegun, PTL DEF Spec

(* The audio file of a reply is removed when its task ends, however it     *)
(* ends: the finally of _synthesize_and_send runs whatever interrupts it.  *)
THEOREM FilesRemoved == Spec => []FilesAreRemoved
<1>1. IInv => FilesAreRemoved
  BY DEF IInv, Filed, FilesAreRemoved, Suspended
<1> QED
  BY Orderly, <1>1, PTL

(* No two tasks speak, unless one has been told to stop and does nothing   *)
(* more (TtsSession.start cancels before it creates a task).               *)
THEOREM OneSynthesis == Spec => []OneTask
<1>1. IInv => OneTask
  BY DEF IInv
<1> QED
  BY Orderly, <1>1, PTL

(* The frames, marks, clips and counters have their types, and a clip that *)
(* arrives is of the turn the page plays: the page lets go of a turn only  *)
(* when nothing more of it comes.                                          *)
THEOREM SpeechTyped == Spec => []TypeOK
<1>1. IInv /\ Typed /\ Audible => TypeOK
  <2> SUFFICES ASSUME IInv, Typed, Audible PROVE TypeOK
    OBVIOUS
  <2>1. files \subseteq Turns
    BY DEF IInv, Filed
  <2>2. ToSet(marks) \subseteq Turns /\ ToSet(asked) \subseteq Turns
    BY Elements DEF Typed, Replies, Wires
  <2> QED
    BY <2>1, <2>2 DEF TypeOK, IInv, Tasks, Typed, Replies, Wires, Page, Stages, Audible, Agree
<1>2. IInv /\ Begun /\ Typed /\ Audible /\ [Next]_vars => (Typed /\ Audible)'
  BY NextTyped, NextAudible
<1> QED
  BY Orderly, RepliesBegun, InitTyped, InitAudible, <1>1, <1>2, PTL DEF Spec

(* What cancel() and the page have heard of a cancelled turn, and what the *)
(* tasks and the wire still have of it, agree.                             *)
THEOREM Obeyed == Spec => [](IInv /\ Typed /\ Obedient)
<1>1. IInv /\ Typed /\ Obedient /\ [Next]_vars => (Typed /\ Obedient)'
  BY NextTyped, NextObedient
<1> QED
  BY Orderly, InitTyped, InitObedient, <1>1, PTL DEF Spec

(* The one task that speaks is the latest, and its turn is not marked: the *)
(* checks of is_cancelled between the frames find nothing.                 *)
THEOREM OneSpeaks == Spec => []OneSpeaker
<1>1. IInv /\ Typed /\ Obedient => OneSpeaker
  BY DEF IInv, OneTask, Obedient, Unmarked, Speaking, OneSpeaker
<1> QED
  BY Obeyed, <1>1, PTL

(* No frame of a turn follows its tts.cancelled, unless its mark was       *)
(* pushed out before its reply began.                                      *)
THEOREM CancelledIsLast == Spec => []NothingAfterCancelled
<1>1. IInv /\ Typed /\ Obedient => NothingAfterCancelled
  <2> SUFFICES ASSUME Obeys(wire, evicted) PROVE NothingAfterCancelled
    BY DEF Obedient
  <2> QED
    BY DEF Obeys, Spoken, NothingAfterCancelled
<1> QED
  BY Obeyed, <1>1, PTL

(* No clip of the chain starts for a turn after the page has taken its     *)
(* tts.cancelled.                                                          *)
THEOREM SilentOnceCancelled == Spec => StaysSilent
<1>1. IInv /\ Typed /\ Obedient /\ [Next]_vars =>
        [playing' # playing /\ playing' # None => playing'.turn \notin silenced \ evicted]_vars
  <2> SUFFICES ASSUME IInv, Typed, Obedient, [Next]_vars,
                      playing' # playing, playing' # None
               PROVE  playing'.turn \notin silenced \ evicted
    OBVIOUS
  <2>1. Minds
    <3>1. Steps
      BY NextTyped
    <3>2. ASSUME NEW t \in Turns, Speak(t) PROVE playing' = playing
      BY <3>2 DEF Speak, pageVars, soundVars
    <3>3. ASSUME NEW t \in Turns, Advances(t) PROVE playing' = playing
      BY <3>3 DEF Advances, pageVars, turnVars, soundVars
    <3>4. Cancels \/ Confirms \/ UNCHANGED vars => playing' = playing
      BY DEF Cancels, Confirms, vars, pageVars, soundVars
    <3>5. ~Receives
      BY DEF Receives
    <3> QED
      BY <3>1, <3>2, <3>3, <3>4, <3>5 DEF Steps
  <2>2. active = playing'.turn
    BY <2>1 DEF Minds
  <2> QED
    BY <2>2 DEF Obedient, Quiet
<1> QED
  BY Obeyed, <1>1, PTL DEF Spec, StaysSilent

(* A clip that is queued or played has the audio of its own turn and of no *)
(* other, whatever was replaced, cancelled or not taken meanwhile.         *)
THEOREM WholeClips == Spec => []ClipsAreWhole
<1>1. Typed /\ Audible => ClipsAreWhole
  <2> SUFFICES ASSUME Typed, Audible PROVE ClipsAreWhole
    OBVIOUS
  <2>1. \A c \in ToSet(chain) : \E i \in 1..Len(chain) : chain[i] = c
    BY Elements DEF Typed, Page
  <2> QED
    BY <2>1 DEF ClipsAreWhole, Audible, Kept, Whole
<1>2. IInv /\ Begun /\ Typed /\ Audible /\ [Next]_vars => (Typed /\ Audible)'
  BY NextTyped, NextAudible
<1> QED
  BY Orderly, RepliesBegun, InitTyped, InitAudible, <1>1, <1>2, PTL DEF Spec
=============================================================================
