--------------------------- MODULE SocketAuthProofs ---------------------------
(***************************************************************************)
(* Theorems about the authentication of a voice socket, for any allowances *)
(* and expiries and any course of refreshes.                               *)
(***************************************************************************)
EXTENDS SocketAuth, TLAPS

(* The watchdog never sleeps beyond the moment it has to close a socket    *)
(* whose expiry is the observed one.                                       *)
SleepsInTime == wake <= now \/ wake <= observed + Skew

(* Once it has warned it sleeps at least until the token it warned of is   *)
(* no longer good.                                                         *)
SleepsEnough == phase = "close" => warned = observed /\ observed + Skew <= wake

(* TypeOK without its Boolean-valued variables. *)
Typed ==
  /\ now \in 0 .. MaxTime
  /\ {expires, observed} \subseteq Expiries
  /\ phase \in {"notice", "close"}
  /\ wake \in Nat
  /\ phase = "close" => warned = observed
  /\ warned \in Nat
  /\ inbox \in Seq(Refreshes) /\ Len(inbox) <= MaxInbox
  /\ closed \in {"nobody", "watchdog", "refused", "page"}

IInv ==
  /\ TypeOK
  /\ SleepsInTime
  /\ SleepsEnough
  /\ ClosedAfterWarning

(* The sleeps of the watchdog end at natural numbers. *)
LEMMA LatestFacts ==
  ASSUME NEW a \in Nat, NEW b \in Int
  PROVE  /\ Latest(a, b) \in Nat
         /\ Latest(a, b) >= a /\ Latest(a, b) >= b
         /\ Latest(a, b) = a \/ Latest(a, b) = b
BY DEF Latest

LEMMA Numbers ==
  TypeOK => /\ {now, wake, expires, observed, warned} \subseteq Nat
            /\ phase \in {"notice", "close"}
<1> SUFFICES ASSUME TypeOK
             PROVE  /\ {now, wake, expires, observed, warned} \subseteq Nat
                    /\ phase \in {"notice", "close"}
  OBVIOUS
<1>1. Typed
  BY DEF TypeOK, Typed
<1>2. expires \in Nat /\ observed \in Nat
  BY <1>1, ExpiriesAssumption DEF Typed
<1>3. now \in Nat
  BY <1>1, TimeAssumption DEF Typed
<1> QED
  BY <1>1, <1>2, <1>3 DEF Typed

LEMMA InitIInv == Init => IInv
<1> SUFFICES ASSUME Init PROVE IInv
  OBVIOUS
<1> USE AllowancesAssumption, ExpiriesAssumption, TimeAssumption
<1>1. expires \in Nat /\ observed = expires /\ now = 0 /\ expires - Notice \in Int
  BY DEF Init
<1>2. wake \in Nat /\ (wake = 0 \/ wake = expires - Notice)
  BY <1>1, LatestFacts DEF Init
<1>3. TypeOK
  <2>1. Typed
    BY <1>1, <1>2 DEF Init, Typed
  <2>2. busy \in BOOLEAN
    BY DEF Init
  <2> QED
    BY <2>1, <2>2 DEF Typed, TypeOK
<1>4. SleepsInTime /\ SleepsEnough /\ ClosedAfterWarning
  BY <1>1, <1>2 DEF Init, SleepsInTime, SleepsEnough, ClosedAfterWarning
<1> QED
  BY <1>3, <1>4 DEF IInv

(* Looking at the expiry again keeps the invariant, whatever it is now.    *)
LEMMA ObserveStep ==
  ASSUME IInv, Observe, UNCHANGED <<now, expires, warned, inbox, busy, closed>>, Open
  PROVE  IInv'
<1> USE AllowancesAssumption, ExpiriesAssumption, TimeAssumption
<1>1. now \in Nat /\ expires \in Nat /\ expires - Notice \in Int
  BY Numbers DEF IInv
<1>2. wake' \in Nat /\ (wake' = now \/ wake' = expires - Notice)
  BY <1>1, LatestFacts DEF Observe
<1>3. TypeOK'
  <2>1. Typed'
    BY <1>2 DEF IInv, TypeOK, Typed, Observe
  <2>2. busy' \in BOOLEAN
    BY DEF IInv, TypeOK
  <2> QED
    BY <2>1, <2>2 DEF Typed, TypeOK
<1>4. SleepsInTime'
  BY <1>1, <1>2 DEF SleepsInTime, Observe
<1>5. SleepsEnough' /\ ClosedAfterWarning'
  BY DEF SleepsEnough, ClosedAfterWarning, Observe, Open
<1> QED
  BY <1>3, <1>4, <1>5 DEF IInv

LEMMA WarnStep == ASSUME IInv, Warn PROVE IInv'
<1> USE AllowancesAssumption, ExpiriesAssumption, TimeAssumption
<1>1. CASE Changed
  BY <1>1, ObserveStep DEF Warn, Due
<1>2. CASE ~Changed
  <2>1. now \in Nat /\ observed \in Nat /\ observed + Skew \in Int
    BY Numbers DEF IInv
  <2>2. /\ wake' = Latest(now, observed + Skew)
        /\ warned' = observed /\ phase' = "close"
        /\ UNCHANGED <<now, expires, observed, inbox, busy, closed>>
        /\ closed = "nobody"
    BY <1>2 DEF Warn, Due, Open
  <2>3. /\ wake' \in Nat /\ observed + Skew <= wake'
        /\ wake' = now \/ wake' = observed + Skew
    BY <2>1, <2>2, LatestFacts
  <2>4. TypeOK'
    <3>1. Typed'
      BY <2>2, <2>3 DEF IInv, TypeOK, Typed
    <3>2. busy' \in BOOLEAN
      BY <2>2 DEF IInv, TypeOK
    <3> QED
      BY <3>1, <3>2 DEF Typed, TypeOK
  <2>5. SleepsInTime' /\ SleepsEnough' /\ ClosedAfterWarning'
    BY <2>1, <2>2, <2>3 DEF SleepsInTime, SleepsEnough, ClosedAfterWarning
  <2> QED
    BY <2>4, <2>5 DEF IInv
<1> QED
  BY <1>1, <1>2

LEMMA ExpireStep == ASSUME IInv, Expire PROVE IInv'
<1> USE AllowancesAssumption, ExpiriesAssumption, TimeAssumption
<1>1. CASE Changed
  BY <1>1, ObserveStep DEF Expire, Due
<1>2. CASE ~Changed
  <2>1. /\ closed' = "watchdog"
        /\ UNCHANGED <<now, expires, observed, phase, wake, warned, inbox, busy>>
        /\ expires = observed /\ phase = "close" /\ wake <= now
    BY <1>2 DEF Expire, Due, Changed, watchdogVars, IInv, TypeOK
  <2>2. TypeOK'
    BY <2>1 DEF IInv, TypeOK
  <2>3. SleepsInTime' /\ SleepsEnough'
    BY <2>1 DEF IInv, SleepsInTime, SleepsEnough
  <2>4. warned = expires /\ ~(now < expires + Skew)
    BY <2>1 DEF IInv, TypeOK, SleepsEnough
  <2>5. ClosedAfterWarning'
    BY <2>1, <2>4 DEF ClosedAfterWarning, Fresh
  <2> QED
    BY <2>2, <2>3, <2>5 DEF IInv
<1> QED
  BY <1>1, <1>2

LEMMA TakeRefreshStep == ASSUME IInv, TakeRefresh PROVE IInv'
<1> USE AllowancesAssumption, ExpiriesAssumption, TimeAssumption
<1>1. /\ Head(inbox) \in Refreshes
      /\ inbox' \in Seq(Refreshes)
      /\ Len(inbox') <= MaxInbox
  BY DEF TakeRefresh, IInv, TypeOK
<1>2. /\ UNCHANGED <<now, observed, phase, wake, warned, busy>>
      /\ closed' \in {"nobody", "refused"} /\ expires' \in Expiries
  BY <1>1 DEF TakeRefresh, watchdogVars, Open, Refreshes, IInv, TypeOK
<1>3. TypeOK'
  BY <1>1, <1>2 DEF IInv, TypeOK
<1>4. SleepsInTime' /\ SleepsEnough' /\ ClosedAfterWarning'
  BY <1>2 DEF IInv, SleepsInTime, SleepsEnough, ClosedAfterWarning
<1> QED
  BY <1>3, <1>4 DEF IInv

LEMMA PageStep == ASSUME IInv, Turn \/ PageRefreshes \/ Leave PROVE IInv'
<1> USE AllowancesAssumption, ExpiriesAssumption, TimeAssumption
<1>1. /\ UNCHANGED <<now, expires, observed, phase, wake, warned>>
      /\ closed' \in {"nobody", "page"} /\ busy' \in BOOLEAN
  BY DEF Turn, PageRefreshes, Leave, watchdogVars, Open, IInv, TypeOK
<1>2. /\ inbox' \in Seq(Refreshes)
      /\ Len(inbox') <= MaxInbox
  <2>1. CASE PageRefreshes
    <3>1. PICK e \in Expiries, same \in BOOLEAN : inbox' = Append(inbox, Refresh(e, same))
      BY <2>1 DEF PageRefreshes
    <3> QED
      BY <2>1, <3>1 DEF PageRefreshes, Refresh, Refreshes, IInv, TypeOK
  <2>2. CASE Turn \/ Leave
    BY <2>2 DEF Turn, Leave, IInv, TypeOK
  <2> QED
    BY <2>1, <2>2
<1>3. TypeOK'
  BY <1>1, <1>2 DEF IInv, TypeOK
<1>4. SleepsInTime' /\ SleepsEnough' /\ ClosedAfterWarning'
  BY <1>1 DEF IInv, SleepsInTime, SleepsEnough, ClosedAfterWarning
<1> QED
  BY <1>3, <1>4 DEF IInv

LEMMA TickStep == ASSUME IInv, Tick PROVE IInv'
<1> USE AllowancesAssumption, ExpiriesAssumption, TimeAssumption
<1>1. TypeOK'
  <2>1. Typed'
    BY DEF Tick, IInv, TypeOK, Typed, watchdogVars
  <2>2. busy' \in BOOLEAN
    BY DEF Tick, IInv, TypeOK
  <2> QED
    BY <2>1, <2>2 DEF Typed, TypeOK
<1>2. SleepsInTime' /\ SleepsEnough'
  BY DEF Tick, IInv, TypeOK, SleepsInTime, SleepsEnough, watchdogVars
<1>3. ClosedAfterWarning'
  BY DEF Tick, ClosedAfterWarning, Open
<1> QED
  BY <1>1, <1>2, <1>3 DEF IInv

LEMMA NextIInv == IInv /\ [Next]_vars => IInv'
<1> SUFFICES ASSUME IInv, [Next]_vars PROVE IInv'
  OBVIOUS
<1>1. CASE UNCHANGED vars
  BY <1>1 DEF vars, watchdogVars, IInv, TypeOK, SleepsInTime, SleepsEnough,
              ClosedAfterWarning, Fresh
<1> QED
  BY <1>1, WarnStep, ExpireStep, TakeRefreshStep, PageStep, TickStep DEF Next

LEMMA IInvEnforces == IInv => ExpiryIsEnforced
<1> USE AllowancesAssumption, ExpiriesAssumption, TimeAssumption
<1> SUFFICES ASSUME IInv, Open, now > expires + Skew, ~Due("notice"), ~Due("close")
             PROVE  expires < observed
  BY DEF ExpiryIsEnforced
<1>1. /\ now \in Nat /\ wake \in Nat /\ expires \in Nat /\ observed \in Nat
      /\ phase \in {"notice", "close"}
  BY Numbers DEF IInv
<1>2. now < wake
  BY <1>1 DEF Due
<1> QED
  BY <1>1, <1>2 DEF IInv, SleepsInTime

(* What the watchdog sleeps for is an invariant: whatever the page answers, *)
(* whenever the receive loop takes it.                                     *)
THEOREM Watched == Spec => []IInv
BY InitIInv, NextIInv, PTL DEF Spec

(* Type correctness. *)
THEOREM TypeCorrect == Spec => []TypeOK
BY Watched, PTL DEF IInv

(* No socket outlives its token and the allowance for clocks, but for an    *)
(* answer that shortens the expiry (auth_watchdog and auth.refresh).       *)
THEOREM ExpiryEnforced == Spec => []ExpiryIsEnforced
BY Watched, IInvEnforces, PTL

(* The watchdog closes no socket whose last token is good, or without       *)
(* having warned of its expiry.                                            *)
THEOREM WarnedBeforeClosed == Spec => []ClosedAfterWarning
BY Watched, PTL DEF IInv
=============================================================================
