------------------------------ MODULE SocketAuth ------------------------------
(***************************************************************************)
(* The authentication of a voice socket over its life: the token of the    *)
(* first frame (authenticate_ws and authenticate_token of auth.py), the    *)
(* watchdog that warns the page and closes the socket, and auth.refresh    *)
(* (voice_socket.py), in Clerk mode, where tokens expire.                  *)
(*                                                                         *)
(* Time is counted in seconds.  The event loop is on time: time does not   *)
(* pass while a task is due or the receive loop has a frame to take.  It   *)
(* does pass while the receive loop awaits something else: speech to text, *)
(* the capabilities of a target, or an answer of Hermes.                   *)
(***************************************************************************)
EXTENDS Integers, Sequences

CONSTANTS
  Notice,     (* refresh_notice_seconds                                   *)
  Skew,       (* clock_skew_seconds                                       *)
  Expiries,   (* when tokens of the page may expire                       *)
  MaxTime,    (* bound: seconds the clock runs                            *)
  MaxInbox    (* bound: refreshes that wait for the receive loop          *)

ASSUME AllowancesAssumption == Notice \in Nat /\ Skew \in Nat
ASSUME ExpiriesAssumption == Expiries \subseteq Nat \ {0}
ASSUME TimeAssumption == MaxTime \in Nat /\ MaxInbox \in Nat

VARIABLES
  now,       (* the time                                                  *)
  expires,   (* auth_context.expires_at                                   *)
  observed,  (* observed_expiry of the watchdog                           *)
  phase,     (* what the watchdog sleeps towards: the notice or the close *)
  wake,      (* until when                                                *)
  warned,    (* the expiry of the last auth.expiring, 0 before            *)
  inbox,     (* auth.refresh frames the receive loop has not taken        *)
  busy,      (* the receive loop awaits something else                    *)
  closed     (* who closed the socket                                     *)

watchdogVars == <<observed, phase, wake, warned>>
vars == <<now, expires, watchdogVars, inbox, busy, closed>>

Open == closed = "nobody"

Latest(a, b) == IF a < b THEN b ELSE a

\* The token is good a while after it expired: the leeway of its decoding.
Fresh(expiry) == now < expiry + Skew

Refresh(expiry, same) == [expiry |-> expiry, same |-> same]
Refreshes == [expiry : Expiries, same : BOOLEAN]

-----------------------------------------------------------------------------
(* The watchdog *)

\* Variant: a refresh ends the watchdog.
Observe_Ends == phase' = "done" /\ UNCHANGED <<observed, wake>>
\* Variant: it only sleeps until it is time to close.
Observe_Unwarned ==
  /\ observed' = expires
  /\ phase' = "close"
  /\ wake' = Latest(now, expires + Skew)
\* The top of its loop: it sleeps until it is time to warn.
Observe ==
  /\ observed' = expires
  /\ phase' = "notice"
  /\ wake' = Latest(now, expires - Notice)

Due(p) == Open /\ phase = p /\ now >= wake

\* Variant: it warns of the expiry it slept for.
Changed_Never == FALSE
Changed == expires # observed

Warn ==
  /\ Due("notice")
  /\ IF Changed
     THEN Observe /\ UNCHANGED warned
     ELSE /\ warned' = observed
          /\ phase' = "close"
          /\ wake' = Latest(now, observed + Skew)
          /\ UNCHANGED observed
  /\ UNCHANGED <<now, expires, inbox, busy, closed>>

Expire ==
  /\ Due("close")
  /\ IF Changed
     THEN Observe /\ UNCHANGED <<warned, closed>>
     ELSE closed' = "watchdog" /\ UNCHANGED watchdogVars
  /\ UNCHANGED <<now, expires, inbox, busy>>

-----------------------------------------------------------------------------
(* The receive loop *)

Accepts(frame) == frame.same /\ Fresh(frame.expiry)

\* auth.refresh: of the same principal and still good, or the socket closes.
TakeRefresh ==
  /\ Open /\ ~busy
  /\ inbox # <<>>
  /\ inbox' = Tail(inbox)
  /\ IF Accepts(Head(inbox))
     THEN expires' = Head(inbox).expiry /\ UNCHANGED closed
     ELSE closed' = "refused" /\ UNCHANGED expires
  /\ UNCHANGED <<now, watchdogVars, busy>>

\* The loop begins to await something else, or is done with it.
Turn ==
  /\ Open
  /\ busy' = ~busy
  /\ UNCHANGED <<now, expires, watchdogVars, inbox, closed>>

-----------------------------------------------------------------------------
(* The page *)

\* auth.refresh is taken from any client at any time.  The page of this console
\* sends one for each warning, with a token of its provider, new or cached, or
\* of another user who signed in meanwhile; it may come late.
PageRefreshes ==
  /\ Open
  /\ Len(inbox) < MaxInbox
  /\ \E e \in Expiries, same \in BOOLEAN : inbox' = Append(inbox, Refresh(e, same))
  /\ UNCHANGED <<now, expires, watchdogVars, busy, closed>>

Leave ==
  /\ Open
  /\ closed' = "page"
  /\ UNCHANGED <<now, expires, watchdogVars, inbox, busy>>

Tick ==
  /\ Open
  /\ now < MaxTime
  /\ ~Due("notice") /\ ~Due("close")
  /\ busy \/ inbox = <<>>
  /\ now' = now + 1
  /\ UNCHANGED <<expires, watchdogVars, inbox, busy, closed>>

-----------------------------------------------------------------------------

\* The first token was good.
Init ==
  /\ now = 0
  /\ expires \in Expiries /\ Fresh(expires)
  /\ observed = expires
  /\ phase = "notice"
  /\ wake = Latest(now, expires - Notice)
  /\ warned = 0
  /\ inbox = <<>>
  /\ busy = FALSE
  /\ closed = "nobody"

Next ==
  \/ Warn \/ Expire
  \/ TakeRefresh \/ Turn
  \/ PageRefreshes \/ Leave
  \/ Tick

Spec == Init /\ [][Next]_vars

-----------------------------------------------------------------------------
(* Properties *)

TypeOK ==
  /\ now \in 0 .. MaxTime
  /\ {expires, observed} \subseteq Expiries
  /\ phase \in {"notice", "close"}
  /\ wake \in Nat
  /\ phase = "close" => warned = observed
  /\ warned \in Nat
  /\ busy \in BOOLEAN
  /\ inbox \in Seq(Refreshes) /\ Len(inbox) <= MaxInbox
  /\ closed \in {"nobody", "watchdog", "refused", "page"}

(* A socket outlives its token and the allowance for clocks only while the  *)
(* watchdog sleeps towards a later expiry, the page having answered with a *)
(* token that expires before the one it had; time never passes beyond it   *)
(* otherwise, whatever refreshes arrive during the two sleeps.             *)
ExpiryIsEnforced ==
  Open /\ now > expires + Skew =>
    expires < observed \/ Due("notice") \/ Due("close")

(* The watchdog closes a socket only when the last token the receive loop   *)
(* took is no longer good, and only after it warned the page of that very  *)
(* expiry, however a refresh and its two sleeps fall together.             *)
ClosedAfterWarning ==
  closed = "watchdog" => warned = expires /\ ~Fresh(expires)
=============================================================================
