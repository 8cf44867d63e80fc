-------------------------- MODULE RealtimeRequests --------------------------
(***************************************************************************)
(* Mutations of a realtime session on their way through the console:       *)
(* RealtimeProxyService over RealtimeMappingStore and HermesRealtimeClient *)
(* (backend/voice_console/realtime/service.py, store.py, hermes_client.py) *)
(* with the Hermes realtime API as the environment.                        *)
(*                                                                         *)
(* A call is one HTTP request or control frame of a browser, from its      *)
(* arrival to its answer; a browser may repeat a request id in several     *)
(* calls, at once or one after the other.  The store is sqlite and every   *)
(* access to it is one transaction, the code of a call between two awaits  *)
(* is one step, and a call awaits nothing but Hermes.                      *)
(***************************************************************************)
EXTENDS Naturals

CONSTANTS
  Calls,       (* the calls of the browsers                               *)
  Requests,    (* client_request_id values                                *)
  Inputs,      (* what a call asks for: resource, operation and payload   *)
  OperationOf, (* the operation of an input                               *)
  None         (* no input, no document                                   *)

SessionActions == {"activate", "input", "interrupt"}
ManualControls == {"manual_audio_commit", "manual_audio_discard", "turn_mode_update"}
Operations == {"create", "delete", "approval"} \cup SessionActions \cup ManualControls

Results == {"accepted", "rejected"}
PendingStates == {"in_progress", "outcome_unknown"}
Failures == {"conflict", "ambiguous_acceptance", "target_unavailable", "failed"}
Replies == Results \cup PendingStates \cup {"not_found", "unreachable", "unreadable"}

ASSUME InputsAssumption == OperationOf \in [Inputs -> Operations]
ASSUME NoneAssumption == None \notin Inputs \cup Replies \cup Failures

VARIABLES
  claimed,   (* the input in the row of a request, None without a row      *)
  state,     (* its state column                                           *)
  response,  (* its response_json                                          *)
  stage,     (* where the handler of a call is                             *)
  request,   (* the request id of a call                                   *)
  input,     (* the input of a call, None for a look at a result           *)
  reply,     (* what Hermes answered and the handler has not seen          *)
  answer,    (* what the browser was told                                  *)
  wire,      (* calls whose mutation is on its way to Hermes               *)
  posted,    (* calls that ever sent a mutation                            *)
  received,  (* the input Hermes has for a request id                      *)
  outcome    (* what became of it                                          *)

rowVars    == <<claimed, state, response>>
callVars   == <<stage, request, input, reply, answer>>
hermesVars == <<received, outcome>>
vars == <<rowVars, callVars, wire, posted, hermesVars>>

-----------------------------------------------------------------------------
(* The store *)

\* Variant: a request id may be used for another input.
Conflict_Never(r, i) == FALSE
\* claim_request of an id that another resource, operation or payload has.
Conflict(r, i) == claimed[r] \notin {None, i}

claim_request(r, i) ==
  /\ claimed' = [claimed EXCEPT ![r] = i]
  /\ state' = [state EXCEPT ![r] = IF claimed[r] = None THEN "pending" ELSE @]
  /\ UNCHANGED response

set_request_state(r, s, document) ==
  /\ state' = [state EXCEPT ![r] = s]
  /\ response' = [response EXCEPT ![r] = document]
  /\ UNCHANGED claimed

-----------------------------------------------------------------------------
(* A call arrives *)

Arrives(c, r, i, next) ==
  /\ stage[c] = "idle"
  /\ request' = [request EXCEPT ![c] = r]
  /\ input' = [input EXCEPT ![c] = i]
  /\ stage' = [stage EXCEPT ![c] = next]

\* Variant: only a request that is complete is not forwarded again.
IsNew_UnlessComplete(r) == state[r] # "complete"
IsNew(r) == claimed[r] = None

Cached(r) == state[r] = "complete" /\ response[r] # None

\* A mutation of an existing session is forwarded by the call that claims its
\* id; any other call gets the stored result or asks Hermes for it.
Mutate(c, r, i) ==
  /\ ~Conflict(r, i)
  /\ claim_request(r, i)
  /\ Arrives(c, r, i, IF IsNew(r) THEN "post" ELSE IF Cached(r) THEN "done" ELSE "lookup")
  /\ answer' = IF ~IsNew(r) /\ Cached(r) THEN [answer EXCEPT ![c] = response[r]] ELSE answer
  /\ UNCHANGED <<reply, wire, posted, hermesVars>>

delete_session(c, r, i) == OperationOf[i] = "delete" /\ Mutate(c, r, i)
session_action(c, r, i) == OperationOf[i] \in SessionActions /\ Mutate(c, r, i)
manual_control(c, r, i) == OperationOf[i] \in ManualControls /\ Mutate(c, r, i)
resolve_approval(c, r, i) == OperationOf[i] = "approval" /\ Mutate(c, r, i)

\* The creation of a session is forwarded by every call: Hermes knows its id.
create_session(c, r, i) ==
  /\ OperationOf[i] = "create"
  /\ ~Conflict(r, i)
  /\ claim_request(r, i)
  /\ Arrives(c, r, i, "post")
  /\ UNCHANGED <<reply, answer, wire, posted, hermesVars>>

Refuse(c, r, i) ==
  /\ Conflict(r, i)
  /\ Arrives(c, r, i, "done")
  /\ answer' = [answer EXCEPT ![c] = "conflict"]
  /\ UNCHANGED <<rowVars, reply, wire, posted, hermesVars>>

request_result(c, r) ==
  /\ Arrives(c, r, None, "lookup")
  /\ UNCHANGED <<rowVars, reply, answer, wire, posted, hermesVars>>

-----------------------------------------------------------------------------
(* The call to Hermes *)

Send(c) ==
  /\ stage[c] = "post"
  /\ stage' = [stage EXCEPT ![c] = "sent"]
  /\ wire' = wire \cup {c}
  /\ posted' = posted \cup {c}
  /\ UNCHANGED <<rowVars, request, input, reply, answer, hermesVars>>

Answer(c, document) ==
  /\ stage' = [stage EXCEPT ![c] = "done"]
  /\ answer' = [answer EXCEPT ![c] = document]
  /\ reply' = [reply EXCEPT ![c] = None]

\* ConnectError, or a turn mode refused after the claim: the mutation was not
\* sent, but its id stays claimed.
CannotConnect(c) ==
  /\ stage[c] = "post"
  /\ Answer(c, "target_unavailable")
  /\ UNCHANGED <<rowVars, request, input, wire, posted, hermesVars>>

\* A timeout or a reset: whatever Hermes has answered is lost.
Ambiguous(c) ==
  /\ stage[c] = "sent"
  /\ stage' = [stage EXCEPT ![c] = "lookup"]
  /\ reply' = [reply EXCEPT ![c] = None]
  /\ UNCHANGED <<rowVars, request, input, answer, wire, posted, hermesVars>>

Handles(c, documents) ==
  /\ stage[c] \in {"sent", "lookup"}
  /\ reply[c] \in documents
  /\ UNCHANGED <<request, input, wire, posted, hermesVars>>

\* The results that can be read: a rejection is one of a manual control only.
\* A look at a result tells the operations apart by what Hermes answers.
Readable(c) ==
  LET i == IF input[c] = None THEN received[request[c]] ELSE input[c]
  IN  IF i # None /\ OperationOf[i] \in ManualControls
      THEN Results ELSE {"accepted"}


StatusOf(document) == IF document \in PendingStates THEN document ELSE "complete"

\* What is written to the row: nothing but "complete" for a creation, and
\* nothing at all by a look at the result of another operation.
Store(c, document) ==
  IF input[c] # None
  THEN set_request_state(request[c], StatusOf(document),
         IF OperationOf[input[c]] = "create" THEN None ELSE document)
  ELSE IF document = "accepted" /\ claimed[request[c]] # None
          /\ OperationOf[claimed[request[c]]] = "create"
  THEN set_request_state(request[c], "complete", None)
  ELSE UNCHANGED rowVars

TakeResult(c) ==
  /\ Handles(c, Readable(c))
  /\ Store(c, reply[c])
  /\ Answer(c, reply[c])

TakePending(c) ==
  /\ Handles(c, PendingStates)
  /\ Store(c, reply[c])
  /\ Answer(c, reply[c])

\* An error of Hermes or of the way to it, or a result that is not expected.
TakeFailure(c) ==
  /\ Handles(c, {"not_found", "unreachable", "unreadable"} \cup (Results \ Readable(c)))
  /\ Answer(c, IF reply[c] = "not_found" /\ input[c] # None
               THEN "ambiguous_acceptance" ELSE "failed")
  /\ UNCHANGED rowVars

\* The console process is restarted: its calls end without an answer.
Restart ==
  /\ \E c \in Calls : stage[c] \in {"post", "sent", "lookup"}
  /\ stage' = [c \in Calls |-> IF stage[c] \in {"post", "sent", "lookup"} THEN "done"
                               ELSE stage[c]]
  /\ reply' = [c \in Calls |-> None]
  /\ UNCHANGED <<rowVars, request, input, answer, wire, posted, hermesVars>>

-----------------------------------------------------------------------------
(* Hermes *)

Reply(c, document) ==
  reply' = IF stage[c] = "sent" THEN [reply EXCEPT ![c] = document] ELSE reply

\* A mutation arrives, perhaps long after its call has given up.  Its id is
\* known already or it is taken on; a reply may be unreadable.
HermesReceives(c) ==
  LET r == request[c] IN
  /\ c \in wire
  /\ wire' = wire \ {c}
  /\ IF received[r] = None
     THEN /\ received' = [received EXCEPT ![r] = input[c]]
          /\ \E result \in Results \cup {"in_progress"} :
               outcome' = [outcome EXCEPT ![r] = result]
     ELSE UNCHANGED hermesVars
  /\ \E document \in {outcome'[r], "unreadable"} : Reply(c, document)
  /\ UNCHANGED <<rowVars, stage, request, input, answer, posted>>

HermesMissed(c) ==
  /\ c \in wire
  /\ wire' = wire \ {c}
  /\ UNCHANGED <<rowVars, callVars, posted, hermesVars>>

HermesDecides(r) ==
  /\ outcome[r] = "in_progress"
  /\ \E result \in Results \cup {"outcome_unknown"} :
       outcome' = [outcome EXCEPT ![r] = result]
  /\ UNCHANGED <<rowVars, callVars, wire, posted, received>>

HermesLooksUp(c) ==
  /\ stage[c] = "lookup"
  /\ reply[c] = None
  /\ \E document \in {IF received[request[c]] = None THEN "not_found"
                      ELSE outcome[request[c]], "unreachable"} :
       reply' = [reply EXCEPT ![c] = document]
  /\ UNCHANGED <<rowVars, stage, request, input, answer, wire, posted, hermesVars>>

-----------------------------------------------------------------------------

Init ==
  /\ claimed = [r \in Requests |-> None]
  /\ state = [r \in Requests |-> "absent"]
  /\ response = [r \in Requests |-> None]
  /\ stage = [c \in Calls |-> "idle"]
  /\ request = [c \in Calls |-> None]
  /\ input = [c \in Calls |-> None]
  /\ reply = [c \in Calls |-> None]
  /\ answer = [c \in Calls |-> None]
  /\ wire = {}
  /\ posted = {}
  /\ received = [r \in Requests |-> None]
  /\ outcome = [r \in Requests |-> None]

Arrival(c) ==
  \E r \in Requests :
    \/ request_result(c, r)
    \/ \E i \in Inputs :
         \/ create_session(c, r, i) \/ delete_session(c, r, i)
         \/ session_action(c, r, i) \/ manual_control(c, r, i)
         \/ resolve_approval(c, r, i) \/ Refuse(c, r, i)

Handler(c) ==
  \/ Send(c) \/ CannotConnect(c) \/ Ambiguous(c)
  \/ TakeResult(c) \/ TakePending(c) \/ TakeFailure(c)

Next ==
  \/ \E c \in Calls :
       \/ Arrival(c) \/ Handler(c)
       \/ HermesReceives(c) \/ HermesMissed(c) \/ HermesLooksUp(c)
  \/ \E r \in Requests : HermesDecides(r)
  \/ Restart

Spec == Init /\ [][Next]_vars

-----------------------------------------------------------------------------
(* Properties *)

TypeOK ==
  /\ claimed \in [Requests -> Inputs \cup {None}]
  /\ state \in [Requests -> {"absent", "pending", "complete"} \cup PendingStates]
  /\ response \in [Requests -> Results \cup PendingStates \cup {None}]
  /\ stage \in [Calls -> {"idle", "post", "sent", "lookup", "done"}]
  /\ request \in [Calls -> Requests \cup {None}]
  /\ input \in [Calls -> Inputs \cup {None}]
  /\ reply \in [Calls -> Replies \cup {None}]
  /\ answer \in [Calls -> Results \cup PendingStates \cup Failures \cup {None}]
  /\ wire \subseteq posted /\ posted \subseteq Calls
  /\ received \in [Requests -> Inputs \cup {None}]
  /\ outcome \in [Requests -> Results \cup PendingStates \cup {None}]

(* A mutation of a session is sent to Hermes once, however often its id is *)
(* repeated, at once or later, whatever was lost and however often the     *)
(* console was restarted.  (A creation is sent again, and Hermes knows it.)*)
ForwardedOnce ==
  \A c, d \in posted :
    request[c] = request[d] /\ OperationOf[input[c]] # "create" => c = d

(* What a browser is told of a request is what Hermes decided, and about   *)
(* the input this browser sent.                                            *)
AnswersAreTrue ==
  \A c \in Calls : answer[c] \in Results =>
    /\ outcome[request[c]] = answer[c]
    /\ input[c] \in {received[request[c]], None}
=============================================================================
