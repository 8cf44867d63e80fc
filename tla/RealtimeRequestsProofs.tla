------------------------ MODULE RealtimeRequestsProofs ------------------------
(***************************************************************************)
(* Theorems about the mutations of realtime sessions: for any number of    *)
(* calls, requests and inputs, a mutation is forwarded once, and what the  *)
(* browsers are told and the store keeps is what Hermes decided.           *)
(***************************************************************************)
EXTENDS RealtimeRequests, TLAPS

Active == {"post", "sent", "lookup"}

(* A call whose mutation was sent to Hermes, or is about to be. *)
Forwards(c) == c \in posted \/ stage[c] = "post"

(* The variables of a call go with the stage of its handler. *)
Staged ==
  \A c \in Calls :
    /\ stage[c] # "idle" => request[c] \in Requests
    /\ stage[c] = "sent" => c \in posted
    /\ c \in posted => stage[c] \notin {"idle", "post"}
    /\ answer[c] # None => stage[c] = "done"
    /\ reply[c] # None => stage[c] \in {"sent", "lookup"}

(* The row of a request keeps the input of every call that was not refused *)
(* because of it.                                                          *)
Claimed ==
  \A c \in Calls :
    /\ Forwards(c) => input[c] \in Inputs
    /\ c \in posted \/ (stage[c] \in Active /\ input[c] # None)
         => claimed[request[c]] = input[c]

(* Hermes has decided on what the row says, and a reply that is a result   *)
(* is its decision.                                                        *)
Agreed ==
  /\ \A r \in Requests :
       /\ received[r] # None => received[r] = claimed[r]
       /\ outcome[r] # None => received[r] # None
       /\ received[r] # None => outcome[r] # None
  /\ \A c \in Calls : reply[c] \in Results => outcome[request[c]] = reply[c]

(* ForwardedOnce, of the calls that are about to send as well. *)
Alone ==
  \A c, d \in Calls :
    /\ Forwards(c) /\ Forwards(d)
    /\ request[c] = request[d] /\ OperationOf[input[c]] # "create"
    => c = d

(* A row that says complete belongs to a request Hermes decided, and the   *)
(* response it keeps for repetitions is that decision.                     *)
CompleteIsDecided ==
  \A r \in Requests : state[r] = "complete" =>
    outcome[r] \in Results /\ response[r] \in {outcome[r], None}

IInv ==
  /\ TypeOK /\ Staged /\ Claimed /\ Agreed /\ Alone
  /\ AnswersAreTrue /\ CompleteIsDecided

-----------------------------------------------------------------------------
(* Initial states *)

LEMMA InitIInv == Init => IInv
<1> SUFFICES ASSUME Init PROVE IInv
  OBVIOUS
<1>1. TypeOK
  BY DEF Init, TypeOK
<1>2. Staged /\ Claimed /\ Alone
  BY DEF Init, Staged, Claimed, Alone, Forwards, Active
<1>3. Agreed /\ AnswersAreTrue /\ CompleteIsDecided
  BY NoneAssumption DEF Init, Agreed, AnswersAreTrue, CompleteIsDecided, Results, Replies
<1> QED
  BY <1>1, <1>2, <1>3 DEF IInv

-----------------------------------------------------------------------------
(* A call arrives *)

(* What every arrival has in common: the row may be claimed for the input, *)
(* a call that is going to send has claimed it, alone unless it creates a  *)
(* session, and a stored result that answers it is Hermes' decision.       *)
LEMMA ArriveStep ==
  ASSUME IInv, NEW c \in Calls, NEW r \in Requests, NEW i \in Inputs \cup {None},
         NEW next \in {"post", "lookup", "done"},
         Arrives(c, r, i, next),
         UNCHANGED <<response, reply, wire, posted, hermesVars>>,
         UNCHANGED <<claimed, state>>
           \/ (i # None /\ ~Conflict(r, i) /\ claim_request(r, i)),
         next = "post" => i # None /\ claim_request(r, i)
                          /\ (OperationOf[i] = "create" \/ claimed[r] = None),
         next = "lookup" /\ i # None => claim_request(r, i),
         answer' = answer
           \/ (\E a \in Results \cup PendingStates \cup Failures :
                 /\ next = "done"
                 /\ answer' = [answer EXCEPT ![c] = a]
                 /\ a \in Results => outcome[r] = a /\ i \in {received[r], None})
  PROVE  IInv'
<1>1. /\ stage[c] = "idle" /\ c \notin posted /\ reply[c] = None /\ answer[c] = None
      /\ stage' = [stage EXCEPT ![c] = next]
      /\ request' = [request EXCEPT ![c] = r]
      /\ input' = [input EXCEPT ![c] = i]
  BY DEF Arrives, IInv, Staged
<1>2. /\ claimed' \in [Requests -> Inputs \cup {None}]
      /\ state' \in [Requests -> {"absent", "pending", "complete"} \cup PendingStates]
      /\ \A q \in Requests : claimed[q] # None => claimed'[q] = claimed[q]
      /\ \A q \in Requests : state'[q] = "complete" => state[q] = "complete"
      /\ claim_request(r, i) => claimed'[r] = i
  BY NoneAssumption DEF IInv, TypeOK, claim_request, Conflict
<1>3. TypeOK'
  BY <1>1, <1>2 DEF IInv, TypeOK, hermesVars
<1>4. Staged'
  BY <1>1, <1>3, NoneAssumption DEF IInv, Staged, TypeOK
<1>5. Claimed'
  <2> SUFFICES ASSUME NEW d \in Calls
               PROVE  /\ Forwards(d)' => input'[d] \in Inputs
                      /\ d \in posted' \/ (stage'[d] \in Active /\ input'[d] # None)
                           => claimed'[request'[d]] = input'[d]
    BY DEF Claimed
  <2>1. CASE d = c
    BY <2>1, <1>1, <1>2 DEF IInv, TypeOK, Forwards, Active
  <2>2. CASE d # c
    <3>1. stage'[d] = stage[d] /\ input'[d] = input[d] /\ request'[d] = request[d]
      BY <2>2, <1>1 DEF IInv, TypeOK
    <3>2. Forwards(d)' => input'[d] \in Inputs
      BY <3>1 DEF IInv, Claimed, Forwards
    <3>3. ASSUME d \in posted' \/ (stage'[d] \in Active /\ input'[d] # None)
          PROVE  claimed'[request'[d]] = input'[d]
      <4>1. claimed[request[d]] = input[d]
        BY <3>1, <3>3 DEF IInv, Claimed
      <4>2. request[d] \in Requests /\ input[d] # None
        BY <3>1, <3>3, NoneAssumption DEF IInv, Staged, Claimed, Forwards, Active
      <4> QED
        BY <3>1, <4>1, <4>2, <1>2
    <3> QED
      BY <3>2, <3>3
  <2> QED
    BY <2>1, <2>2
<1>6. Agreed'
  BY <1>1, <1>2, NoneAssumption DEF IInv, Agreed, TypeOK, hermesVars, Results, Replies
<1>7. Alone'
  <2> SUFFICES ASSUME NEW d \in Calls, NEW e \in Calls, Forwards(d)', Forwards(e)',
                      request'[d] = request'[e], OperationOf[input'[d]] # "create"
               PROVE  d = e
    BY DEF Alone
  <2>1. \A f \in Calls : f # c => /\ stage'[f] = stage[f] /\ input'[f] = input[f]
                                  /\ request'[f] = request[f] /\ (Forwards(f)' => Forwards(f))
    BY <1>1 DEF IInv, TypeOK, Forwards
  <2>2. stage'[c] = next /\ input'[c] = i /\ request'[c] = r
    BY <1>1 DEF IInv, TypeOK
  <2>3. CASE d # c /\ e # c
    BY <2>1, <2>3 DEF IInv, Alone
  <2>4. ASSUME NEW f \in Calls, f # c, Forwards(f)', Forwards(c)', request'[f] = r
        PROVE  /\ claimed[r] = input'[f] /\ input'[f] \in Inputs
               /\ input'[f] = i /\ OperationOf[i] = "create"
    <3>1. Forwards(f) /\ request[f] = r /\ input'[f] = input[f]
      BY <2>1, <2>4
    <3>2. input[f] \in Inputs /\ claimed[r] = input[f]
      BY <3>1, NoneAssumption DEF IInv, Claimed, Forwards, Active
    <3>3. next = "post"
      BY <2>2, <2>4, <1>1 DEF Forwards
    <3>4. claimed'[r] = i /\ claimed[r] # None
      BY <3>2, <3>3, <1>2, NoneAssumption
    <3> QED
      BY <3>1, <3>2, <3>3, <3>4, <1>2
  <2> QED
    BY <2>2, <2>3, <2>4
<1>8. AnswersAreTrue'
  BY <1>1, <1>3, NoneAssumption
  DEF IInv, AnswersAreTrue, TypeOK, hermesVars, Results, Replies
<1>9. CompleteIsDecided'
  BY <1>2 DEF IInv, CompleteIsDecided, hermesVars
<1> QED
  BY <1>3, <1>4, <1>5, <1>6, <1>7, <1>8, <1>9 DEF IInv

LEMMA MutateStep ==
  ASSUME IInv, NEW c \in Calls, NEW r \in Requests, NEW i \in Inputs, Mutate(c, r, i)
  PROVE  IInv'
<1> DEFINE next == IF IsNew(r) THEN "post" ELSE IF Cached(r) THEN "done" ELSE "lookup"
<1>1. /\ Arrives(c, r, i, next) /\ next \in {"post", "lookup", "done"}
      /\ ~Conflict(r, i) /\ claim_request(r, i) /\ i # None
      /\ UNCHANGED <<response, reply, wire, posted, hermesVars>>
  BY NoneAssumption DEF Mutate, claim_request
<1>2. next = "post" => claimed[r] = None
  BY DEF IsNew
<1>3. answer' = answer
        \/ (\E a \in Results \cup PendingStates \cup Failures :
              /\ next = "done"
              /\ answer' = [answer EXCEPT ![c] = a]
              /\ a \in Results => outcome[r] = a /\ i \in {received[r], None})
  <2>1. CASE IsNew(r) \/ ~Cached(r)
    BY <2>1 DEF Mutate
  <2>2. CASE ~IsNew(r) /\ Cached(r)
    <3>1. /\ state[r] = "complete" /\ response[r] # None /\ claimed[r] # None
          /\ answer' = [answer EXCEPT ![c] = response[r]]
          /\ response[r] \in Results \cup PendingStates
      BY <2>2 DEF Mutate, IsNew, Cached, IInv, TypeOK
    <3>2. outcome[r] = response[r] /\ outcome[r] \in Results
      BY <3>1 DEF IInv, CompleteIsDecided
    <3>3. received[r] = i
      BY <1>1, <3>1, <3>2, NoneAssumption DEF IInv, Agreed, Conflict, Replies
    <3> QED
      BY <2>2, <3>1, <3>2, <3>3
  <2> QED
    BY <2>1, <2>2
<1> HIDE DEF next
<1> QED
  BY <1>1, <1>2, <1>3, ArriveStep

LEMMA ArrivalStep ==
  ASSUME IInv, NEW c \in Calls, Arrival(c)
  PROVE  IInv'
<1>1. PICK r \in Requests :
        \/ request_result(c, r)
        \/ \E i \in Inputs :
             \/ create_session(c, r, i) \/ delete_session(c, r, i)
             \/ session_action(c, r, i) \/ manual_control(c, r, i)
             \/ resolve_approval(c, r, i) \/ Refuse(c, r, i)
  BY DEF Arrival
<1>2. CASE request_result(c, r)
  <2>1. /\ Arrives(c, r, None, "lookup")
        /\ UNCHANGED <<claimed, state, response, reply, answer, wire, posted, hermesVars>>
    BY <1>2 DEF request_result, rowVars
  <2> QED
    BY <2>1, ArriveStep
<1>3. ASSUME NEW i \in Inputs, create_session(c, r, i) PROVE IInv'
  <2>1. /\ Arrives(c, r, i, "post") /\ OperationOf[i] = "create" /\ i # None
        /\ ~Conflict(r, i) /\ claim_request(r, i)
        /\ UNCHANGED <<response, reply, answer, wire, posted, hermesVars>>
    BY <1>3, NoneAssumption DEF create_session, claim_request
  <2> QED
    BY <2>1, ArriveStep
<1>4. ASSUME NEW i \in Inputs, Refuse(c, r, i) PROVE IInv'
  <2>1. /\ Arrives(c, r, i, "done")
        /\ answer' = [answer EXCEPT ![c] = "conflict"]
        /\ "conflict" \in Failures /\ "conflict" \notin Results
        /\ UNCHANGED <<claimed, state, response, reply, wire, posted, hermesVars>>
    BY <1>4 DEF Refuse, rowVars, Failures, Results
  <2> QED
    BY <2>1, ArriveStep
<1>5. ASSUME NEW i \in Inputs, Mutate(c, r, i) PROVE IInv'
  BY <1>5, MutateStep
<1> QED
  BY <1>1, <1>2, <1>3, <1>4, <1>5
  DEF delete_session, session_action, manual_control, resolve_approval

-----------------------------------------------------------------------------
(* The call to Hermes *)

(* A handler moves one call, not back to its sending, and does not touch   *)
(* its request; a row changes only with a result that Hermes has decided.  *)
LEMMA HandlerStep ==
  ASSUME IInv, NEW c \in Calls, NEW next \in {"sent", "lookup", "done"},
         stage[c] \in Active,
         stage' = [stage EXCEPT ![c] = next],
         next = "sent" <=> stage[c] = "post" /\ posted' = posted \cup {c},
         posted' = posted \/ (stage[c] = "post" /\ posted' = posted \cup {c}),
         wire' = wire \/ wire' = wire \cup (posted' \ posted),
         reply' = [reply EXCEPT ![c] = None] \/ (stage[c] = "post" /\ reply' = reply),
         UNCHANGED <<claimed, request, input, hermesVars>>,
         next = "lookup" => stage[c] = "sent",
         answer' = answer
           \/ (\E a \in Results \cup PendingStates \cup Failures :
                 /\ next = "done"
                 /\ answer' = [answer EXCEPT ![c] = a]
                 /\ a \in Results => stage[c] # "post" /\ outcome[request[c]] = a),
         state' \in [Requests -> {"absent", "pending", "complete"} \cup PendingStates],
         response' \in [Requests -> Results \cup PendingStates \cup {None}],
         \A r \in Requests :
           state'[r] = "complete" =>
             \/ state[r] = "complete" /\ response'[r] = response[r]
             \/ outcome[r] \in Results /\ response'[r] \in {outcome[r], None}
  PROVE  IInv'
<1>1. TypeOK'
  BY DEF IInv, TypeOK, hermesVars
<1>2. reply[c] # None => stage[c] # "post"
  BY DEF IInv, Staged
<1>3. /\ stage'[c] = next /\ reply'[c] = None
      /\ \A d \in Calls : d # c => /\ stage'[d] = stage[d] /\ reply'[d] = reply[d]
                                   /\ answer'[d] = answer[d]
                                   /\ d \in posted' <=> d \in posted
  BY <1>2 DEF IInv, TypeOK
<1>4. /\ answer[c] = None /\ request[c] \in Requests
      /\ c \in posted' => next # "idle" /\ next # "post"
      /\ next = "sent" => c \in posted'
      /\ answer'[c] # None => next = "done"
  BY DEF IInv, Staged, TypeOK, Active
<1>5. Staged'
  <2> SUFFICES ASSUME NEW d \in Calls
               PROVE  /\ stage'[d] # "idle" => request[d] \in Requests
                      /\ stage'[d] = "sent" => d \in posted'
                      /\ d \in posted' => stage'[d] \notin {"idle", "post"}
                      /\ answer'[d] # None => stage'[d] = "done"
                      /\ reply'[d] # None => stage'[d] \in {"sent", "lookup"}
    BY DEF Staged
  <2>1. CASE d = c
    BY <2>1, <1>3, <1>4
  <2>2. CASE d # c
    BY <2>2, <1>3 DEF IInv, Staged
  <2> QED
    BY <2>1, <2>2
<1>6. \A d \in Calls : Forwards(d)' => Forwards(d)
  BY <1>3 DEF Forwards, IInv, Staged
<1>7. Claimed'
  <2> SUFFICES ASSUME NEW d \in Calls
               PROVE  /\ Forwards(d)' => input[d] \in Inputs
                      /\ d \in posted' \/ (stage'[d] \in Active /\ input[d] # None)
                           => claimed[request[d]] = input[d]
    BY DEF Claimed
  <2>1. Forwards(d)' => input[d] \in Inputs
    BY <1>6 DEF IInv, Claimed
  <2>2. CASE d = c
    <3>1. stage[c] = "post" => input[c] # None
      BY NoneAssumption DEF IInv, Claimed, Forwards
    <3>2. stage[c] # "post" => posted' = posted
      OBVIOUS
    <3> QED
      BY <2>1, <2>2, <3>1, <3>2 DEF IInv, Claimed
  <2>3. CASE d # c
    BY <2>1, <2>3, <1>3 DEF IInv, Claimed
  <2> QED
    BY <2>2, <2>3
<1>8. Agreed'
  <2>1. None \notin Results
    BY NoneAssumption DEF Replies
  <2> QED
    BY <2>1, <1>3 DEF IInv, Agreed, hermesVars
<1>9. Alone'
  BY <1>6 DEF IInv, Alone
<1>10. AnswersAreTrue'
  <2> SUFFICES ASSUME NEW d \in Calls, answer'[d] \in Results
               PROVE  /\ outcome[request[d]] = answer'[d]
                      /\ input[d] \in {received[request[d]], None}
    BY DEF AnswersAreTrue, hermesVars
  <2>1. CASE answer'[d] = answer[d]
    BY <2>1 DEF IInv, AnswersAreTrue
  <2>2. CASE answer'[d] # answer[d]
    <3>1. /\ d = c /\ stage[c] # "post" /\ outcome[request[c]] = answer'[c]
      BY <2>2, <1>3 DEF IInv, TypeOK
    <3>2. received[request[c]] = claimed[request[c]]
      BY <3>1, <1>4, NoneAssumption DEF IInv, Agreed, Replies
    <3>3. input[c] # None => claimed[request[c]] = input[c]
      BY <3>1 DEF IInv, Claimed
    <3> QED
      BY <3>1, <3>2, <3>3
  <2> QED
    BY <2>1, <2>2
<1>11. CompleteIsDecided'
  BY DEF IInv, CompleteIsDecided, hermesVars
<1> QED
  BY <1>1, <1>5, <1>7, <1>8, <1>9, <1>10, <1>11 DEF IInv

(* What Store writes of a reply to a call that waits for it. *)
LEMMA StoreFacts ==
  ASSUME IInv, NEW c \in Calls, stage[c] \in {"sent", "lookup"},
         reply[c] \in Results \cup PendingStates, Store(c, reply[c])
  PROVE  /\ claimed' = claimed
         /\ state' \in [Requests -> {"absent", "pending", "complete"} \cup PendingStates]
         /\ response' \in [Requests -> Results \cup PendingStates \cup {None}]
         /\ \A r \in Requests :
              state'[r] = "complete" =>
                \/ state[r] = "complete" /\ response'[r] = response[r]
                \/ outcome[r] \in Results /\ response'[r] \in {outcome[r], None}
<1>1. /\ request[c] \in Requests
      /\ reply[c] \in Results => outcome[request[c]] = reply[c]
  BY DEF IInv, Staged, Agreed
<1>2. /\ StatusOf(reply[c]) \in {"complete"} \cup PendingStates
      /\ StatusOf(reply[c]) = "complete" => reply[c] \in Results
  BY DEF StatusOf, PendingStates
<1>3. /\ claimed' = claimed
      /\ \/ UNCHANGED <<state, response>>
         \/ \E s \in {"complete"} \cup PendingStates, document \in {reply[c], None} :
              /\ state' = [state EXCEPT ![request[c]] = s]
              /\ response' = [response EXCEPT ![request[c]] = document]
              /\ s = "complete" => reply[c] \in Results
  <2>1. CASE input[c] # None
    BY <2>1, <1>2 DEF Store, set_request_state
  <2>2. CASE input[c] = None
    BY <2>2 DEF Store, set_request_state, rowVars, Results
  <2> QED
    BY <2>1, <2>2
<1> QED
  BY <1>1, <1>3 DEF IInv, TypeOK

LEMMA CallStep ==
  ASSUME IInv, NEW c \in Calls, Handler(c)
  PROVE  IInv'
<1>1. UNCHANGED <<state, response>> =>
        /\ state' \in [Requests -> {"absent", "pending", "complete"} \cup PendingStates]
        /\ response' \in [Requests -> Results \cup PendingStates \cup {None}]
  BY DEF IInv, TypeOK
<1>2. CASE Send(c)
  <2>1. /\ stage[c] = "post" /\ c \notin posted
        /\ stage' = [stage EXCEPT ![c] = "sent"]
        /\ posted' = posted \cup {c} /\ wire' = wire \cup (posted' \ posted)
        /\ UNCHANGED <<claimed, state, response, request, input, reply, answer, hermesVars>>
    BY <1>2 DEF Send, rowVars, IInv, Staged
  <2> QED
    BY <1>1, <2>1, HandlerStep DEF Active
<1>3. CASE CannotConnect(c)
  <2>1. /\ stage[c] = "post"
        /\ stage' = [stage EXCEPT ![c] = "done"]
        /\ reply' = [reply EXCEPT ![c] = None]
        /\ answer' = [answer EXCEPT ![c] = "target_unavailable"]
        /\ "target_unavailable" \in Failures /\ "target_unavailable" \notin Results
        /\ UNCHANGED <<claimed, state, response, request, input, wire, posted, hermesVars>>
    BY <1>3 DEF CannotConnect, Answer, rowVars, Failures, Results
  <2>2. c \notin posted
    BY <2>1 DEF IInv, Staged
  <2> QED
    BY <1>1, <2>1, <2>2, HandlerStep DEF Active
<1>4. CASE Ambiguous(c)
  <2>1. /\ stage[c] = "sent"
        /\ stage' = [stage EXCEPT ![c] = "lookup"]
        /\ reply' = [reply EXCEPT ![c] = None]
        /\ UNCHANGED <<claimed, state, response, request, input, answer, wire, posted,
                       hermesVars>>
    BY <1>4 DEF Ambiguous, rowVars
  <2> QED
    BY <1>1, <2>1, HandlerStep DEF Active
<1>5. ASSUME NEW a \in Results \cup PendingStates \cup Failures,
             stage[c] \in {"sent", "lookup"}, Answer(c, a),
             UNCHANGED <<request, input, wire, posted, hermesVars>>,
             a \in Results => reply[c] = a,
             \/ UNCHANGED rowVars
             \/ reply[c] \in Results \cup PendingStates /\ Store(c, reply[c])
      PROVE  IInv'
  <2>1. /\ stage' = [stage EXCEPT ![c] = "done"]
        /\ reply' = [reply EXCEPT ![c] = None]
        /\ answer' = [answer EXCEPT ![c] = a]
    BY <1>5 DEF Answer
  <2>2. /\ claimed' = claimed
        /\ state' \in [Requests -> {"absent", "pending", "complete"} \cup PendingStates]
        /\ response' \in [Requests -> Results \cup PendingStates \cup {None}]
        /\ \A r \in Requests :
             state'[r] = "complete" =>
               \/ state[r] = "complete" /\ response'[r] = response[r]
               \/ outcome[r] \in Results /\ response'[r] \in {outcome[r], None}
    BY <1>1, <1>5, StoreFacts DEF rowVars
  <2>3. a \in Results => outcome[request[c]] = a
    BY <1>5 DEF IInv, Agreed
  <2> QED
    BY <1>5, <2>1, <2>2, <2>3, HandlerStep DEF Active
<1>6. CASE TakeResult(c)
  <2>1. Readable(c) \subseteq Results
    BY DEF Readable, Results
  <2> QED
    BY <1>5, <1>6, <2>1 DEF TakeResult, Handles
<1>7. CASE TakePending(c)
  BY <1>5, <1>7 DEF TakePending, Handles, PendingStates, Results
<1>8. CASE TakeFailure(c)
  <2>1. /\ {"ambiguous_acceptance", "failed"} \subseteq Failures
        /\ {"ambiguous_acceptance", "failed"} \cap Results = {}
    BY DEF Failures, Results
  <2> QED
    BY <1>5, <1>8, <2>1 DEF TakeFailure, Handles
<1> QED
  BY <1>2, <1>3, <1>4, <1>6, <1>7, <1>8 DEF Handler

LEMMA RestartStep ==
  ASSUME IInv, Restart
  PROVE  IInv'
<1>1. /\ UNCHANGED <<claimed, state, response, request, input, answer, wire, posted, received,
                     outcome>>
      /\ reply' = [c \in Calls |-> None]
      /\ stage' = [c \in Calls |-> IF stage[c] \in {"post", "sent", "lookup"} THEN "done"
                                   ELSE stage[c]]
  BY DEF Restart, rowVars, hermesVars
<1>2. TypeOK' /\ Staged'
  BY <1>1 DEF IInv, TypeOK, Staged
<1>3. \A c \in Calls : Forwards(c)' => Forwards(c)
  BY <1>1 DEF Forwards
<1>4. Claimed' /\ Alone'
  BY <1>1, <1>3 DEF IInv, Claimed, Alone, Active
<1>5. Agreed'
  BY <1>1, NoneAssumption DEF IInv, Agreed, Replies
<1>6. AnswersAreTrue' /\ CompleteIsDecided'
  BY <1>1 DEF IInv, AnswersAreTrue, CompleteIsDecided
<1> QED
  BY <1>2, <1>4, <1>5, <1>6 DEF IInv

-----------------------------------------------------------------------------
(* Hermes *)

(* Hermes takes on the input a row has, never changes a decision, and only *)
(* answers calls that wait.                                                *)
LEMMA HermesStep ==
  ASSUME IInv,
         UNCHANGED <<rowVars, stage, request, input, answer, posted>>,
         wire' \subseteq wire,
         received' \in [Requests -> Inputs \cup {None}],
         outcome' \in [Requests -> Results \cup PendingStates \cup {None}],
         \A r \in Requests :
           /\ received'[r] \in {received[r], claimed[r]}
           /\ received[r] # None => received'[r] = received[r]
           /\ outcome[r] \in Results => outcome'[r] = outcome[r]
           /\ outcome'[r] # None <=> received'[r] # None,
         reply' \in [Calls -> Replies \cup {None}],
         \A c \in Calls :
           reply'[c] = reply[c]
             \/ /\ stage[c] \in {"sent", "lookup"}
                /\ reply'[c] \in Results => outcome'[request[c]] = reply'[c]
  PROVE  IInv'
<1>1. UNCHANGED <<claimed, state, response>>
  BY DEF rowVars
<1>2. TypeOK'
  BY <1>1 DEF IInv, TypeOK
<1>3. Staged' /\ Claimed' /\ Alone'
  BY <1>1 DEF IInv, Staged, Claimed, Alone, Forwards
<1>4. Agreed'
  <2>1. ASSUME NEW c \in Calls, reply'[c] \in Results
        PROVE  outcome'[request[c]] = reply'[c]
    <3>1. CASE reply'[c] = reply[c]
      <4>1. request[c] \in Requests /\ outcome[request[c]] = reply[c]
        BY <2>1, <3>1, NoneAssumption DEF IInv, Agreed, Staged, Replies
      <4> QED
        BY <2>1, <3>1, <4>1
    <3>2. CASE reply'[c] # reply[c]
      BY <2>1, <3>2
    <3> QED
      BY <3>1, <3>2
  <2>2. \A r \in Requests : received'[r] # None => received'[r] = claimed[r]
    BY DEF IInv, Agreed
  <2> QED
    BY <1>1, <2>1, <2>2 DEF Agreed
<1>5. AnswersAreTrue'
  <2> SUFFICES ASSUME NEW c \in Calls, answer[c] \in Results
               PROVE  /\ outcome'[request[c]] = answer[c]
                      /\ input[c] \in {received'[request[c]], None}
    BY DEF AnswersAreTrue
  <2>1. /\ request[c] \in Requests /\ outcome[request[c]] = answer[c]
        /\ input[c] \in {received[request[c]], None}
    BY NoneAssumption DEF IInv, Staged, AnswersAreTrue, Replies
  <2>2. received[request[c]] # None
    BY <2>1, NoneAssumption DEF IInv, Agreed, Replies
  <2> QED
    BY <2>1, <2>2
<1>6. CompleteIsDecided'
  BY <1>1 DEF IInv, CompleteIsDecided
<1> QED
  BY <1>2, <1>3, <1>4, <1>5, <1>6 DEF IInv

LEMMA ReceivesStep ==
  ASSUME IInv, NEW c \in Calls, HermesReceives(c)
  PROVE  IInv'
<1> DEFINE r == request[c]
<1>1. r \in Requests /\ input[c] = claimed[r] /\ input[c] \in Inputs
  BY DEF HermesReceives, IInv, TypeOK, Staged, Claimed, Forwards
<1>2. /\ wire' = wire \ {c}
      /\ UNCHANGED <<rowVars, stage, request, input, answer, posted>>
  BY DEF HermesReceives
<1>3. /\ received' \in [Requests -> Inputs \cup {None}]
      /\ outcome' \in [Requests -> Results \cup PendingStates \cup {None}]
      /\ outcome'[r] \in Results \cup PendingStates
      /\ \A q \in Requests :
           /\ received'[q] \in {received[q], claimed[q]}
           /\ received[q] # None => received'[q] = received[q]
           /\ outcome[q] \in Results => outcome'[q] = outcome[q]
           /\ outcome'[q] # None <=> received'[q] # None
  <2>1. CASE received[r] = None
    <3>1. PICK result \in Results \cup PendingStates :
            /\ received' = [received EXCEPT ![r] = input[c]]
            /\ outcome' = [outcome EXCEPT ![r] = result]
      BY <2>1 DEF HermesReceives, PendingStates
    <3>2. outcome[r] = None /\ result # None /\ input[c] # None
      BY <2>1, <1>1, NoneAssumption DEF IInv, Agreed, Replies
    <3>3. None \notin Results
      BY NoneAssumption DEF Replies
    <3> QED
      BY <2>1, <1>1, <3>1, <3>2, <3>3 DEF IInv, Agreed, TypeOK
  <2>2. CASE received[r] # None
    <3>1. UNCHANGED <<received, outcome>>
      BY <2>2 DEF HermesReceives, hermesVars
    <3> QED
      BY <2>2, <3>1, <1>1 DEF IInv, Agreed, TypeOK
  <2> QED
    BY <2>1, <2>2
<1>4. PICK document \in {outcome'[r], "unreadable"} : Reply(c, document)
  BY DEF HermesReceives
<1>5. document \in Replies /\ "unreadable" \notin Results
  BY <1>3 DEF Replies, Results
<1>6. /\ reply' \in [Calls -> Replies \cup {None}]
      /\ \A d \in Calls :
           reply'[d] = reply[d]
             \/ /\ stage[d] \in {"sent", "lookup"}
                /\ reply'[d] \in Results => outcome'[request[d]] = reply'[d]
  BY <1>4, <1>5 DEF Reply, IInv, TypeOK
<1> QED
  BY <1>2, <1>3, <1>6, HermesStep

LEMMA OutsideStep ==
  ASSUME IInv,
         \/ \E c \in Calls : HermesMissed(c) \/ HermesLooksUp(c)
         \/ \E r \in Requests : HermesDecides(r)
  PROVE  IInv'
<1>1. UNCHANGED hermesVars =>
        /\ received' \in [Requests -> Inputs \cup {None}]
        /\ outcome' \in [Requests -> Results \cup PendingStates \cup {None}]
        /\ \A r \in Requests :
             /\ received'[r] \in {received[r], claimed[r]}
             /\ received[r] # None => received'[r] = received[r]
             /\ outcome[r] \in Results => outcome'[r] = outcome[r]
             /\ outcome'[r] # None <=> received'[r] # None
  BY DEF IInv, Agreed, TypeOK, hermesVars
<1>2. ASSUME NEW c \in Calls, HermesMissed(c) PROVE IInv'
  <2>1. wire' \subseteq wire /\ UNCHANGED <<rowVars, callVars, posted, hermesVars>>
    BY <1>2 DEF HermesMissed
  <2>2. reply' \in [Calls -> Replies \cup {None}]
    BY <2>1 DEF callVars, IInv, TypeOK
  <2> QED
    BY <1>1, <2>1, <2>2, HermesStep DEF callVars
<1>3. ASSUME NEW c \in Calls, HermesLooksUp(c) PROVE IInv'
  <2>1. PICK document \in {IF received[request[c]] = None THEN "not_found"
                           ELSE outcome[request[c]], "unreachable"} :
          reply' = [reply EXCEPT ![c] = document]
    BY <1>3 DEF HermesLooksUp
  <2>2. /\ stage[c] = "lookup" /\ request[c] \in Requests
        /\ UNCHANGED <<rowVars, stage, request, input, answer, wire, posted, hermesVars>>
    BY <1>3 DEF HermesLooksUp, IInv, Staged
  <2>3. /\ document \in Replies
        /\ document \in Results => outcome[request[c]] = document
    BY <2>1, <2>2 DEF IInv, Agreed, TypeOK, Replies, Results
  <2>4. /\ reply' \in [Calls -> Replies \cup {None}]
        /\ \A d \in Calls :
             reply'[d] = reply[d]
               \/ /\ stage[d] \in {"sent", "lookup"}
                  /\ reply'[d] \in Results => outcome'[request[d]] = reply'[d]
    BY <2>1, <2>2, <2>3 DEF IInv, TypeOK, hermesVars
  <2> QED
    BY <1>1, <2>2, <2>4, HermesStep
<1>4. ASSUME NEW r \in Requests, HermesDecides(r) PROVE IInv'
  <2>1. PICK result \in Results \cup {"outcome_unknown"} :
          outcome' = [outcome EXCEPT ![r] = result]
    BY <1>4 DEF HermesDecides
  <2>2. /\ outcome[r] = "in_progress" /\ received' = received
        /\ UNCHANGED <<rowVars, callVars, wire, posted>>
    BY <1>4 DEF HermesDecides
  <2>3. /\ result \in Results \cup PendingStates /\ result # None
        /\ outcome[r] # None /\ outcome[r] \notin Results
    BY <2>2, NoneAssumption DEF PendingStates, Replies, Results
  <2>4. /\ received' \in [Requests -> Inputs \cup {None}]
        /\ outcome' \in [Requests -> Results \cup PendingStates \cup {None}]
        /\ \A q \in Requests :
             /\ received'[q] \in {received[q], claimed[q]}
             /\ received[q] # None => received'[q] = received[q]
             /\ outcome[q] \in Results => outcome'[q] = outcome[q]
             /\ outcome'[q] # None <=> received'[q] # None
    BY <2>1, <2>2, <2>3 DEF IInv, Agreed, TypeOK
  <2>5. reply' \in [Calls -> Replies \cup {None}]
    BY <2>2 DEF callVars, IInv, TypeOK
  <2> QED
    BY <2>2, <2>4, <2>5, HermesStep DEF callVars
<1> QED
  BY <1>2, <1>3, <1>4

LEMMA StutterStep ==
  ASSUME IInv, UNCHANGED vars
  PROVE  IInv'
<1>1. UNCHANGED <<claimed, state, response, stage, request, input, reply, answer, wire, posted,
                  received, outcome>>
  BY DEF vars, rowVars, callVars, hermesVars
<1>2. TypeOK' /\ Staged' /\ Claimed' /\ Alone'
  BY <1>1 DEF IInv, TypeOK, Staged, Claimed, Alone, Forwards
<1>3. Agreed' /\ AnswersAreTrue' /\ CompleteIsDecided'
  BY <1>1 DEF IInv, Agreed, AnswersAreTrue, CompleteIsDecided
<1> QED
  BY <1>2, <1>3 DEF IInv

LEMMA NextIInv == IInv /\ [Next]_vars => IInv'
BY ArrivalStep, CallStep, ReceivesStep, OutsideStep, RestartStep, StutterStep DEF Next

-----------------------------------------------------------------------------
(* Theorems *)

(* The rows of the store, the calls that work on them and Hermes agree     *)
(* about every request (RealtimeMappingStore, RealtimeProxyService).       *)
THEOREM Consistent == Spec => []IInv
BY InitIInv, NextIInv, PTL DEF Spec

(* Type correctness. *)
THEOREM TypeCorrect == Spec => []TypeOK
<1>1. IInv => TypeOK
  BY DEF IInv
<1> QED
  BY Consistent, <1>1, PTL

(* A mutation of a session is sent to Hermes once, whatever is repeated,   *)
(* lost or restarted (claim_request is one transaction with the insert).   *)
THEOREM SentOnce == Spec => []ForwardedOnce
<1>1. IInv => ForwardedOnce
  BY DEF IInv, Alone, ForwardedOnce, Forwards, TypeOK
<1> QED
  BY Consistent, <1>1, PTL

(* A browser is told what Hermes decided, about the input it sent: by the  *)
(* call itself, by a repetition of it, or by a look at its result.         *)
THEOREM AnswersTrue == Spec => []AnswersAreTrue
<1>1. IInv => AnswersAreTrue
  BY DEF IInv
<1> QED
  BY Consistent, <1>1, PTL
=============================================================================
