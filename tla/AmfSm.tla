------------------------------- MODULE AmfSm --------------------------------
(***************************************************************************)
(* 5gc/amf AmfSm: the state machine of the one UE the AMF serves (all its  *)
(* handlers use the SUPI "unknown_supi"), fed by SBI requests (as the HTTP *)
(* server derives them from URIs), N1 and N2 messages and bare events.     *)
(* No lock is held: the calls of two threads interleave.  The counters of  *)
(* messages and attempts, the RAN node and the TAI are left out.           *)
(***************************************************************************)
EXTENDS Integers, FiniteSets

CONSTANTS Callers,     \* the threads that call into the AMF
          MaxActive    \* bound on activeUeConnections

VARIABLES currentState_, activeUeConnections,
          ueContext,   \* the context of "unknown_supi": registration and
                       \* connection state and its one PDU session, or NoContext
          managers,    \* ueContextManager_ and the others are set
          doing,       \* doing[t]: Idle, an event to handle or a transition to make
          creates      \* 201 answers to UE_CONTEXT_CREATE since the last deregistration

amfVars == <<currentState_, activeUeConnections, ueContext, managers, doing, creates>>

NoContext == [reg |-> "none", conn |-> "none", session |-> FALSE]
Idle == [step |-> "idle", arg |-> "none"]

\* initialize sets the managers one by one before it blocks in registerWithNrf;
\* the HTTP server never calls it, and tests pointers that nobody has set.  They
\* are taken as null: with anything else the first use ends the process.
AmfInit ==
    /\ currentState_ = "DEREGISTERED" /\ activeUeConnections = 0
    /\ ueContext = NoContext
    /\ managers \in BOOLEAN
    /\ doing = [t \in Callers |-> Idle]
    /\ creates = 0

-----------------------------------------------------------------------------
(* What each state makes of an event: the work to do and the next state.   *)

Handling(work, to) == [work |-> work, to |-> to]
Ignored == Handling("nothing", "none")

handleDeregisteredState(e) ==
    IF e \in {"REGISTRATION_REQUEST", "EMERGENCY_REGISTRATION"}
    THEN Handling("register", "REGISTERED_CONNECTED")
    ELSE Ignored

handleRegisteredIdleState(e) ==
    CASE e \in {"SERVICE_REQUEST", "EMERGENCY_SERVICE_REQUEST", "PAGING_RESPONSE"}
              -> Handling("nothing", "REGISTERED_CONNECTED")
      [] e = "HANDOVER_REQUEST" -> Handling("move", "REGISTERED_CONNECTED")
      [] e = "TRACKING_AREA_UPDATE" -> Handling("move", "none")
      [] e = "PDU_SESSION_ESTABLISHMENT_REQUEST"
              -> Handling("establish", "REGISTERED_CONNECTED")
      [] e \in {"DEREGISTER_REQUEST", "TIMEOUT_T3511", "NETWORK_FAILURE"}
              -> Handling("deregister", "DEREGISTERED")
      [] e = "PERIODIC_REGISTRATION_UPDATE"
              -> Handling("register", "none")
      [] OTHER -> Ignored

handleRegisteredConnectedState(e) ==
    CASE e \in {"AN_RELEASE", "CONNECTION_RELEASE"}
              -> Handling("nothing", "REGISTERED_IDLE")
      [] e = "HANDOVER_COMPLETE" -> Handling("move", "REGISTERED_IDLE")
      [] e \in {"AUTHENTICATION_REQUEST", "AUTHENTICATION_RESPONSE"}
              -> Handling("authenticate", "none")
      [] e = "PDU_SESSION_RELEASE_REQUEST"
              -> Handling("release", "REGISTERED_IDLE")
      [] e \in {"DEREGISTER_REQUEST", "DEREGISTER_ACCEPT", "NETWORK_FAILURE", "AUTHENTICATION_FAILURE"}
              -> Handling("deregister", "DEREGISTERED")
      [] OTHER -> Ignored

HandlingOf(e) ==
    CASE currentState_ = "DEREGISTERED" -> handleDeregisteredState(e)
      [] currentState_ = "REGISTERED_IDLE" -> handleRegisteredIdleState(e)
      [] OTHER -> handleRegisteredConnectedState(e)

-----------------------------------------------------------------------------
(* The work.  Without managers or context the helpers return false and the *)
(* state handlers carry on all the same.                                   *)

Less1(n) == IF n > 0 THEN n - 1 ELSE 0

processRegistrationRequest ==
    IF ~managers THEN UNCHANGED <<ueContext, activeUeConnections>>
    ELSE /\ ueContext' = [reg |-> "REGISTERED", conn |-> "CONNECTED", session |-> ueContext.session]
         /\ activeUeConnections' = activeUeConnections + 1

\* Mutant: the context keeps its registration state.
processDeregistrationForgets ==
    IF ueContext = NoContext THEN UNCHANGED <<ueContext, activeUeConnections>>
    ELSE /\ ueContext' = [ueContext EXCEPT !.conn = "IDLE"]
         /\ activeUeConnections' = Less1(activeUeConnections)

processDeregistrationRequest ==
    IF ueContext = NoContext THEN UNCHANGED <<ueContext, activeUeConnections>>
    ELSE /\ ueContext' = [ueContext EXCEPT !.reg = "DEREGISTERED", !.conn = "IDLE"]
         /\ activeUeConnections' = Less1(activeUeConnections)

\* addPduSession replaces a session of the same id; removePduSession may find none.
StoreSession(present) == [ueContext EXCEPT !.session = present]

PduSessionChange(present) ==
    /\ ueContext' = IF ueContext = NoContext THEN NoContext ELSE StoreSession(present)
    /\ UNCHANGED activeUeConnections

\* Handovers and tracking-area updates write the RAN node and the TAI,
\* authentication only its counters.
MobilityWork == UNCHANGED <<ueContext, activeUeConnections>>
AuthenticationWork == UNCHANGED <<ueContext, activeUeConnections>>

Work(w) ==
    CASE w = "register" -> processRegistrationRequest
      [] w = "deregister" -> processDeregistrationRequest
      [] w \in {"establish", "release"} -> PduSessionChange(w = "establish")
      [] w = "move" -> MobilityWork
      [] w = "authenticate" -> AuthenticationWork
      [] OTHER -> UNCHANGED <<ueContext, activeUeConnections>>

\* handleEvent up to the handler's transitionTo.
handleEvent(t) ==
    /\ doing[t].step = "event"
    /\ LET h == HandlingOf(doing[t].arg) IN
       /\ h.work = "register" => activeUeConnections < MaxActive
       /\ Work(h.work)
       /\ doing' = [doing EXCEPT ![t] = IF h.to = "none" THEN Idle ELSE [step |-> "transition", arg |-> h.to]]
    /\ UNCHANGED <<currentState_, managers, creates>>

transitionTo(t) ==
    /\ doing[t].step = "transition"
    /\ LET new == doing[t].arg IN
       /\ activeUeConnections' =
             CASE new = currentState_ -> activeUeConnections
               [] new # currentState_ /\ new = "REGISTERED_CONNECTED" -> activeUeConnections + 1
               [] new # currentState_ /\ currentState_ = "REGISTERED_CONNECTED" -> Less1(activeUeConnections)
               [] OTHER -> activeUeConnections
       /\ currentState_' = new
       /\ creates' = IF new = "DEREGISTERED" THEN 0 ELSE creates
    /\ doing' = [doing EXCEPT ![t] = Idle]
    /\ UNCHANGED <<ueContext, managers>>

-----------------------------------------------------------------------------
(* Where events come from *)

Services == {"namf-comm", "nausf-auth", "nsmf-pdusession", "npcf-am-policy", "nnrf-nfm"}
Resources == {"ue-contexts", "authentications", "pdu-sessions", "registrations", "deregistrations", "other"}
Methods == {"POST", "PUT", "DELETE", "GET"}

\* HttpSbiServer::determineMessageType; /pdu-sessions has no type of its own.
determineMessageType(resource, method) ==
    CASE resource = "ue-contexts" /\ method = "PUT" -> "UE_CONTEXT_UPDATE_REQUEST"
      [] resource \in {"ue-contexts", "pdu-sessions"} /\ method = "DELETE" -> "UE_CONTEXT_RELEASE_REQUEST"
      [] resource = "authentications" -> "UE_AUTHENTICATION_REQUEST"
      [] resource = "deregistrations" -> "UE_CONTEXT_RELEASE_REQUEST"
      [] OTHER -> "UE_CONTEXT_CREATE_REQUEST"

HttpRequests == {<<s, determineMessageType(r, m)>> : s \in Services, r \in Resources, m \in Methods}
OtherRequests ==
    {<<"nsmf-pdusession", "PDU_SESSION_CREATE_SM_CONTEXT_REQUEST">>,
     <<"nsmf-pdusession", "PDU_SESSION_RELEASE_SM_CONTEXT_REQUEST">>,
     <<"npcf-am-policy", "AM_POLICY_CONTROL_CREATE_REQUEST">>}

\* The answer to a request and the event it causes ("none": no answer, no event).
Answer(code, event) == [code |-> code, event |-> event]

handleRegistrationSbiMessages(type) ==
    CASE type = "UE_CONTEXT_CREATE_REQUEST" ->
              IF currentState_ = "DEREGISTERED" THEN Answer(201, "REGISTRATION_REQUEST")
                                                ELSE Answer(409, "none")
      [] type = "UE_CONTEXT_RELEASE_REQUEST" -> Answer(200, "DEREGISTER_REQUEST")
      [] OTHER -> Answer(0, "none")

handleSessionSbiMessages(type) ==
    CASE type = "PDU_SESSION_CREATE_SM_CONTEXT_REQUEST" ->
              IF currentState_ = "DEREGISTERED" THEN Answer(403, "none")
                                                ELSE Answer(201, "PDU_SESSION_ESTABLISHMENT_REQUEST")
      [] type = "PDU_SESSION_RELEASE_SM_CONTEXT_REQUEST" -> Answer(200, "PDU_SESSION_RELEASE_REQUEST")
      [] OTHER -> Answer(0, "none")

handleAuthenticationSbiMessages(type) ==
    IF type = "UE_AUTHENTICATION_REQUEST" THEN Answer(200, "AUTHENTICATION_REQUEST") ELSE Answer(0, "none")

handlePolicyControlSbiMessages(type) ==
    IF type = "AM_POLICY_CONTROL_CREATE_REQUEST" THEN Answer(201, "none") ELSE Answer(0, "none")

processSbiRequest(service, type) ==
    CASE service = "namf-comm" -> handleRegistrationSbiMessages(type)
      [] service = "nsmf-pdusession" -> handleSessionSbiMessages(type)
      [] service = "nausf-auth" -> handleAuthenticationSbiMessages(type)
      [] service = "npcf-am-policy" -> handlePolicyControlSbiMessages(type)
      [] OTHER -> Answer(0, "none")

Begin(t, e) == doing' = [doing EXCEPT ![t] = IF e = "none" THEN Idle ELSE [step |-> "event", arg |-> e]]

handleSbiMessage(t, r) ==
    /\ doing[t] = Idle
    /\ LET a == processSbiRequest(r[1], r[2]) IN
       /\ Begin(t, a.event)
       /\ creates' = IF r[2] = "UE_CONTEXT_CREATE_REQUEST" /\ a.code = 201 THEN creates + 1 ELSE creates
    /\ UNCHANGED <<currentState_, activeUeConnections, ueContext, managers>>

\* Messages of the N1 and N2 interfaces that cause an event.
N1Events == {"REGISTRATION_REQUEST", "DEREGISTER_REQUEST", "SERVICE_REQUEST",
             "AUTHENTICATION_RESPONSE", "SECURITY_MODE_COMPLETE"}
N2Events == {"CONNECTION_RELEASE", "HANDOVER_COMPLETE"}

\* Events that reach the machine only by a call of handleEvent.
BareEvents == {"EMERGENCY_REGISTRATION", "PERIODIC_REGISTRATION_UPDATE", "HANDOVER_REQUEST",
               "TRACKING_AREA_UPDATE", "EMERGENCY_SERVICE_REQUEST", "PAGING_RESPONSE",
               "AN_RELEASE", "DEREGISTER_ACCEPT", "TIMEOUT_T3511", "AUTHENTICATION_FAILURE",
               "NETWORK_FAILURE"}

handleMessage(t, e) ==
    /\ doing[t] = Idle
    /\ Begin(t, e)
    /\ UNCHANGED <<currentState_, activeUeConnections, ueContext, managers, creates>>

removeUeContext(t) ==
    /\ doing[t] = Idle /\ ueContext # NoContext
    /\ ueContext' = NoContext
    /\ UNCHANGED <<currentState_, activeUeConnections, managers, doing, creates>>

\* Only contexts that are deregistered are old enough to go.
cleanupInactiveContexts(t) ==
    /\ doing[t] = Idle /\ ueContext.reg = "DEREGISTERED"
    /\ ueContext' = NoContext
    /\ UNCHANGED <<currentState_, activeUeConnections, managers, doing, creates>>

AmfNext ==
    \E t \in Callers :
        \/ handleEvent(t) \/ transitionTo(t) \/ removeUeContext(t) \/ cleanupInactiveContexts(t)
        \/ \E r \in HttpRequests \cup OtherRequests : handleSbiMessage(t, r)
        \/ \E e \in N1Events \cup N2Events \cup BareEvents : handleMessage(t, e)

AmfSpec == AmfInit /\ [][AmfNext]_amfVars

-----------------------------------------------------------------------------
Quiet == \A t \in Callers : doing[t] = Idle

\* Between calls the context of the UE, which the helpers keep in the context
\* manager, says it is registered exactly when the state machine does.
ContextFollowsState ==
    Quiet /\ ueContext # NoContext => (ueContext.reg = "REGISTERED" <=> currentState_ # "DEREGISTERED")

\* activeUeConnections, which calculateCurrentLoad takes the load from, is raised
\* and lowered both by the helpers and by transitionTo; it never falls below what
\* the state and the context stand for, so the clamps at 0 hide no loss.
NeverUndercounted ==
    Quiet => activeUeConnections >= (IF currentState_ = "REGISTERED_CONNECTED" THEN 1 ELSE 0)
                                    + (IF ueContext.reg = "REGISTERED" THEN 1 ELSE 0)

\* A UE context is answered "created" once: later requests are answered 409 until
\* the UE is deregistered.  handleRegistrationSbiMessages tests the state long
\* before handleEvent changes it.
CreatedOnce == creates <= 1

\* So the three places that know about the UE agree between calls.
AmfIsConsistent == ContextFollowsState /\ NeverUndercounted /\ CreatedOnce
=============================================================================
