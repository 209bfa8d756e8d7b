---------------------------- MODULE NfManagement ----------------------------
(***************************************************************************)
(* 5gc/amf NfManager: the network functions known to the AMF, an index of  *)
(* them by type, heartbeats, and the thread that suspends instances without*)
(* heartbeat and later removes them.  Every method runs under nfMutex_;    *)
(* selectNfInstance, which changes nothing, takes it twice.                *)
(* A machine of its own is the AMF's own instance: AmfSm::initialize and   *)
(* shutdown (under amfMutex_), which start and stop the heartbeats of      *)
(* AmfNfInstance (under instanceMutex_) and the monitoring thread.         *)
(***************************************************************************)
EXTENDS Naturals, Sequences, SequencesExt

CONSTANTS NfIds, NfTypes,
          HealthyFor, ExpireAfter,  \* 60 and 120 seconds in the code
          MaxListed                 \* bound on the index lists together

VARIABLES nfInstances_,        \* id -> instance, on the registered ids: type, status,
                               \* age of the last heartbeat, and whether heartbeats
                               \* were always in time and no other status was set
          nfInstancesByType_,  \* type -> list of ids
          running, checker     \* the flag; the health-check thread

\* AmfSm and AmfNfInstance
VARIABLES amfMutex_, instanceMutex_,   \* the thread that holds it, or "free"
          isInitialized_, registered_, heartbeatRunning_, monitoringRunning_,
          heartbeatThread_, monitoringThread_,
          starter, stopper,            \* in initialize; in shutdown
          lastHeartbeat                \* a heartbeat was sent

nfVars == <<nfInstances_, nfInstancesByType_, running, checker>>

\* UNDISCOVERABLE and DEREGISTERED are told apart by nobody.
NfStatus == {"REGISTERED", "SUSPENDED", "UNDISCOVERABLE"}
Registered == DOMAIN nfInstances_

\* Ages are counted up to the first value at which an instance expires.
Oldest == ExpireAfter + 1

NfInit ==
    /\ nfInstances_ = [i \in {} |-> 0]
    /\ nfInstancesByType_ = [t \in NfTypes |-> <<>>]
    /\ running = FALSE /\ checker = "none"

isHealthy(n) == n.nfStatus = "REGISTERED" /\ n.age < HealthyFor

Update(i, n) == nfInstances_' = [nfInstances_ EXCEPT ![i] = n]

\* The clock: every instance's last heartbeat is one unit further back.
NfTick ==
    /\ \E i \in Registered : nfInstances_[i].age < Oldest
    /\ nfInstances_' = [i \in Registered |->
                           [nfInstances_[i] EXCEPT !.age = IF @ < Oldest THEN @ + 1 ELSE @,
                                                   !.steady = @ /\ nfInstances_[i].age + 1 < HealthyFor]]
    /\ UNCHANGED <<nfInstancesByType_, running, checker>>

-----------------------------------------------------------------------------
\* The status is the caller's, and every caller says REGISTERED.
registerNfInstance(i, t) ==
    /\ i \notin Registered /\ MapThenSumSet(LAMBDA u : Len(nfInstancesByType_[u]), NfTypes) < MaxListed
    /\ nfInstances_' = [j \in Registered \cup {i} |->
                           IF j = i THEN [nfType |-> t, nfStatus |-> "REGISTERED", age |-> 0, steady |-> TRUE]
                                    ELSE nfInstances_[j]]
    /\ nfInstancesByType_' = [nfInstancesByType_ EXCEPT ![t] = Append(@, i)]
    /\ UNCHANGED <<running, checker>>

\* The index by type keeps the id.
deregisterNfInstance(i) ==
    /\ i \in Registered
    /\ nfInstances_' = [j \in Registered \ {i} |-> nfInstances_[j]]
    /\ UNCHANGED <<nfInstancesByType_, running, checker>>

updateNfStatus(i, s) ==
    /\ i \in Registered
    /\ Update(i, [nfInstances_[i] EXCEPT !.nfStatus = s, !.age = 0, !.steady = @ /\ s = "REGISTERED"])
    /\ UNCHANGED <<nfInstancesByType_, running, checker>>

\* A heartbeat does not take a suspension back.
processHeartbeat(i) ==
    /\ i \in Registered
    /\ Update(i, [nfInstances_[i] EXCEPT !.age = 0])
    /\ UNCHANGED <<nfInstancesByType_, running, checker>>

\* The instances discoverNfInstances returns, sorted by priority and load.
Candidates(t) == {i \in Registered : nfInstances_[i].nfType = t /\ isHealthy(nfInstances_[i])}

-----------------------------------------------------------------------------
(* The health-check thread; start() and stop() *)

start ==
    /\ ~running /\ checker = "none"
    /\ running' = TRUE /\ checker' = "sleep"
    /\ UNCHANGED <<nfInstances_, nfInstancesByType_>>

\* stop() returns when the thread has ended.
stop ==
    /\ running
    /\ running' = FALSE
    /\ UNCHANGED <<nfInstances_, nfInstancesByType_, checker>>

CheckerWakes ==
    /\ checker \in {"sleep", "top"}
    /\ checker' = IF ~running THEN "none" ELSE IF checker = "top" THEN "sleep" ELSE "check"
    /\ UNCHANGED <<nfInstances_, nfInstancesByType_, running>>

performHealthCheck ==
    /\ checker = "check" /\ checker' = "cleanup"
    /\ nfInstances_' = [i \in Registered |->
                           IF isHealthy(nfInstances_[i]) THEN nfInstances_[i]
                           ELSE [nfInstances_[i] EXCEPT !.nfStatus = "SUSPENDED"]]
    /\ UNCHANGED <<nfInstancesByType_, running>>

Expired == {i \in Registered : nfInstances_[i].age > ExpireAfter}

\* Mutant: the list of the type is emptied.
cleanupEmptiesList ==
    /\ checker = "cleanup" /\ checker' = "top"
    /\ nfInstances_' = [i \in Registered \ Expired |-> nfInstances_[i]]
    /\ nfInstancesByType_' = [t \in NfTypes |->
          IF \E i \in Expired : nfInstances_[i].nfType = t THEN <<>> ELSE nfInstancesByType_[t]]
    /\ UNCHANGED running

cleanupExpiredNfInstances ==
    /\ checker = "cleanup" /\ checker' = "top"
    /\ nfInstances_' = [i \in Registered \ Expired |-> nfInstances_[i]]
    /\ nfInstancesByType_' = [t \in NfTypes |->
          SelectSeq(nfInstancesByType_[t], LAMBDA i : ~(i \in Expired /\ nfInstances_[i].nfType = t))]
    /\ UNCHANGED running

Checker == CheckerWakes \/ performHealthCheck \/ cleanupExpiredNfInstances

NfNext ==
    \/ NfTick \/ start \/ stop \/ Checker
    \/ \E i \in NfIds :
          \/ deregisterNfInstance(i) \/ processHeartbeat(i)
          \/ \E s \in NfStatus : updateNfStatus(i, s)
          \/ \E t \in NfTypes : registerNfInstance(i, t)

\* The health-check thread is scheduled, and its sleeps end.
NfFairness == WF_nfVars(Checker)

NfSpec == NfInit /\ [][NfNext]_nfVars /\ NfFairness

-----------------------------------------------------------------------------
\* Every registered instance is in the index of its type, under which
\* getNfStatistics counts it, whatever registrations, expirations and
\* deregistrations (which leave their entry behind) came before; and one whose
\* heartbeats were never late is found by discoverNfInstances, however the health
\* check and the clock interleave with them.
RegistryServes ==
    \A i \in Registered :
        LET n == nfInstances_[i] IN
        /\ Contains(nfInstancesByType_[n.nfType], i)
        /\ n.steady => i \in Candidates(n.nfType)

-----------------------------------------------------------------------------
(* The AMF's own instance *)

startupVars == <<amfMutex_, instanceMutex_, isInitialized_, registered_, heartbeatRunning_,
          monitoringRunning_, heartbeatThread_, monitoringThread_, starter, stopper,
          lastHeartbeat>>

StartupInit ==
    /\ amfMutex_ = "free" /\ instanceMutex_ = "free"
    /\ isInitialized_ = FALSE /\ registered_ = FALSE
    /\ heartbeatRunning_ = FALSE /\ monitoringRunning_ = FALSE
    /\ heartbeatThread_ = "none" /\ monitoringThread_ = "none"
    /\ starter = "called" /\ stopper = "idle"
    /\ lastHeartbeat = FALSE

\* initialize up to registerWithNrf: a second call returns false, and so does one
\* that cannot start the N1/N2 service.
initialize ==
    /\ starter = "called" /\ amfMutex_ = "free" /\ instanceMutex_ = "free"
    /\ \/ starter' = "returned" /\ UNCHANGED amfMutex_
       \/ ~isInitialized_ /\ starter' = "register" /\ amfMutex_' = "starter"
    /\ UNCHANGED <<instanceMutex_, isInitialized_, registered_, heartbeatRunning_,
                   monitoringRunning_, heartbeatThread_, monitoringThread_, stopper, lastHeartbeat>>

registerWithNrf ==
    /\ starter = "register" /\ instanceMutex_ = "free"
    /\ instanceMutex_' = "starter" /\ registered_' = TRUE
    /\ starter' = "heartbeat"
    /\ UNCHANGED <<amfMutex_, isInitialized_, heartbeatRunning_, monitoringRunning_,
                   heartbeatThread_, monitoringThread_, stopper, lastHeartbeat>>

\* Called by registerWithNrf, it locks instanceMutex_ for itself; then the lambda
\* runs, registerWithNrf returns and gives its lock back, and initialize goes on
\* to the other instances and the monitoring thread.
startHeartbeatService ==
    /\ starter = "heartbeat" /\ instanceMutex_ = "free"
    /\ heartbeatRunning_' = TRUE /\ heartbeatThread_' = "running"
    /\ monitoringRunning_' = TRUE /\ monitoringThread_' = "running"
    /\ isInitialized_' = TRUE
    /\ instanceMutex_' = "free" /\ amfMutex_' = "free"
    /\ starter' = "returned"
    /\ UNCHANGED <<registered_, stopper, lastHeartbeat>>

sendHeartbeat ==
    /\ heartbeatThread_ = "running" /\ instanceMutex_ = "free"
    /\ lastHeartbeat' = (lastHeartbeat \/ registered_)
    /\ heartbeatThread_' = IF heartbeatRunning_ THEN "running" ELSE "ended"
    /\ UNCHANGED <<amfMutex_, instanceMutex_, isInitialized_, registered_, heartbeatRunning_,
                   monitoringRunning_, monitoringThread_, starter, stopper>>

\* updateLoad takes instanceMutex_.
monitoringLoop ==
    /\ monitoringThread_ = "running" /\ instanceMutex_ = "free"
    /\ monitoringThread_' = IF monitoringRunning_ THEN "running" ELSE "ended"
    /\ UNCHANGED <<amfMutex_, instanceMutex_, isInitialized_, registered_, heartbeatRunning_,
                   monitoringRunning_, heartbeatThread_, starter, stopper, lastHeartbeat>>

\* shutdown from another thread: it stops and joins both threads.
shutdown ==
    /\ stopper = "idle" /\ amfMutex_ = "free"
    /\ \/ ~isInitialized_ /\ UNCHANGED <<amfMutex_, monitoringRunning_, heartbeatRunning_, stopper>>
       \/ /\ isInitialized_ /\ amfMutex_' = "stopper" /\ stopper' = "joining"
          /\ monitoringRunning_' = FALSE /\ heartbeatRunning_' = FALSE
    /\ UNCHANGED <<instanceMutex_, isInitialized_, registered_, heartbeatThread_,
                   monitoringThread_, starter, lastHeartbeat>>

shutdownJoins ==
    /\ stopper = "joining" /\ monitoringThread_ = "ended" /\ heartbeatThread_ = "ended"
    /\ isInitialized_' = FALSE /\ amfMutex_' = "free" /\ stopper' = "done"
    /\ UNCHANGED <<instanceMutex_, registered_, heartbeatRunning_, monitoringRunning_,
                   heartbeatThread_, monitoringThread_, starter, lastHeartbeat>>

Starter == initialize \/ registerWithNrf \/ startHeartbeatService

StartupNext == Starter \/ sendHeartbeat \/ monitoringLoop \/ shutdown \/ shutdownJoins

\* Every thread that is not blocked runs.
StartupSpec ==
    /\ NfInit /\ StartupInit /\ [][StartupNext /\ UNCHANGED nfVars]_<<startupVars, nfVars>>
    /\ WF_startupVars(Starter) /\ WF_startupVars(sendHeartbeat)
    /\ WF_startupVars(monitoringLoop) /\ WF_startupVars(shutdownJoins)

\* The README: the heartbeat service "maintains the heartbeat connection with the
\* NRF" once the AMF is registered.  registerWithNrf waits for a lock it holds.
HeartbeatsFollowRegistration == registered_ ~> lastHeartbeat
=============================================================================
