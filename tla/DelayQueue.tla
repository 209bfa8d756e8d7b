----------------------------- MODULE DelayQueue -----------------------------
(***************************************************************************)
(* Stddelay_queue/delay_queue.hpp: a queue whose elements may be taken     *)
(* once their expiry has passed.  Time runs in ticks, TicksPerMs of them a *)
(* millisecond, because getRemainingDelay rounds to milliseconds.          *)
(***************************************************************************)
EXTENDS Integers, Sequences, FiniteSets

CONSTANTS Consumers, Elements,
          Delays, Timeouts,   \* the delay_ms and timeout_ms callers use
          TicksPerMs, MaxTime \* the resolution of the clock; bound on time

VARIABLES now, queue_, running_,
          expiry,               \* of each element; 0: not put yet
          draft, toNotify,      \* elements put but not pushed; notifications owed
          pc, mode, timeout_point,   \* the consumers
          waiting, deadline,         \* cv_
          taken                      \* history

vars == <<now, queue_, running_, expiry, draft, toNotify, pc, mode, timeout_point, waiting,
          deadline, taken>>

Never == MaxTime + 1

\* A consumer waits for an element or, with a top that has not expired, for that.
Waits(c) == pc[c] \in {"empty", "wait"}

Init ==
    /\ now = 1 /\ running_ = TRUE /\ queue_ = {} /\ draft = {} /\ toNotify = {}
    /\ expiry = [e \in Elements |-> 0]
    /\ pc = [c \in Consumers |-> "idle"] /\ mode = [c \in Consumers |-> "take"]
    /\ timeout_point = [c \in Consumers |-> 0]
    /\ waiting = {} /\ deadline = [c \in Consumers |-> 0]
    /\ taken = <<>>

consumerVars == <<pc, mode, timeout_point, waiting, deadline>>
takeVars == <<queue_, taken>>

Tick ==
    /\ now < MaxTime /\ now' = now + 1
    /\ UNCHANGED <<queue_, running_, expiry, draft, toNotify, consumerVars, taken>>

-----------------------------------------------------------------------------
(* Elements *)

IsExpired(e) == now >= expiry[e]

\* In milliseconds: duration_cast drops the fraction.
GetRemainingDelay(e) ==
    IF IsExpired(e) THEN 0 ELSE (expiry[e] - now) \div TicksPerMs

\* Mutant: the comparator is turned round, the last to expire is at the top.
TopIsLast(e) == e \in queue_ /\ \A x \in queue_ : expiry[x] <= expiry[e]

\* Elements of the same expiry come in any order.
Top(e) == e \in queue_ /\ \A x \in queue_ : expiry[e] <= expiry[x]

TakeElement(e) ==
    /\ queue_' = queue_ \ {e}
    /\ taken' = Append(taken, [e |-> e, rivals |-> queue_ \ {e}])

-----------------------------------------------------------------------------
(* put: the expiry is computed before the lock, cv_ notified after it *)

Put(e, delay) ==
    /\ expiry[e] = 0 /\ now + delay * TicksPerMs <= MaxTime
    /\ expiry' = [expiry EXCEPT ![e] = now + delay * TicksPerMs]
    /\ draft' = draft \cup {e}
    /\ UNCHANGED <<now, running_, toNotify, consumerVars, takeVars>>

\* Bound: the next push waits until the last one has notified.
Push(e) ==
    /\ e \in draft /\ draft' = draft \ {e}
    /\ queue_' = queue_ \cup {e}
    /\ "one" \notin toNotify /\ toNotify' = toNotify \cup {"one"}
    /\ UNCHANGED <<now, running_, expiry, consumerVars, taken>>

NotifyOne ==
    /\ "one" \in toNotify /\ toNotify' = toNotify \ {"one"}
    /\ IF waiting = {} THEN UNCHANGED waiting
                       ELSE \E c \in waiting : waiting' = waiting \ {c}
    /\ UNCHANGED <<now, running_, expiry, draft, pc, mode, timeout_point, deadline,
                   takeVars>>

NotifyAll ==
    /\ "all" \in toNotify /\ toNotify' = toNotify \ {"all"}
    /\ waiting' = {}
    /\ UNCHANGED <<now, running_, expiry, draft, pc, mode, timeout_point, deadline,
                   takeVars>>

-----------------------------------------------------------------------------
(* take, with and without timeout_ms *)

Call(c, m, timeout) ==
    /\ pc[c] = "idle" /\ now + timeout * TicksPerMs <= MaxTime
    /\ pc' = [pc EXCEPT ![c] = "loop"] /\ mode' = [mode EXCEPT ![c] = m]
    /\ timeout_point' = [timeout_point EXCEPT
                            ![c] = IF m = "take" THEN 0 ELSE now + timeout * TicksPerMs]
    /\ UNCHANGED <<now, running_, expiry, draft, toNotify, waiting, deadline, takeVars>>

Return(c) ==
    /\ pc' = [pc EXCEPT ![c] = "idle"]
    /\ timeout_point' = [timeout_point EXCEPT ![c] = 0]

Wait(c, p, d) ==
    /\ pc' = [pc EXCEPT ![c] = p]
    /\ waiting' = waiting \cup {c} /\ deadline' = [deadline EXCEPT ![c] = d]
    /\ UNCHANGED <<takeVars, timeout_point>>

GiveUp(c) ==
    /\ Return(c)
    /\ UNCHANGED takeVars

Stay == UNCHANGED <<waiting, deadline>>

\* One round of the loop; it holds mutex_ until it returns or waits.
Loop(c) ==
    /\ pc[c] = "loop"
    /\ \/ /\ ~running_ /\ GiveUp(c) /\ Stay
       \/ /\ running_ /\ mode[c] = "timed" /\ now >= timeout_point[c]
          /\ GiveUp(c) /\ Stay
       \/ /\ running_ /\ (mode[c] = "timed" => now < timeout_point[c])
          /\ \/ /\ queue_ = {}
                /\ Wait(c, "empty", IF mode[c] = "timed" THEN timeout_point[c] ELSE Never)
             \/ \E e \in queue_ :
                   /\ Top(e)
                   /\ IF GetRemainingDelay(e) <= 0
                      THEN Return(c) /\ TakeElement(e) /\ Stay
                      ELSE Wait(c, "wait", IF mode[c] = "take"
                                   THEN now + GetRemainingDelay(e) * TicksPerMs
                                   ELSE IF expiry[e] < timeout_point[c]
                                   THEN expiry[e] ELSE timeout_point[c])
    /\ UNCHANGED <<now, running_, expiry, draft, toNotify, mode>>

\* A wait ends by a notification or at its deadline.  A timed take that finds
\* its deadline passed takes the top it waited for, or another, if that has
\* expired, and otherwise gives up; everybody else goes round the loop.
Wake(c) ==
    /\ Waits(c) /\ (c \notin waiting \/ now >= deadline[c])
    /\ waiting' = waiting \ {c} /\ deadline' = [deadline EXCEPT ![c] = 0]
    /\ \/ /\ mode[c] = "take" \/ now < deadline[c]
          /\ pc' = [pc EXCEPT ![c] = "loop"]
          /\ UNCHANGED <<takeVars, timeout_point>>
       \/ /\ mode[c] = "timed" /\ now >= deadline[c]
          /\ IF pc[c] = "wait" /\ \E e \in queue_ : Top(e) /\ IsExpired(e)
             THEN /\ \E e \in queue_ : Top(e) /\ TakeElement(e)
                  /\ Return(c)
             ELSE GiveUp(c)
    /\ UNCHANGED <<now, running_, expiry, draft, toNotify, mode>>

-----------------------------------------------------------------------------
(* tryTake, drainExpired, clear, shutdown *)

TryTake ==
    /\ \E e \in queue_ : Top(e) /\ IsExpired(e) /\ TakeElement(e)
    /\ UNCHANGED <<now, running_, expiry, draft, toNotify, consumerVars>>

\* max_count = 0: every expired element leaves, in order of expiry.
DrainExpired ==
    LET out == {e \in queue_ : IsExpired(e)} IN
    /\ out # {}
    /\ \E s \in [1..Cardinality(out) -> out] :
          /\ \A i, j \in DOMAIN s : i < j => s[i] # s[j] /\ expiry[s[i]] <= expiry[s[j]]
          /\ taken' = taken \o [i \in DOMAIN s |->
                        [e |-> s[i], rivals |-> queue_ \ {s[k] : k \in 1..i}]]
    /\ queue_' = queue_ \ out
    /\ toNotify' = toNotify \cup {"all"}
    /\ UNCHANGED <<now, running_, expiry, draft, consumerVars>>

Clear ==
    /\ queue_' = {}
    /\ UNCHANGED <<now, running_, expiry, draft, toNotify, consumerVars, taken>>

Shutdown ==
    /\ running_ /\ running_' = FALSE
    /\ toNotify' = toNotify \cup {"all"}
    /\ UNCHANGED <<now, expiry, draft, consumerVars, takeVars>>

Take(c) == Loop(c) \/ Wake(c)

Next ==
    \/ Tick \/ NotifyOne \/ NotifyAll \/ TryTake \/ DrainExpired \/ Clear \/ Shutdown
    \/ \E e \in Elements : Push(e) \/ \E d \in Delays : Put(e, d)
    \/ \E c \in Consumers : Take(c) \/ Call(c, "take", 0)
                            \/ \E t \in Timeouts : Call(c, "timed", t)

Spec == Init /\ [][Next]_vars

\* Time passes and calls that have begun go on.
FairSpec ==
    /\ Spec /\ WF_vars(Tick) /\ WF_vars(NotifyOne) /\ WF_vars(NotifyAll)
    /\ \A e \in Elements : WF_vars(Push(e))
    /\ \A c \in Consumers : WF_vars(Take(c))

-----------------------------------------------------------------------------
\* Elements that wait together leave in the order of their expiry, through
\* whichever of take, tryTake and drainExpired.
TakenInExpiryOrder ==
    \A i, j \in DOMAIN taken :
        i < j /\ taken[j].e \in taken[i].rivals => expiry[taken[i].e] <= expiry[taken[j].e]

\* tryTake, drainExpired and a take that timed out never hand out an element
\* before its expiry.  The loops of take do, because getRemainingDelay rounds down
\* (the class comment says "only after the delay"), but by less than a millisecond.
LessThanAMsEarly ==
    \A i \in DOMAIN taken' \ DOMAIN taken :
        LET early == expiry[taken'[i].e] - now
        IN  early > 0 => early < TicksPerMs /\ \E c \in DOMAIN pc : pc[c] = "loop" /\ pc'[c] = "idle"

\* The consumers in the take() without timeout.
InTake == {c \in DOMAIN pc : mode[c] = "take" /\ pc[c] # "idle"}

\* "Blocks until an element has expired": a take() does not sleep on over an
\* element that has expired (one of them takes it, or they have left).
TakeReturnsWhenExpired ==
    (running_ /\ InTake # {} /\ \E e \in queue_ : IsExpired(e)) ~>
        (~running_ \/ InTake = {} \/ \A e \in queue_ : ~IsExpired(e))
=============================================================================
