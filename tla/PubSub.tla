------------------------------- MODULE PubSub -------------------------------
(***************************************************************************)
(* StdPubcpp/message_queue.h and publisher.h: publishers push messages on  *)
(* a priority queue, worker threads take them and deliver them to the      *)
(* subscribers of their topic by the strategy of the topic.  queue_mutex_  *)
(* protects the queue, subscription_mutex_ the subscriptions.              *)
(***************************************************************************)
EXTENDS Naturals, Sequences, FiniteSets, SequencesExt

CONSTANTS Workers, Publishers, Subscribers, Topics, Priorities,
          AtStart,          \* the subscriptions made before anything is published
          MaxMessages,      \* bound: messages created
          MaxChanges        \* bound: how often subscriptions change or clear is called

Messages == 1..MaxMessages  \* named by their timestamps

Strategies == {"BROADCAST", "ROUND_ROBIN", "RANDOM"}

VARIABLES messages_,
          subscriptions_,   \* per topic: strategy, subscribers, roundRobinIndex
          running_, processed, published,
          waiting, pc, message,          \* the workers
          made, pub, draft,              \* the messages created; the publishers
          owner,                         \* the thread in stop()
          changes, cleared, inbox, turns, taken   \* the bound; history

vars == <<messages_, subscriptions_, running_, processed, published, waiting, pc, message,
          made, pub, draft, owner, changes, cleared, inbox, turns, taken>>

workerVars == <<waiting, pc, message, processed, taken>>
pubVars == <<made, pub, draft, published>>
subVars == <<subscriptions_, changes, inbox, turns>>

NoSubscription == [strategy |-> "BROADCAST", subscribers |-> <<>>, roundRobinIndex |-> 0]

\* A topic without an entry in subscriptions_ and one with no subscribers are
\* the same: unsubscribe erases the empty entry.
Init ==
    /\ messages_ = {} /\ cleared = {}
    /\ subscriptions_ \in [Topics -> AtStart]
    /\ running_ = TRUE /\ processed = 0 /\ published = 0
    /\ waiting = {}
    /\ pc = [w \in Workers |-> "top"] /\ message = [w \in Workers |-> 0]
    /\ made = <<>>
    /\ pub = [p \in Publishers |-> "idle"] /\ draft = [p \in Publishers |-> 0]
    /\ owner = "using" /\ changes = 0
    /\ inbox = [s \in Subscribers |-> <<>>] /\ turns = [t \in Topics |-> <<>>]
    /\ taken = <<>>

MutexFree == \A w \in Workers : pc[w] # "towait"

-----------------------------------------------------------------------------
(* Publishers: create the message, push it, notify *)

\* The constructor of Message takes the time, before any lock: the n-th message
\* created is message n.
Create(p, t, priority) ==
    /\ pub[p] = "idle" /\ Len(made) < MaxMessages /\ owner = "using"
    /\ made' = Append(made, [topic |-> t, priority |-> priority])
    /\ draft' = [draft EXCEPT ![p] = Len(made')]
    /\ pub' = [pub EXCEPT ![p] = "made"]
    /\ UNCHANGED <<messages_, published, subVars, running_, workerVars, owner, cleared>>

Publish(p) ==
    /\ pub[p] = "made" /\ MutexFree
    /\ messages_' = messages_ \cup {draft[p]}
    /\ published' = published + 1
    /\ pub' = [pub EXCEPT ![p] = "pushed"]
    /\ UNCHANGED <<made, draft, subVars, running_, workerVars, owner, cleared>>

NotifyOne ==
    IF waiting = {} THEN UNCHANGED waiting ELSE \E w \in waiting : waiting' = waiting \ {w}

Notify(p) ==
    /\ pub[p] = "pushed"
    /\ pub' = [pub EXCEPT ![p] = "idle"]
    /\ NotifyOne
    /\ UNCHANGED <<messages_, made, draft, published, subVars, running_, pc, message,
                   processed, taken, owner, cleared>>

-----------------------------------------------------------------------------
(* subscribe, unsubscribe, setDistributionStrategy, clear *)

Change(t, sub) ==
    /\ owner = "using" /\ changes < MaxChanges /\ changes' = changes + 1
    /\ subscriptions_' = [subscriptions_ EXCEPT ![t] = sub]
    /\ turns' = [turns EXCEPT ![t] = <<>>]
    /\ UNCHANGED <<messages_, running_, workerVars, pubVars, owner, cleared, inbox>>

Known(sub, s) == \E i \in DOMAIN sub.subscribers : sub.subscribers[i] = s

\* The first subscription of a topic fixes its strategy; a subscriber that is
\* known already is not added again.
Subscribe(t, s, strategy) ==
    LET sub == subscriptions_[t] IN
    Change(t, IF sub.subscribers = <<>>
              THEN [strategy |-> strategy, subscribers |-> <<s>>, roundRobinIndex |-> 0]
              ELSE IF Known(sub, s) THEN sub
              ELSE [sub EXCEPT !.subscribers = Append(@, s)])

Unsubscribe(t, s) ==
    LET left == SelectSeq(subscriptions_[t].subscribers, LAMBDA x : x # s)
    IN  Change(t, IF left = <<>> THEN NoSubscription
                  ELSE [subscriptions_[t] EXCEPT !.subscribers = left])

SetDistributionStrategy(t, strategy) ==
    /\ subscriptions_[t].subscribers # <<>>
    /\ Change(t, [subscriptions_[t] EXCEPT !.strategy = strategy])

Clear ==
    /\ owner = "using" /\ MutexFree
    /\ changes < MaxChanges /\ changes' = changes + 1
    /\ cleared' = cleared \cup messages_ /\ messages_' = {}
    /\ UNCHANGED <<subscriptions_, inbox, turns, running_, workerVars, pubVars, owner>>

-----------------------------------------------------------------------------
(* workerFunction *)

Go(w, from, to) == pc[w] = from /\ pc' = [pc EXCEPT ![w] = to]

Precedes(m, k) == \/ made[m].priority > made[k].priority
                  \/ made[m].priority = made[k].priority /\ m < k

\* The top of the heap: MessageComparator puts the higher priority first and,
\* among equal ones, the earlier timestamp.
First(m) == \A k \in messages_ : Precedes(m, k) \/ m = k

Pop(m) == messages_' = messages_ \ {m}

\* The loop's test of running_ and the predicate of cv_.wait, or ("wait") the
\* predicate alone, after a wakeup.
Take(w) ==
    /\ pc[w] \in {"top", "wait"} /\ w \notin waiting /\ MutexFree
    /\ \/ /\ running_ /\ messages_ = {}
          /\ Go(w, pc[w], "towait") /\ UNCHANGED <<messages_, message, taken>>
       \/ /\ ~running_
          /\ Go(w, pc[w], "gone") /\ UNCHANGED <<messages_, message, taken>>
       \/ /\ running_
          /\ \E m \in messages_ :
                /\ First(m)
                /\ Pop(m)
                /\ message' = [message EXCEPT ![w] = m]
                /\ taken' = Append(taken, [m |-> m, rivals |-> messages_ \ {m}])
          /\ Go(w, pc[w], "distribute")
    /\ UNCHANGED <<subVars, running_, pubVars, waiting, processed, owner, cleared>>

Block(w) ==
    /\ Go(w, "towait", "wait")
    /\ waiting' = waiting \cup {w}
    /\ UNCHANGED <<messages_, subVars, running_, pubVars, message, processed, taken, owner,
                   cleared>>

Deliver(m, S) == inbox' = [s \in Subscribers |-> IF s \in S THEN Append(inbox[s], m)
                                                            ELSE inbox[s]]

\* Mutant: the index is not moved on.
SameIndex(i, n) == i
NextIndex(i, n) == (i + 1) % n

\* distributeMessage, under subscription_mutex_.  An exception of a subscriber
\* is caught, and the others are still called.
Distribute(w) ==
    LET m == message[w]  t == made[m].topic  sub == subscriptions_[t]
        n == Len(sub.subscribers)  i == sub.roundRobinIndex % n IN
    /\ Go(w, "distribute", "count")
    /\ \/ /\ n = 0 /\ UNCHANGED subVars
       \/ /\ n > 0 /\ sub.strategy = "BROADCAST"
          /\ inbox' = [s \in Subscribers |-> inbox[s] \o
                [k \in 1..Cardinality({j \in 1..n : sub.subscribers[j] = s}) |-> m]]
          /\ UNCHANGED <<subscriptions_, changes, turns>>
       \/ /\ n > 0 /\ sub.strategy = "ROUND_ROBIN"
          /\ Deliver(m, {sub.subscribers[i + 1]})
          /\ turns' = [turns EXCEPT ![t] = Append(@, sub.subscribers[i + 1])]
          /\ subscriptions_' = [subscriptions_ EXCEPT ![t].roundRobinIndex = NextIndex(@, n)]
          /\ UNCHANGED changes
       \/ /\ n > 0 /\ sub.strategy = "RANDOM"
          /\ \E j \in 1..n : Deliver(m, {sub.subscribers[j]})
          /\ UNCHANGED <<subscriptions_, changes, turns>>
    /\ UNCHANGED <<messages_, running_, pubVars, waiting, message, processed, taken,
                   owner, cleared>>

Processed(w) ==
    /\ Go(w, "count", "top")
    /\ processed' = processed + 1
    /\ UNCHANGED <<messages_, subVars, running_, pubVars, waiting, message, taken, owner,
                   cleared>>

\* stop(): running_ is stored and cv_ notified without queue_mutex_.
Stop ==
    /\ \/ owner = "using" /\ owner' = "stopped" /\ running_' = FALSE /\ UNCHANGED waiting
       \/ owner = "stopped" /\ owner' = "joining" /\ waiting' = {} /\ UNCHANGED running_
       \/ /\ owner = "joining" /\ owner' = "joined"
          /\ \A w \in Workers : pc[w] = "gone"
          /\ UNCHANGED <<waiting, running_>>
    /\ UNCHANGED <<messages_, subVars, pubVars, pc, message, processed, taken, cleared>>

Worker(w) == Take(w) \/ Block(w) \/ Distribute(w) \/ Processed(w)

Next ==
    \/ \E p \in Publishers : 
          \/ Publish(p) \/ Notify(p)
          \/ \E t \in Topics, pr \in Priorities : Create(p, t, pr)
    \/ \E t \in Topics, s \in Subscribers :
          Unsubscribe(t, s) \/ \E st \in Strategies : Subscribe(t, s, st)
    \/ \E t \in Topics, st \in Strategies : SetDistributionStrategy(t, st)
    \/ Clear \/ Stop
    \/ \E w \in Workers : Worker(w)

Spec == Init /\ [][Next]_vars

\* Threads run and calls that have begun go on; nobody has to publish or stop.
FairSpec ==
    /\ Spec
    /\ \A p \in Publishers : WF_vars(Publish(p)) /\ WF_vars(Notify(p))
    /\ \A w \in Workers : WF_vars(Worker(w))
    /\ WF_vars(owner \in {"stopped", "joining"} /\ Stop)

-----------------------------------------------------------------------------
InFlight == {w \in Workers : pc[w] \in {"distribute", "count"}}

\* The statistics add up: a published message is queued, with a worker, counted
\* as processed, or was cleared, and no message is taken twice.
Accounting ==
    /\ published = Cardinality(messages_) + Cardinality(InFlight) + processed
                   + Cardinality(cleared)
    /\ \A i, j \in DOMAIN taken : taken[i].m = taken[j].m => i = j

\* Messages that wait together leave in the order of MessageComparator: higher
\* priority first, then the earlier timestamp.
TakenInOrder ==
    \A i, j \in DOMAIN taken :
        i < j /\ taken[j].m \in taken[i].rivals =>
            Precedes(taken[i].m, taken[j].m)

\* While the subscribers of a topic stay the same, ROUND_ROBIN serves each of
\* them before it serves one again, also after others have left or joined.
RoundRobinTakesTurns ==
    \A t \in Topics : \A i, j \in DOMAIN turns[t] :
        i < j /\ j < i + Len(subscriptions_[t].subscribers) => turns[t][i] # turns[t][j]

\* A subscriber gets a message at most once, though it may have subscribed again
\* and two workers distribute side by side, and never one that is still queued or
\* was cleared.  With a single worker it gets them in the order they were taken.
DeliveredOnce ==
    \A s \in Subscribers :
        /\ \A i, j \in DOMAIN inbox[s] : inbox[s][i] = inbox[s][j] => i = j
        /\ ToSet(inbox[s]) \cap (messages_ \cup cleared) = {}
        /\ Cardinality(Workers) = 1 =>
              inbox[s] = SelectSeq([i \in DOMAIN taken |-> taken[i].m], LAMBDA m : Contains(inbox[s], m))

\* So a message that is published reaches a subscriber once, in its turn.
DeliveryIsOrderly == Accounting /\ TakenInOrder /\ RoundRobinTakesTurns /\ DeliveredOnce
=============================================================================
