----------------------------- MODULE SwapQueue ------------------------------
(***************************************************************************)
(* thread_pool2/threadpool.h, BlockingQueuePro<T>: producers push to one   *)
(* queue under producer_mutex_, consumers pop from another one under       *)
(* consumer_mutex_, and the consumer that finds its queue empty swaps the  *)
(* two, waiting on not_empty_ with consumer_mutex_ still locked.           *)
(***************************************************************************)
EXTENDS Naturals, Sequences, FiniteSets

CONSTANTS Consumers, Values,   \* each value is pushed at most once
          None

VARIABLES producer_queue_, consumer_queue_, nonblock_,
          consumer_mutex_,   \* the consumer that holds it, or None
          waiting,           \* the holder is blocked in not_empty_.wait
          pc,                \* where each consumer is in Pop
          pushed,            \* history: the values pushed
          taken, refused     \* history: what Pop returned to each consumer

vars == <<producer_queue_, consumer_queue_, nonblock_, consumer_mutex_, waiting,
          pc, pushed, taken, refused>>

Init ==
    /\ producer_queue_ = <<>> /\ consumer_queue_ = <<>>
    /\ nonblock_ = FALSE /\ waiting = FALSE
    /\ consumer_mutex_ = None
    /\ pc = [c \in Consumers |-> "out"]
    /\ pushed = {} /\ refused = {}
    /\ taken = [c \in Consumers |-> <<>>]

\* Mutant: notify_one is forgotten.
PushNoNotify(v) ==
    /\ v \notin pushed
    /\ pushed' = pushed \cup {v}
    /\ producer_queue_' = Append(producer_queue_, v)
    /\ UNCHANGED <<consumer_queue_, nonblock_, consumer_mutex_, pc, taken, refused, waiting>>

\* notify_one: there is at most one waiter, the holder of consumer_mutex_.
Push(v) ==
    /\ v \notin pushed
    /\ pushed' = pushed \cup {v}
    /\ producer_queue_' = Append(producer_queue_, v)
    /\ waiting' = FALSE
    /\ UNCHANGED <<consumer_queue_, nonblock_, consumer_mutex_, pc, taken, refused>>

Cancel ==
    /\ nonblock_' = TRUE
    /\ waiting' = FALSE
    /\ UNCHANGED <<producer_queue_, consumer_queue_, consumer_mutex_, pc, pushed,
                   taken, refused>>

\* A consumer that was not refused calls Pop.
Call(c) ==
    /\ pc[c] = "out" /\ c \notin refused
    /\ pc' = [pc EXCEPT ![c] = "lock"]
    /\ UNCHANGED <<producer_queue_, consumer_queue_, nonblock_, consumer_mutex_,
                   waiting, pushed, taken, refused>>

Lock(c) ==
    /\ pc[c] = "lock" /\ consumer_mutex_ = None
    /\ consumer_mutex_' = c
    /\ pc' = [pc EXCEPT ![c] = "pop"]
    /\ UNCHANGED <<producer_queue_, consumer_queue_, nonblock_, waiting, pushed,
                   taken, refused>>

\* The rest of Pop once q is the consumer queue: front(), pop(), unlock.
Return(c, q) ==
    /\ taken' = [taken EXCEPT ![c] = Append(taken[c], Head(q))]
    /\ consumer_queue_' = Tail(q)
    /\ consumer_mutex_' = None
    /\ pc' = [pc EXCEPT ![c] = "out"]
    /\ UNCHANGED <<nonblock_, waiting, pushed, refused>>

PopFront(c) ==
    /\ pc[c] = "pop" /\ consumer_queue_ # <<>>
    /\ Return(c, consumer_queue_)
    /\ UNCHANGED producer_queue_

\* SwapQueue_: wait for a value or Cancel (the predicate is tested before the
\* wait and after every wakeup), ...
Wait(c) ==
    /\ pc[c] = "pop" /\ consumer_queue_ = <<>> /\ ~waiting
    /\ producer_queue_ = <<>> /\ ~nonblock_
    /\ waiting' = TRUE
    /\ UNCHANGED <<producer_queue_, consumer_queue_, nonblock_, consumer_mutex_, pc,
                   pushed, taken, refused>>

\* Mutant: one value is moved instead of the whole queue, to its back.
SwapLifo(c) ==
    /\ pc[c] = "pop" /\ consumer_queue_ = <<>> /\ ~waiting
    /\ producer_queue_ # <<>>
    /\ Return(c, <<producer_queue_[Len(producer_queue_)]>>)
    /\ producer_queue_' = SubSeq(producer_queue_, 1, Len(producer_queue_) - 1)

\* ... swap, and pop from what was the producers' queue, ...
Swap(c) ==
    /\ pc[c] = "pop" /\ consumer_queue_ = <<>> /\ ~waiting
    /\ producer_queue_ # <<>>
    /\ Return(c, producer_queue_)
    /\ producer_queue_' = <<>>

\* ... or return false: cancelled, and both queues are empty.
Fail(c) ==
    /\ pc[c] = "pop" /\ consumer_queue_ = <<>> /\ ~waiting
    /\ producer_queue_ = <<>> /\ nonblock_
    /\ refused' = refused \cup {c}
    /\ consumer_mutex_' = None
    /\ pc' = [pc EXCEPT ![c] = "out"]
    /\ UNCHANGED <<producer_queue_, consumer_queue_, nonblock_, waiting, pushed, taken>>

Consume(c) == Lock(c) \/ PopFront(c) \/ Wait(c) \/ Swap(c) \/ Fail(c)

Next ==
    \/ \E v \in Values : Push(v)
    \/ Cancel
    \/ \E c \in Consumers : Call(c) \/ Consume(c)

Spec == Init /\ [][Next]_vars

\* Consumers run, and go on popping until Pop fails.  Weak fairness is enough:
\* nothing relies on a consumer getting a contended mutex.
FairSpec ==
    /\ Spec
    /\ \A c \in Consumers : WF_vars(Call(c)) /\ WF_vars(Consume(c))

-----------------------------------------------------------------------------
\* The holder of consumer_mutex_ sleeps only while nothing was pushed and the
\* queue was not cancelled: no notification falls between test and wait.
SleepsOnlyWhenIdle ==
    waiting => /\ producer_queue_ = <<>> /\ consumer_queue_ = <<>> /\ ~nonblock_
               /\ consumer_mutex_ # None /\ pc[consumer_mutex_] = "pop"

\* The two queues together are one first-in first-out queue: the consumers'
\* part is the older one.
Fifo == INSTANCE CancellableFifo WITH
            q <- consumer_queue_ \o producer_queue_, cancelled <- nonblock_
ImplementsFifo == Fifo!Spec

=============================================================================
