------------------------------ MODULE TaskPool ------------------------------
(***************************************************************************)
(* thread_pool2/threadpool.h: BlockingQueue<T> (one mutex, one condition   *)
(* variable, a cancel flag) and the ThreadPool built on it.  Every method  *)
(* of BlockingQueue holds mutex_ from its first to its last line except    *)
(* while it waits, so a method is one action and a wait splits it in two.  *)
(***************************************************************************)
EXTENDS Naturals, Sequences

CONSTANTS Workers,  \* the threads of workers_
          Tasks,    \* the callables that may be posted, each at most once
          None      \* "no task"

ASSUME WorkersAssumption == Workers # {}
ASSUME NoneAssumption == None \notin Tasks

VARIABLES queue_,     \* BlockingQueue::queue_
          nonblock_,  \* BlockingQueue::nonblock_
          waiting,    \* the workers blocked in not_empty_.wait
          pc,         \* where each worker is in Worker()
          task,       \* the local variable task of Worker()
          owner,      \* the thread that owns the pool
          posted,     \* history: the tasks that were posted
          executed    \* history: the tasks whose call returned, in order

vars == <<queue_, nonblock_, waiting, pc, task, owner, posted, executed>>

TypeOK ==
    /\ queue_ \in Seq(Tasks)
    /\ nonblock_ \in BOOLEAN
    /\ waiting \subseteq Workers
    /\ pc \in [Workers -> {"pop", "run", "done"}]
    /\ task \in [Workers -> Tasks \cup {None}]
    /\ owner \in {"running", "joining", "joined"}
    /\ posted \subseteq Tasks
    /\ executed \in Seq(Tasks)

Init ==
    /\ queue_ = <<>>
    /\ nonblock_ = FALSE
    /\ waiting = {}
    /\ pc = [w \in Workers |-> "pop"]
    /\ task = [w \in Workers |-> None]
    /\ owner = "running"
    /\ posted = {}
    /\ executed = <<>>

\* A Push without its notification: the mutant of Push below.
PushNoNotify(t) ==
    /\ queue_' = Append(queue_, t)
    /\ UNCHANGED waiting

\* notify_one wakes one of the waiting workers, if there is one.
Push(t) ==
    /\ queue_' = Append(queue_, t)
    /\ IF waiting = {} THEN UNCHANGED waiting
                       ELSE \E w \in waiting : waiting' = waiting \ {w}

\* The owner posts until it destroys the pool; a running task may post too,
\* even while the destructor waits for the workers.
Post(t) ==
    /\ t \notin posted
    /\ owner = "running" \/ \E w \in Workers : pc[w] = "run"
    /\ posted' = posted \cup {t}
    /\ Push(t)
    /\ UNCHANGED <<nonblock_, pc, task, owner, executed>>

\* Pop finds nothing: it waits, or gives up when the queue was cancelled and
\* the worker leaves its loop.
PopEmpty(w) ==
    /\ queue_ = <<>>
    /\ IF nonblock_ THEN pc' = [pc EXCEPT ![w] = "done"] /\ UNCHANGED waiting
                    ELSE waiting' = waiting \cup {w} /\ UNCHANGED pc
    /\ UNCHANGED <<queue_, task>>

PopFront(w) ==
    /\ queue_ # <<>>
    /\ task' = [task EXCEPT ![w] = Head(queue_)]
    /\ queue_' = Tail(queue_)
    /\ pc' = [pc EXCEPT ![w] = "run"]
    /\ UNCHANGED waiting

Pop(w) ==
    /\ pc[w] = "pop" /\ w \notin waiting
    /\ PopEmpty(w) \/ PopFront(w)
    /\ UNCHANGED <<nonblock_, owner, posted, executed>>

\* task() returns and the worker goes round its loop.
RunTask(w) ==
    /\ pc[w] = "run"
    /\ executed' = Append(executed, task[w])
    /\ task' = [task EXCEPT ![w] = None]
    /\ pc' = [pc EXCEPT ![w] = "pop"]
    /\ UNCHANGED <<queue_, nonblock_, waiting, owner, posted>>

\* ~ThreadPool: Cancel, then join every worker.
Cancel ==
    /\ owner = "running"
    /\ owner' = "joining"
    /\ nonblock_' = TRUE
    /\ waiting' = {}
    /\ UNCHANGED <<queue_, pc, task, posted, executed>>

Join ==
    /\ owner = "joining"
    /\ \A w \in Workers : pc[w] = "done"
    /\ owner' = "joined"
    /\ UNCHANGED <<queue_, nonblock_, waiting, pc, task, posted, executed>>

Next ==
    \/ \E t \in Tasks : Post(t)
    \/ \E w \in Workers : Pop(w) \/ RunTask(w)
    \/ Cancel
    \/ Join

Spec == Init /\ [][Next]_vars

\* Threads are scheduled and tasks return; nobody has to post or to destroy.
FairSpec ==
    /\ Spec
    /\ \A w \in Workers : WF_vars(Pop(w)) /\ WF_vars(RunTask(w))
    /\ WF_vars(Join)

-----------------------------------------------------------------------------
\* No wakeup is lost between Push's notify_one and Pop's wait: whenever a task
\* is queued, some worker is awake and still in its loop.
NoLostWakeup ==
    queue_ # <<>> => \E w \in Workers : w \notin waiting /\ pc[w] # "done"

\* What makes NoLostWakeup inductive: a worker waits only inside Pop, leaves
\* its loop only once the queue is cancelled, and none waits after Cancel.
WaitDiscipline ==
    /\ \A w \in waiting : pc[w] = "pop"
    /\ nonblock_ => waiting = {}
    /\ (\E w \in Workers : pc[w] = "done") => nonblock_
    /\ owner = "running" <=> ~nonblock_
    /\ owner = "joined" => \A w \in Workers : pc[w] = "done"

Queued == {queue_[i] : i \in DOMAIN queue_}
Finished == {executed[i] : i \in DOMAIN executed}
Held == {task[w] : w \in {v \in Workers : pc[v] = "run"}}

\* No task is lost or run twice between Post and the end of its call: a posted
\* task is queued, held by one worker, or executed, and is so only once.
ExactlyOnePlace ==
    /\ \A w \in Workers : pc[w] = "run" <=> task[w] # None
    /\ posted = Queued \cup Finished \cup Held
    /\ \A i, j \in DOMAIN queue_ : queue_[i] = queue_[j] => i = j
    /\ \A i, j \in DOMAIN executed : executed[i] = executed[j] => i = j
    /\ \A v, w \in Workers : pc[v] = "run" /\ task[v] = task[w] => v = w
    /\ \A i \in DOMAIN queue_, j \in DOMAIN executed : queue_[i] # executed[j]
    /\ \A w \in Workers : pc[w] = "run" =>
          /\ \A i \in DOMAIN queue_ : queue_[i] # task[w]
          /\ \A j \in DOMAIN executed : executed[j] # task[w]

\* The destructor drains: when it returns, every task ever posted has been
\* executed, including those posted while it was waiting for the workers.
DestructorDrains ==
    owner = "joined" => posted = Finished

\* So the pool neither sleeps over a task nor loses, repeats or drops one.
PoolIsSafe == NoLostWakeup /\ ExactlyOnePlace /\ DestructorDrains
=============================================================================
