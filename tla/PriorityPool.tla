---------------------------- MODULE PriorityPool ----------------------------
(***************************************************************************)
(* thread_pool3/thread_pool.hpp: a pool on a priority queue of jobs.  No   *)
(* method ever notifies _cv, so a worker that waits is left to a spurious  *)
(* wakeup; sync() joins the workers, force_stop() detaches them.           *)
(***************************************************************************)
EXTENDS Naturals, Sequences, FiniteSets

CONSTANTS Threads,       \* identities for the workers that may be created
          Tasks, Priority,  \* Priority[t]: the priority the task is added with
          MaxTime        \* bound on the clock, in seconds

VARIABLES _task_queue,   \* the jobs, as a set: tasks are added once
          _thread_list,  \* the joinable threads of the list
          spent,         \* the list holds threads already joined or detached
          _is_stop, _is_started,
          waiting, pc,
          owner,         \* the thread that owns the pool
          now,           \* the second that time_t shows
          added, started, late

vars == <<_task_queue, _thread_list, spent, _is_stop, _is_started, waiting, pc, owner,
          now, added, started, late>>

Init ==
    /\ _task_queue = {} /\ _thread_list = {} /\ spent = FALSE
    /\ _is_stop = FALSE /\ _is_started = FALSE
    /\ waiting = {}
    /\ pc = [w \in Threads |-> "none"]
    /\ owner = "free" /\ now = 0
    /\ added = {} /\ started = <<>> /\ late = [w \in Threads |-> 0]

\* Job::operator<: among equal priorities the later job is the greater one, and
\* so the first to go.
Less(a, b) ==
    IF Priority[a.task] = Priority[b.task] THEN a.creat_time < b.creat_time
                                           ELSE Priority[a.task] < Priority[b.task]

Tick ==
    /\ now < MaxTime /\ now' = now + 1
    /\ UNCHANGED <<_task_queue, _thread_list, spent, _is_stop, _is_started, waiting, pc,
                   owner, added, started, late>>

-----------------------------------------------------------------------------
(* The owner *)

AddThreads(n) ==
    \E S \in SUBSET {w \in Threads : pc[w] = "none"} :
        /\ Cardinality(S) = n
        /\ pc' = [w \in Threads |-> IF w \in S THEN "top" ELSE pc[w]]
        /\ _thread_list' = _thread_list \cup S

\* start() throws when the pool is started.
Start(n) ==
    /\ owner = "free" /\ ~_is_started
    /\ _is_started' = TRUE
    /\ AddThreads(n)
    /\ UNCHANGED <<_task_queue, spent, _is_stop, waiting, owner, now, added, started,
                   late>>

AddThreadSafe(n) ==
    /\ owner = "free"
    /\ AddThreads(n)
    /\ UNCHANGED <<_task_queue, spent, _is_stop, _is_started, waiting, owner, now, added,
                   started, late>>

\* add_task and add_task_unsafe: no worker is notified.
AddTask(t) ==
    /\ owner = "free" /\ t \notin added
    /\ added' = added \cup {t}
    /\ _task_queue' = _task_queue \cup {[task |-> t, creat_time |-> now]}
    /\ UNCHANGED <<_thread_list, spent, _is_stop, _is_started, waiting, pc, owner, now,
                   started, late>>

\* force_stop_gracefully, also as called by the destructor, up to its sync().
ForceStopGracefully ==
    /\ owner = "free"
    /\ _is_started' = FALSE /\ _is_stop' = TRUE
    /\ owner' = "joining"
    /\ UNCHANGED <<_task_queue, _thread_list, spent, waiting, pc, now, added, started,
                   late>>

\* sync(), alone or in force_stop_gracefully: join of a thread that was joined
\* or detached before throws (and, in the destructor, ends the process).
Sync ==
    /\ owner \in {"free", "joining"}
    /\ \/ spent /\ owner' = "threw" /\ UNCHANGED <<_thread_list, spent>>
       \/ /\ ~spent /\ \A w \in _thread_list : pc[w] = "gone"
          /\ owner' = "free" /\ _thread_list' = {} /\ spent' = (_thread_list # {})
    /\ UNCHANGED <<_task_queue, _is_stop, _is_started, waiting, pc, now, added,
                   started, late>>

\* force_stop detaches the workers and leaves _is_stop alone: they run on.
ForceStop ==
    /\ owner = "free"
    /\ _is_started' = FALSE
    /\ \/ (_is_stop \/ spent) /\ owner' = "threw" /\ UNCHANGED <<_thread_list, spent>>
       \/ /\ ~_is_stop /\ ~spent
          /\ _thread_list' = {} /\ spent' = (_thread_list # {})
          /\ UNCHANGED owner
    /\ UNCHANGED <<_task_queue, _is_stop, waiting, pc, now, added, started, late>>

-----------------------------------------------------------------------------
(* The workers *)

\* Mutant: _is_stop is not looked at when the queue holds a job.
CheckStopOnlyIfEmpty(w) ==
    /\ pc[w] = "top"
    /\ pc' = [pc EXCEPT ![w] = IF _is_stop /\ _task_queue = {} THEN "gone" ELSE "lock"]
    /\ UNCHANGED <<_task_queue, _thread_list, spent, _is_stop, _is_started, waiting, owner,
                   now, added, started, late>>

CheckStop(w) ==
    /\ pc[w] = "top"
    /\ pc' = [pc EXCEPT ![w] = IF _is_stop THEN "gone" ELSE "lock"]
    /\ UNCHANGED <<_task_queue, _thread_list, spent, _is_stop, _is_started, waiting, owner,
                   now, added, started, late>>

\* The lock, an empty queue, and the predicate of the wait.
WaitForTask(w) ==
    /\ pc[w] = "lock" /\ w \notin waiting /\ _task_queue = {}
    /\ \/ _is_stop /\ pc' = [pc EXCEPT ![w] = "gone"] /\ UNCHANGED waiting
       \/ ~_is_stop /\ waiting' = waiting \cup {w} /\ UNCHANGED pc
    /\ UNCHANGED <<_task_queue, _thread_list, spent, _is_stop, _is_started, owner, now,
                   added, started, late>>

\* A wakeup after which _is_stop is seen ends the worker, whatever is queued.
SpuriousWakeup(w) ==
    /\ w \in waiting /\ (_task_queue # {} \/ _is_stop)
    /\ waiting' = waiting \ {w}
    /\ pc' = IF _is_stop THEN [pc EXCEPT ![w] = "gone"] ELSE pc
    /\ UNCHANGED <<_task_queue, _thread_list, spent, _is_stop, _is_started, owner, now,
                   added, started, late>>

TakeJob(w) ==
    /\ pc[w] = "lock" /\ w \notin waiting
    /\ \E j \in _task_queue :
          /\ \A k \in _task_queue : ~Less(j, k)
          /\ _task_queue' = _task_queue \ {j}
          /\ started' = Append(started, [task |-> j.task,
                                         rivals |-> {k.task : k \in _task_queue \ {j}}])
    /\ pc' = [pc EXCEPT ![w] = "run"]
    /\ late' = [late EXCEPT ![w] = IF _is_stop THEN @ + 1 ELSE @]
    /\ UNCHANGED <<_thread_list, spent, _is_stop, _is_started, waiting, owner, now, added>>

\* The task returns or throws; either way the worker goes round.
RunJob(w) ==
    /\ pc[w] = "run"
    /\ pc' = [pc EXCEPT ![w] = "top"]
    /\ UNCHANGED <<_task_queue, _thread_list, spent, _is_stop, _is_started, waiting, owner,
                   now, added, started, late>>

Worker(w) == CheckStop(w) \/ WaitForTask(w) \/ TakeJob(w) \/ RunJob(w)

Next ==
    \/ Tick
    \/ \E n \in 1..Cardinality(Threads) : Start(n) \/ AddThreadSafe(n)
    \/ \E t \in Tasks : AddTask(t)
    \/ ForceStopGracefully \/ Sync \/ ForceStop
    \/ \E w \in Threads : Worker(w) \/ SpuriousWakeup(w)

Spec == Init /\ [][Next]_vars

\* Workers run, tasks return, join returns; wakeups nobody sends are not assumed.
FairSpec ==
    /\ Spec
    /\ WF_vars(owner = "joining" /\ Sync)
    /\ \A w \in Threads : WF_vars(Worker(w))

-----------------------------------------------------------------------------
Queued == {j.task : j \in _task_queue}
Started == {started[i].task : i \in DOMAIN started}

\* An added task waits in the queue or was started, never both, and was started
\* once: no interleaving of workers loses or repeats it.
StartedOnce ==
    /\ added = Queued \cup Started /\ Queued \cap Started = {}
    /\ \A i, j \in DOMAIN started : started[i].task = started[j].task => i = j

\* Of two tasks that were queued together the one of higher priority is started
\* first, whichever workers take them.
HigherFirst ==
    \A i, j \in DOMAIN started :
        i < j /\ started[j].task \in started[i].rivals =>
            Priority[started[i].task] >= Priority[started[j].task]

\* _is_stop is tested once per round and outside the lock: after it is set a
\* worker starts at most the one job it was on its way to.
AtMostOneLateJob == \A w \in Threads : late[w] <= 1

\* main.cpp stops the pool "gracefully": force_stop_gracefully returns.
GracefulStopReturns == (owner = "joining") ~> (owner # "joining")

\* So the jobs are started once each, the urgent first, and none long after a stop.
JobsInOrder == StartedOnce /\ HigherFirst /\ AtMostOneLateJob
=============================================================================
