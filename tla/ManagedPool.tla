---------------------------- MODULE ManagedPool -----------------------------
(***************************************************************************)
(* thread_pool/threadpool.cpp: workers on a task queue, a manager thread   *)
(* that every second creates a worker when none is idle and retires two    *)
(* when more than half are, and the destructor.  The counters are atomics  *)
(* that are read and written outside the mutexes.                          *)
(***************************************************************************)
EXTENDS Integers, Sequences, FiniteSets

CONSTANTS Threads,   \* identities for the workers that may ever be created
          Tasks, m_min_thread_num, m_max_thread_num

VARIABLES m_task_queue, m_queue_mutex,   \* the worker holding it, or "free"
          waiting,                       \* workers in m_cond.wait
          busy, idle, exit,              \* m_busy_, m_idle_, m_exit_thread_num
          m_is_shutdown,
          m_workers, m_thread_ids,
          pc, task,                      \* the workers
          manager, seen,                 \* the manager, and what it loaded
          owner, added

vars == <<m_task_queue, m_queue_mutex, waiting, busy, idle, exit, m_is_shutdown,
          m_workers, m_thread_ids, pc, task, manager, seen, owner, added>>

queueVars == <<m_task_queue, m_queue_mutex, waiting>>
countVars == <<busy, idle, exit>>
poolVars == <<m_is_shutdown, m_workers, m_thread_ids>>
managerVars == <<manager, seen>>
ownerVars == <<owner, added>>

WorkerSteps == {"none", "top", "locked", "towait", "wait", "exit--", "busy--",
                "idle--", "id", "exited", "got", "run", "ran", "gone"}

Init ==
    /\ m_task_queue = <<>> /\ m_queue_mutex = "free" /\ waiting = {}
    /\ busy = m_min_thread_num /\ idle = m_min_thread_num /\ exit = 0
    /\ m_is_shutdown = FALSE
    /\ m_workers = CHOOSE S \in SUBSET Threads : Cardinality(S) = m_min_thread_num
    /\ m_thread_ids = {}
    /\ pc = [w \in Threads |-> IF w \in m_workers THEN "top" ELSE "none"]
    /\ task = [w \in Threads |-> "none"]
    /\ manager = "top" /\ seen = 0
    /\ owner = "using" /\ added = {}

-----------------------------------------------------------------------------
(* worker() *)

Go(w, from, to) == pc[w] = from /\ pc' = [pc EXCEPT ![w] = to]

\* while (!m_is_shutdown.load()), then the lock.
Top(w) ==
    /\ \/ m_is_shutdown /\ Go(w, "top", "gone") /\ UNCHANGED m_queue_mutex
       \/ /\ ~m_is_shutdown /\ m_queue_mutex = "free"
          /\ Go(w, "top", "locked") /\ m_queue_mutex' = w
    /\ UNCHANGED <<m_task_queue, waiting, countVars, poolVars, task, managerVars,
                   ownerVars>>

\* The test of the inner while, with the mutex locked: wait, take a task, or
\* leave the block with none.
Test(w) ==
    /\ \/ /\ m_task_queue = <<>> /\ ~m_is_shutdown
          /\ Go(w, "locked", "towait")
          /\ UNCHANGED <<m_task_queue, m_queue_mutex, task>>
       \/ /\ m_task_queue = <<>> /\ m_is_shutdown
          /\ Go(w, "locked", "top") /\ m_queue_mutex' = "free"
          /\ UNCHANGED <<m_task_queue, task>>
       \/ /\ m_task_queue # <<>>
          /\ Go(w, "locked", "got") /\ m_queue_mutex' = "free"
          /\ task' = [task EXCEPT ![w] = Head(m_task_queue)]
          /\ m_task_queue' = Tail(m_task_queue)
    /\ UNCHANGED <<waiting, countVars, poolVars, managerVars, ownerVars>>

\* m_cond.wait blocks and unlocks in one step.  m_is_shutdown is stored without
\* the mutex, so it and its notify_all may come between Test and Wait.
Wait(w) ==
    /\ Go(w, "towait", "wait")
    /\ waiting' = waiting \cup {w} /\ m_queue_mutex' = "free"
    /\ UNCHANGED <<m_task_queue, countVars, poolVars, task, managerVars, ownerVars>>

\* Woken, by a notification or spuriously, and locked again: a worker asked to
\* exit does so before it looks at the queue, even if it was woken for a task.
Woken(w) ==
    /\ m_queue_mutex = "free" /\ m_queue_mutex' = w
    /\ waiting' = waiting \ {w}
    /\ Go(w, "wait", IF exit > 0 THEN "exit--" ELSE "locked")
    /\ UNCHANGED <<m_task_queue, countVars, poolVars, task, managerVars, ownerVars>>

IdleAfterExit == idle - 1

\* The exit path: three counters, then the id under m_ids_mutex, then return.
Retire(w) ==
    /\ \/ Go(w, "exit--", "busy--") /\ exit' = exit - 1
          /\ UNCHANGED <<busy, idle, m_queue_mutex, m_thread_ids>>
       \/ Go(w, "busy--", "idle--") /\ busy' = busy - 1
          /\ UNCHANGED <<exit, idle, m_queue_mutex, m_thread_ids>>
       \/ Go(w, "idle--", "id") /\ idle' = IdleAfterExit
          /\ UNCHANGED <<exit, busy, m_queue_mutex, m_thread_ids>>
       \/ Go(w, "id", "exited") /\ m_thread_ids' = m_thread_ids \cup {w}
          /\ m_queue_mutex' = "free" /\ UNCHANGED countVars
    /\ UNCHANGED <<m_task_queue, waiting, m_is_shutdown, m_workers, task, managerVars,
                   ownerVars>>

RunTask(w) ==
    /\ \/ Go(w, "got", "run") /\ idle' = idle - 1
       \/ Go(w, "run", "ran") /\ UNCHANGED idle
       \/ Go(w, "ran", "top") /\ idle' = idle + 1
    /\ UNCHANGED <<queueVars, busy, exit, poolVars, task, managerVars, ownerVars>>

-----------------------------------------------------------------------------
(* manager() *)

Manage(from, to) == manager = from /\ manager' = to

MayCreate == seen = 0 /\ busy < m_max_thread_num

\* One round: sleep, load idle, load busy, then retire two workers, create one
\* or do nothing.
Inspect ==
    /\ \/ Manage("top", IF m_is_shutdown THEN "gone" ELSE "idle") /\ UNCHANGED seen
       \/ Manage("idle", "busy") /\ seen' = idle
       \/ /\ manager = "busy"
          /\ manager' = IF seen > busy \div 2 /\ seen > m_min_thread_num THEN "retire"
                        ELSE IF MayCreate THEN "busy++"
                        ELSE "top"
          /\ UNCHANGED seen
    /\ UNCHANGED <<queueVars, countVars, poolVars, pc, task, ownerVars>>

\* Mutant: a worker that is on its way out is forgotten before it has left.
LeavingToo == {w \in m_workers : pc[w] \in {"busy--", "idle--", "id", "exited"}}
HaveLeft == m_thread_ids

\* Join and forget the workers that have left so far.
RetireTwo ==
    /\ \/ Manage("retire", "notify") /\ exit' = 2 /\ UNCHANGED <<waiting, m_workers, m_thread_ids>>
       \/ Manage("notify", "reap") /\ waiting' = {} /\ UNCHANGED <<exit, m_workers, m_thread_ids>>
       \/ /\ Manage("reap", "top")
          /\ m_workers' = m_workers \ HaveLeft
          /\ m_thread_ids' = {} /\ UNCHANGED <<exit, waiting>>
    /\ UNCHANGED <<m_task_queue, m_queue_mutex, busy, idle, m_is_shutdown, pc, task, seen,
                   ownerVars>>

Create ==
    /\ \/ Manage("busy++", "idle++") /\ busy' = busy + 1 /\ UNCHANGED <<idle, pc, m_workers>>
       \/ Manage("idle++", "create") /\ idle' = idle + 1 /\ UNCHANGED <<busy, pc, m_workers>>
       \/ /\ manager = "create" /\ manager' = "top"
          /\ \E w \in Threads : Go(w, "none", "top") /\ m_workers' = m_workers \cup {w}
          /\ UNCHANGED <<busy, idle>>
    /\ UNCHANGED <<queueVars, exit, m_is_shutdown, m_thread_ids, task, seen, ownerVars>>

-----------------------------------------------------------------------------
(* The owner: addTask, then the destructor *)

AddTask(t) ==
    /\ owner = "using" /\ t \notin added /\ m_queue_mutex = "free"
    /\ owner' = "pushed" /\ added' = added \cup {t}
    /\ m_task_queue' = Append(m_task_queue, t)
    /\ UNCHANGED <<m_queue_mutex, waiting, countVars, poolVars, pc, task, managerVars>>

NotifyOne ==
    /\ owner = "pushed" /\ owner' = "using"
    /\ IF waiting = {} THEN UNCHANGED waiting
                       ELSE \E w \in waiting : waiting' = waiting \ {w}
    /\ UNCHANGED <<m_task_queue, m_queue_mutex, countVars, poolVars, pc, task,
                   managerVars, added>>

\* The store, the notify_all, the joins of the workers in the map and the join
\* of the manager are separate steps; the walk over the map, which the manager
\* may change meanwhile, is one wait for the workers in it.
Destroy ==
    /\ \/ owner = "using" /\ owner' = "stored" /\ m_is_shutdown' = TRUE /\ UNCHANGED waiting
       \/ owner = "stored" /\ owner' = "joining" /\ waiting' = {} /\ UNCHANGED m_is_shutdown
       \/ /\ owner = "joining" /\ owner' = "workers joined"
          /\ \A w \in m_workers : pc[w] \in {"gone", "exited"}
          /\ UNCHANGED <<waiting, m_is_shutdown>>
       \/ /\ owner = "workers joined" /\ owner' = "joined" /\ manager = "gone"
          /\ UNCHANGED <<waiting, m_is_shutdown>>
    /\ UNCHANGED <<m_task_queue, m_queue_mutex, countVars, m_workers, m_thread_ids, pc,
                   task, managerVars, added>>

Next ==
    \/ \E w \in Threads :
          Top(w) \/ Test(w) \/ Wait(w) \/ Woken(w) \/ Retire(w) \/ RunTask(w)
    \/ Inspect \/ RetireTwo \/ Create
    \/ \E t \in Tasks : AddTask(t)
    \/ NotifyOne \/ Destroy

Spec == Init /\ [][Next]_vars

-----------------------------------------------------------------------------
Count(S) == Cardinality({w \in Threads : pc[w] \in S})
Counted == WorkerSteps \ {"none", "idle--", "id", "exited"}

\* The counters the manager decides on never drift: m_busy_thread_num counts the
\* workers that were created and have not retired, m_idle_thread_num those that
\* are not inside a task, up to the step that is about to correct them.
CountersFollowWorkers ==
    /\ busy = Count(Counted) + (IF manager \in {"idle++", "create"} THEN 1 ELSE 0)
    /\ idle = Count((Counted \cup {"idle--"}) \ {"run", "ran"})
              + (IF manager = "create" THEN 1 ELSE 0)

\* Whatever the interleaving of its two loads with the workers, the manager
\* never creates more than m_max_thread_num workers.
AtMostMax == busy <= IF m_max_thread_num > m_min_thread_num THEN m_max_thread_num
                                                            ELSE m_min_thread_num

\* m_workers holds a std::thread for every worker that still runs, and the
\* manager joins and erases only workers that are in it, each once.  So whoever
\* walks m_workers meets every worker there is at that moment.
LiveAreJoinable ==
    /\ \A w \in Threads : pc[w] \notin {"none", "gone", "exited"} => w \in m_workers
    /\ m_thread_ids \subseteq m_workers

\* After the destructor has walked m_workers and joined what it met, at most one
\* worker still runs: the one the manager creates in a round that it began before
\* the shutdown.  Nobody joins that one.
AtMostOneMissed ==
    owner \in {"workers joined", "joined"} =>
        Cardinality({w \in Threads : pc[w] \notin {"none", "gone", "exited"}}) <= 1

\* So the manager decides on true numbers, and all workers can be joined but one
\* that is created too late.
WorkersAccounted ==
    CountersFollowWorkers /\ AtMostMax /\ LiveAreJoinable /\ AtMostOneMissed

\* threadpool.h calls m_min_thread_num the minimum number of threads.  manager()
\* retires two workers as soon as one is more than that, and what is left of
\* m_exit_thread_num retires more of them later.
AtLeastMin == ~m_is_shutdown => busy >= m_min_thread_num
=============================================================================
