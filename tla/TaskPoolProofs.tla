--------------------------- MODULE TaskPoolProofs ---------------------------
(***************************************************************************)
(* Proofs about TaskPool (thread_pool2) for any sets of workers and tasks. *)
(* The inductive invariant joins the typing of the variables, the          *)
(* bookkeeping of tasks (ExactlyOnePlace) and the discipline of waiting    *)
(* and leaving (WaitDiscipline); NoLostWakeup and DestructorDrains follow. *)
(***************************************************************************)
EXTENDS TaskPool, TLAPS

IInv == TypeOK /\ WaitDiscipline /\ ExactlyOnePlace /\ NoLostWakeup

\* The pool as constructed, with every worker about to pop, satisfies IInv.
LEMMA InitIInv == Init => IInv
<1> SUFFICES ASSUME Init PROVE IInv
  OBVIOUS
<1> USE DEF Init
<1>1. queue_ \in Seq(Tasks) /\ DOMAIN queue_ = {}
  OBVIOUS
<1>2. executed \in Seq(Tasks) /\ DOMAIN executed = {}
  OBVIOUS
<1>3. TypeOK
  BY Zenon, <1>1, <1>2 DEF TypeOK
<1>4. WaitDiscipline
  BY DEF WaitDiscipline
<1>5. ExactlyOnePlace
  BY <1>1, <1>2 DEF ExactlyOnePlace, Queued, Finished, Held
<1> QED BY <1>3, <1>4, <1>5 DEF IInv, NoLostWakeup

\* Push and a wakeup: some worker is awake after a task is queued, because the
\* poster is the owner of a pool that is not cancelled, or a running worker.
LEMMA PostIInv ==
  ASSUME IInv, NEW t \in Tasks, Post(t) PROVE IInv'
<1> USE DEF IInv, Post, Push
<1>1. TypeOK'
  BY DEF TypeOK
<1>2. WaitDiscipline'
  BY DEF WaitDiscipline, TypeOK
<1>3. /\ DOMAIN queue_' = DOMAIN queue_ \cup {Len(queue_) + 1}
      /\ \A i \in DOMAIN queue_ : queue_'[i] = queue_[i]
      /\ queue_'[Len(queue_) + 1] = t
      /\ Len(queue_) + 1 \notin DOMAIN queue_
  BY DEF TypeOK
<1>4. ExactlyOnePlace'
  <2>1. Queued' = Queued \cup {t}
    BY <1>3 DEF Queued
  <2>2. Finished' = Finished /\ Held' = Held
    BY DEF Finished, Held
  <2>3. posted' = Queued' \cup Finished' \cup Held'
    BY <2>1, <2>2 DEF ExactlyOnePlace
  <2>4. t \notin Queued /\ t \notin Finished /\ t \notin Held
    BY DEF ExactlyOnePlace
  <2> QED BY <1>3, <2>3, <2>4 DEF ExactlyOnePlace, Queued, Finished, Held
<1>5. NoLostWakeup'
  BY WorkersAssumption DEF NoLostWakeup, TypeOK, WaitDiscipline
<1> QED BY <1>1, <1>2, <1>4, <1>5

\* Pop on an empty queue: the worker waits, or leaves a cancelled queue.
LEMMA PopEmptyIInv ==
  ASSUME IInv, NEW w \in Workers, Pop(w), PopEmpty(w) PROVE IInv'
<1> USE DEF IInv, Pop, PopEmpty
<1>1. TypeOK'
  BY DEF TypeOK
<1>2. WaitDiscipline'
  BY DEF WaitDiscipline, TypeOK
<1>3. \A v \in Workers : pc'[v] = "run" <=> pc[v] = "run"
  BY DEF TypeOK
<1>4. ExactlyOnePlace'
  BY <1>3 DEF ExactlyOnePlace, Queued, Finished, Held
<1> QED BY <1>1, <1>2, <1>4 DEF NoLostWakeup

\* Pop of the front task: it moves from the queue to the worker.
LEMMA PopFrontIInv ==
  ASSUME IInv, NEW w \in Workers, Pop(w), PopFront(w) PROVE IInv'
<1> USE DEF IInv, Pop, PopFront
<1>1. TypeOK'
  BY DEF TypeOK
<1>2. WaitDiscipline'
  BY DEF WaitDiscipline, TypeOK
<1>3. /\ \A i \in DOMAIN queue_' : i + 1 \in DOMAIN queue_ /\ queue_'[i] = queue_[i + 1]
      /\ \A i \in DOMAIN queue_ : i = 1 \/ i - 1 \in DOMAIN queue_'
      /\ 1 \in DOMAIN queue_ /\ queue_[1] = task'[w]
      /\ DOMAIN queue_ \subseteq Nat /\ DOMAIN queue_' \subseteq Nat \ {0}
  BY DEF TypeOK
<1>4. /\ pc'[w] = "run" /\ task'[w] # None
      /\ \A v \in Workers \ {w} : pc'[v] = pc[v] /\ task'[v] = task[v]
      /\ pc[w] # "run"
  BY NoneAssumption DEF TypeOK
<1>5. ExactlyOnePlace'
  <2>1. \A v \in Workers : pc'[v] = "run" <=> task'[v] # None
    BY <1>4 DEF ExactlyOnePlace
  <2>2. Queued = Queued' \cup {task'[w]}
    BY <1>3 DEF Queued
  <2>3. Held' = Held \cup {task'[w]} /\ Finished' = Finished
    BY <1>4 DEF Held, Finished
  <2>4. posted' = Queued' \cup Finished' \cup Held'
    BY <2>2, <2>3 DEF ExactlyOnePlace
  <2>5. \A i, j \in DOMAIN queue_' : queue_'[i] = queue_'[j] => i = j
    BY <1>3 DEF ExactlyOnePlace
  <2>6. \A i \in DOMAIN queue_', j \in DOMAIN executed' : queue_'[i] # executed'[j]
    BY <1>3 DEF ExactlyOnePlace
  <2>7. \A v, u \in Workers : pc'[v] = "run" /\ task'[v] = task'[u] => v = u
    BY <1>3, <1>4, <2>1 DEF ExactlyOnePlace
  <2>8. \A v \in Workers : pc'[v] = "run" =>
          /\ \A i \in DOMAIN queue_' : queue_'[i] # task'[v]
          /\ \A j \in DOMAIN executed' : executed'[j] # task'[v]
    BY <1>3, <1>4 DEF ExactlyOnePlace
  <2> QED BY <2>1, <2>4, <2>5, <2>6, <2>7, <2>8 DEF ExactlyOnePlace
<1>6. NoLostWakeup'
  BY <1>4 DEF NoLostWakeup, TypeOK
<1> QED BY <1>1, <1>2, <1>5, <1>6

\* A task returns: it moves from the worker to the executed ones.
LEMMA RunTaskIInv ==
  ASSUME IInv, NEW w \in Workers, RunTask(w) PROVE IInv'
<1> USE DEF IInv, RunTask
<1>1. task[w] \in Tasks
  BY DEF TypeOK, ExactlyOnePlace
<1>2. TypeOK'
  BY <1>1 DEF TypeOK
<1>3. WaitDiscipline'
  BY DEF WaitDiscipline, TypeOK
<1>4. /\ DOMAIN executed' = DOMAIN executed \cup {Len(executed) + 1}
      /\ \A i \in DOMAIN executed : executed'[i] = executed[i]
      /\ executed'[Len(executed) + 1] = task[w]
      /\ Len(executed) + 1 \notin DOMAIN executed
  BY <1>1 DEF TypeOK
<1>5. /\ pc'[w] = "pop" /\ task'[w] = None
      /\ \A v \in Workers \ {w} : pc'[v] = pc[v] /\ task'[v] = task[v]
  BY DEF TypeOK
<1>6. ExactlyOnePlace'
  <2>1. \A v \in Workers : pc'[v] = "run" <=> task'[v] # None
    BY <1>5 DEF ExactlyOnePlace
  <2>2. Finished' = Finished \cup {task[w]} /\ Queued' = Queued
    BY <1>4 DEF Finished, Queued
  <2>3. Held = Held' \cup {task[w]}
    BY <1>5 DEF Held
  <2>4. posted' = Queued' \cup Finished' \cup Held'
    BY <2>2, <2>3 DEF ExactlyOnePlace
  <2>5. \A i, j \in DOMAIN executed' : executed'[i] = executed'[j] => i = j
    BY <1>4 DEF ExactlyOnePlace
  <2>6. \A i \in DOMAIN queue_', j \in DOMAIN executed' : queue_'[i] # executed'[j]
    BY <1>4 DEF ExactlyOnePlace
  <2>7. \A v, u \in Workers : pc'[v] = "run" /\ task'[v] = task'[u] => v = u
    BY <1>5, <2>1 DEF ExactlyOnePlace
  <2>8. \A v \in Workers : pc'[v] = "run" =>
          /\ \A i \in DOMAIN queue_' : queue_'[i] # task'[v]
          /\ \A j \in DOMAIN executed' : executed'[j] # task'[v]
    BY <1>4, <1>5 DEF ExactlyOnePlace
  <2>9. \A i, j \in DOMAIN queue_' : queue_'[i] = queue_'[j] => i = j
    BY DEF ExactlyOnePlace
  <2> QED BY <2>1, <2>4, <2>5, <2>6, <2>7, <2>8, <2>9 DEF ExactlyOnePlace
<1>7. NoLostWakeup'
  BY <1>5 DEF NoLostWakeup, TypeOK, WaitDiscipline
<1> QED BY <1>2, <1>3, <1>6, <1>7

\* No step of the pool breaks IInv.
LEMMA NextIInv == IInv /\ [Next]_vars => IInv'
<1> SUFFICES ASSUME IInv, [Next]_vars PROVE IInv'
  OBVIOUS
<1>1. CASE \E t \in Tasks : Post(t)
  BY <1>1, PostIInv
<1>2. CASE \E w \in Workers : Pop(w)
  BY <1>2, PopEmptyIInv, PopFrontIInv DEF Pop
<1>3. CASE \E w \in Workers : RunTask(w)
  BY <1>3, RunTaskIInv
<1>4. CASE Cancel
  <2> USE <1>4 DEF Cancel, IInv
  <2>1. TypeOK'
    BY DEF TypeOK
  <2>2. WaitDiscipline'
    BY SMTT(60) DEF WaitDiscipline, TypeOK
  <2>3. ExactlyOnePlace'
    BY SMTT(60) DEF ExactlyOnePlace, Queued, Finished, Held
  <2> QED BY <2>1, <2>2, <2>3, WorkersAssumption DEF NoLostWakeup, WaitDiscipline
<1>5. CASE Join
  BY SMTT(60), <1>5 DEF Join, IInv, TypeOK, WaitDiscipline, ExactlyOnePlace,
                Queued, Finished, Held, NoLostWakeup
<1>6. CASE UNCHANGED vars
  BY <1>6 DEF vars, IInv, TypeOK, WaitDiscipline, ExactlyOnePlace,
                Queued, Finished, Held, NoLostWakeup
<1> QED BY <1>1, <1>2, <1>3, <1>4, <1>5, <1>6 DEF Next

\* IInv holds in every reachable state.
THEOREM Invariance == Spec => []IInv
BY InitIInv, NextIInv, PTL DEF Spec

\* The queue, the flags and every worker's place in Pop and in its loop keep
\* their types.
THEOREM TypeCorrect == Spec => []TypeOK
<1>1. IInv => TypeOK
  BY DEF IInv
<1> QED BY <1>1, Invariance, PTL

\* Push's notify_one and Pop's wait never lose a wakeup, whatever the number
\* of workers and posters.
THEOREM NoLostWakeupHolds == Spec => []NoLostWakeup
<1>1. IInv => NoLostWakeup
  BY DEF IInv
<1> QED BY <1>1, Invariance, PTL

\* A posted task is in exactly one place, and so is executed at most once.
THEOREM ExactlyOnePlaceHolds == Spec => []ExactlyOnePlace
<1>1. IInv => ExactlyOnePlace
  BY SMTT(60) DEF IInv
<1> QED BY <1>1, Invariance, PTL

\* When ~ThreadPool returns, every task ever posted has been executed.
THEOREM DestructorDrainsHolds == Spec => []DestructorDrains
<1>1. IInv => DestructorDrains
  <2> SUFFICES ASSUME IInv, owner = "joined"
               PROVE posted = Finished
    BY DEF DestructorDrains
  <2>1. \A w \in Workers : pc[w] = "done"
    BY DEF IInv, WaitDiscipline
  <2>2. queue_ = <<>>
    BY <2>1 DEF IInv, NoLostWakeup
  <2>3. DOMAIN queue_ = {}
    BY <2>2
  <2> QED BY <2>1, <2>3 DEF IInv, ExactlyOnePlace, Queued, Held
<1> QED BY <1>1, Invariance, PTL

\* So the pool never sleeps over a task and never loses, repeats or drops one,
\* for any number of workers and of tasks.
THEOREM PoolIsSafeHolds == Spec => []PoolIsSafe
<1>1. NoLostWakeup /\ ExactlyOnePlace /\ DestructorDrains => PoolIsSafe
  BY DEF PoolIsSafe
<1> QED BY <1>1, NoLostWakeupHolds, ExactlyOnePlaceHolds, DestructorDrainsHolds, PTL
=============================================================================
