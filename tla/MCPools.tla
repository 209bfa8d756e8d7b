------------------------------- MODULE MCPools ------------------------------
(***************************************************************************)
(* The pools and queues that hand work to threads, one of them at a time:  *)
(* the ThreadPool on one BlockingQueue (extended: the proofs are about     *)
(* it), BlockingQueuePro, the priority pool, the message queues on one     *)
(* semaphore, and the load balancers with their request simulator.         *)
(* `member' says which one a behaviour is about.                           *)
(***************************************************************************)
EXTENDS TaskPool

VARIABLES member,
          producer_queue_, consumer_queue_, cancelled, consumer_mutex_, sleeping, popPc, pushed, taken, refused,
          _task_queue, _thread_list, spent, _is_stop, _is_started, jobWaiting, jobPc, jobOwner, now, added, started, late,
          m_queue, m_sem, sending, recvPc, result, sent, received,
          algo, servers, srv, rrIndex, weights, ring, avgTime, selectedAt, bmain, pool, tasks, stopping, share, disturbed

Swap == INSTANCE SwapQueue WITH
          nonblock_ <- cancelled, waiting <- sleeping, pc <- popPc,
          Consumers <- {"c1", "c2"}, Values <- {1, 2, 3}, None <- "none"

\* Of the three tasks the last is urgent.
Jobs == INSTANCE PriorityPool WITH
          waiting <- jobWaiting, pc <- jobPc, owner <- jobOwner,
          Threads <- {"w1", "w2"}, Tasks <- {1, 2, 3}, Priority <- <<0, 0, 3>>, MaxTime <- 1

\* One blocking queue shared by two named receivers, ...
Que == INSTANCE MsgQue WITH
          pc <- recvPc, Queues <- {"q1"}, Receivers <- {"A", "B"}, Home <- [A |-> "q1", B |-> "q1"],
          Name <- [A |-> "A", B |-> "B"], ByName <- TRUE, Blocking <- {"q1"}, Messages <- {1, 2, 3},
          Dest <- <<"A", "B", "B">>, Target <- <<"q1", "q1", "q1">>, Senders <- {"s1", "s2"}
\* ... and a blocking and a polled queue side by side, on the one semaphore.
Ques == INSTANCE MsgQue WITH
          pc <- recvPc, Queues <- {"q1", "q2"}, Receivers <- {"A", "B"}, Home <- [A |-> "q1", B |-> "q2"],
          Name <- [A |-> "A", B |-> "B"], ByName <- TRUE, Blocking <- {"q1"}, Messages <- {1, 2, 3},
          Dest <- <<"A", "B", "B">>, Target <- <<"q1", "q2", "q1">>, Senders <- {"s1", "s2"}

\* Two servers and a spare one; two hashes of a and b collide.
Ring == [x \in {"a", "b", "c"} \X (0..3) |->
           CASE x = <<"a", 0>> -> 3 [] x \in {<<"a", 1>>, <<"b", 2>>} -> 9 [] x = <<"b", 3>> -> 14
             [] x = <<"b", 0>> -> 6 [] x = <<"b", 1>> -> 1 [] x = <<"c", 0>> -> 11 [] x = <<"c", 1>> -> 4
             [] OTHER -> 0]
Balance == INSTANCE Balancers WITH
          Algorithms <- {"rr", "wrr", "hash", "least", "wleast", "dynamic"}, Initial <- <<"a", "b">>, Spare <- "c",
          WeightOf <- [a |-> 1, b |-> 2, c |-> 1], VirtualNodes <- 2, HashOf <- Ring, KeyHash <- {2, 5, 8, 15},
          ResponseWeight <- 30, ResponseTimes <- {1, 6}, Threads <- {"t1", "t2"},
          MaxRequests <- [rr |-> 3, wrr |-> 3, hash |-> 2, least |-> 2, wleast |-> 3, dynamic |-> 2],
          MaxAdmin <- [rr |-> 1, wrr |-> 1, hash |-> 2, least |-> 1, wleast |-> 1, dynamic |-> 1]

swapVars == <<producer_queue_, consumer_queue_, cancelled, consumer_mutex_, sleeping, popPc, pushed, taken, refused>>
jobVars == <<_task_queue, _thread_list, spent, _is_stop, _is_started, jobWaiting, jobPc, jobOwner, now, added, started, late>>
queVars == <<m_queue, m_sem, sending, recvPc, result, sent, received>>
balanceVars == <<algo, servers, srv, rrIndex, weights, ring, avgTime, selectedAt, bmain, pool, tasks, stopping, share, disturbed>>

PoolsInit ==
  /\ member \in {"pool", "swap", "jobs", "que", "ques", "balance"}
  /\ Init /\ Swap!Init /\ Jobs!Init
  /\ IF member = "ques" THEN Ques!Init ELSE Que!Init
  /\ Balance!BalancerInit /\ (member # "balance" => algo = "rr")

PoolsNext ==
  /\ UNCHANGED member
  /\ \/ member = "pool" /\ Next /\ UNCHANGED <<swapVars, jobVars, queVars, balanceVars>>
     \/ member = "swap" /\ Swap!Next /\ UNCHANGED <<vars, jobVars, queVars, balanceVars>>
     \/ member = "jobs" /\ Jobs!Next /\ UNCHANGED <<vars, swapVars, queVars, balanceVars>>
     \/ member = "que" /\ Que!Next /\ UNCHANGED <<vars, swapVars, jobVars, balanceVars>>
     \/ member = "ques" /\ Ques!Next /\ UNCHANGED <<vars, swapVars, jobVars, balanceVars>>
     \/ member = "balance" /\ Balance!BalancerNext /\ UNCHANGED <<vars, swapVars, jobVars, queVars>>

\* The fairness of each member, as its own module states it.
PoolsFairness ==
  /\ \A w \in Workers : WF_vars(member = "pool" /\ Pop(w)) /\ WF_vars(member = "pool" /\ RunTask(w))
  /\ \A c \in {"c1", "c2"} : WF_swapVars(member = "swap" /\ Swap!Call(c)) /\ WF_swapVars(member = "swap" /\ Swap!Consume(c))
  /\ WF_jobVars(member = "jobs" /\ jobOwner = "joining" /\ Jobs!Sync)
  /\ \A w \in {"w1", "w2"} : WF_jobVars(member = "jobs" /\ Jobs!Worker(w))
  /\ \A s \in {"s1", "s2"} : WF_queVars(member = "que" /\ Que!SemPost(s))
  /\ \A r \in {"A", "B"} : /\ SF_queVars(member = "que" /\ Que!SemWait(r))
                           /\ WF_queVars(member = "que" /\ (Que!RecvMsg(r) \/ Que!Repost(r)))
  /\ WF_balanceVars(member = "balance" /\ Balance!MainStep)
  /\ \A t \in {"t1", "t2"} : WF_balanceVars(member = "balance" /\ Balance!WorkerStep(t))

PoolsSpec ==
  PoolsInit /\ [][PoolsNext]_<<member, vars, swapVars, jobVars, queVars, balanceVars>> /\ PoolsFairness

\* BlockingQueuePro, with its two queues and two mutexes, is one cancellable
\* first-in first-out queue, and its consumer never sleeps over a value.
QueueIsFifo == Swap!ImplementsFifo /\ []Swap!SleepsOnlyWhenIdle
\* The priority pool starts each job once, the urgent first, and at most one
\* per worker after a stop.
JobsInOrder == member = "jobs" => Jobs!JobsInOrder
\* Messages reach the name they are addressed to, and the one semaphore of all
\* queues counts them.
MessagesAccounted == (member = "que" => Que!MessagesAccounted) /\ (member = "ques" => Ques!MessagesAccounted)
\* Connection counters equal the requests in flight, and the round robins
\* share exactly.
LoadIsTrue == member = "balance" => Balance!LoadIsTrue
\* Consistent hashing moves only the keys of the server that comes or goes.
OnlyItsKeysMove == Balance!OnlyItsKeysMove

Outstanding ==
  \/ member = "pool" /\ posted # Finished
  \/ member = "swap" /\ refused # {"c1", "c2"} /\ pushed # UNION {{taken[c][i] : i \in DOMAIN taken[c]} : c \in {"c1", "c2"}}
  \/ member = "que" /\ Que!ToSet(sent) # Que!Got
  \/ member = "balance" /\ bmain.pc # "end"
\* Work that is handed over is done, though wakeups, counts and mutexes could
\* be lost on the way: posted tasks are executed, pushed values popped unless
\* every consumer was refused, sent messages received, and the simulator's
\* batch of requests completes.
WorkIsDone == Outstanding ~> ~Outstanding

\* force_stop_gracefully of the priority pool returns.
GracefulStopReturns == Jobs!GracefulStopReturns
=============================================================================
