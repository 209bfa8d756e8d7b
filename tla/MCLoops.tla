------------------------------- MODULE MCLoops ------------------------------
(***************************************************************************)
(* The programs built around an event loop, one of them at a time: the     *)
(* EventLoopThread with its loop (extended: the proofs are about it), the  *)
(* Poller, the TcpConnection, the reactor HTTP server and the hierarchical *)
(* state machines.  `member' says which one a behaviour is about.          *)
(***************************************************************************)
EXTENDS EventLoopThread

VARIABLES member,
          ch, listSize, ready, active,
          conf, c, todo, peer, peerMsgs, sent, msgs, upc,
          dispatcher, reactor, nextWorker, backlog, descriptor, tcp, browser,
          sm, opened

Poll2 == INSTANCE Poller WITH Channels <- {"c1", "c2"}, kInitEventListSize <- 1, MaxListSize <- 2

\* Two threads that send to or shut down a connection of a subloop, two threads
\* that only send, and a server without subloops that may or may not be
\* destroyed while its connection is open.
Deployment(users, ops, same, dies) ==
  [users |-> users, ops |-> ops, sameLoop |-> same, serverMayDie |-> dies]
Tcp == INSTANCE TcpConnection WITH
          Users <- {"u1", "u2"}, highWaterMark_ <- 2, MaxBytes <- 2, MaxPeerMsgs <- 1,
          Deployments <- {Deployment({"u1", "u2"}, {"send", "shutdown"}, FALSE, FALSE),
                          Deployment({"u1", "u2"}, {"send"}, FALSE, FALSE),
                          Deployment({}, {}, TRUE, TRUE), Deployment({}, {}, TRUE, FALSE)}

\* One browser sends its request at once and waits, one in two pieces and may
\* close early.
React == INSTANCE Reactor WITH
          Browsers <- {"b1", "b2"}, SubThreads <- <<"w1">>, Impatient <- {"b2"}, PerRead <- 2,
          Segments <- [b1 |-> <<<<"line", "hdr", "end">>>>, b2 |-> <<<<"line">>, <<"hdr", "end">>>>],
          Url <- [b1 |-> "file", b2 |-> "dir"], Dispatchers <- {"select", "poll", "epoll"}

Machine == INSTANCE StateMachine WITH
          Machines <- {"tcp", "game"}, Deltas <- {1, 2}, InitialHealth <- 4, MaxHealth <- 5, GoblinDamage <- 1,
          OrcDamage <- 2, HealAmount <- 1, MaxBattles <- 5, MaxDeferred <- 1

pollerVars == <<ch, listSize, ready, active>>
tcpVars == <<conf, c, todo, peer, peerMsgs, sent, msgs, upc>>
reactorVars == <<dispatcher, reactor, nextWorker, backlog, descriptor, tcp, browser>>
machineVars == <<sm, opened>>

LoopsInit ==
  /\ member \in {"loop", "poller", "tcp", "reactor", "machine"}
  /\ ThreadInit /\ Poll2!Init
  /\ Tcp!Init /\ (member # "tcp" => conf.sameLoop /\ conf.serverMayDie)
  /\ React!ReactorInit /\ (member # "reactor" => dispatcher = "poll")
  /\ Machine!MachineInit /\ (member # "machine" => sm.name = "tcp")

LoopsNext ==
  /\ UNCHANGED member
  /\ \/ member = "loop" /\ ThreadNext /\ UNCHANGED <<pollerVars, tcpVars, reactorVars, machineVars>>
     \/ member = "poller" /\ Poll2!Next /\ UNCHANGED <<allvars, tcpVars, reactorVars, machineVars>>
     \/ member = "tcp" /\ Tcp!Next /\ UNCHANGED <<allvars, pollerVars, reactorVars, machineVars>>
     \/ member = "reactor" /\ React!ReactorNext /\ UNCHANGED <<allvars, pollerVars, tcpVars, machineVars>>
     \/ member = "machine" /\ Machine!MachineNext /\ UNCHANGED <<allvars, pollerVars, tcpVars, reactorVars>>

\* The fairness of each member, as its own module states it.
LoopsFairness ==
  /\ WF_allvars(member = "loop" /\ RunLoop /\ (pc = "poll" => wakeupFd > 0))
  /\ WF_allvars(member = "loop" /\ (PostTid \/ ConstructLoop \/ PublishLoop \/ ClearLoop \/ ExitThread))
  /\ WF_allvars(member = "loop" /\ (ThreadStart \/ SemWait \/ StartLoopReturns))
  /\ WF_allvars(member = "loop" /\ (QuitLoop \/ Join))
  /\ WF_allvars(member = "loop" /\ WakeLoop)
  /\ WF_pollerVars(member = "poller" /\ \E got \in SUBSET {"c1", "c2"} : Poll2!Poll(got))
  /\ \A x \in {"c1", "c2"} : WF_pollerVars(member = "poller" /\ Poll2!Handled(x))
  /\ WF_tcpVars(member = "tcp" /\ Tcp!LoopStep) /\ SF_tcpVars(member = "tcp" /\ Tcp!Poll)
  /\ SF_tcpVars(member = "tcp" /\ Tcp!RunFunctor)
  /\ WF_tcpVars(member = "tcp" /\ Tcp!BaseLoop) /\ WF_tcpVars(member = "tcp" /\ Tcp!NewConnection)
  /\ \A u \in {"u1", "u2"} :
       WF_tcpVars(member = "tcp" /\ u \in conf.users /\ (Tcp!UserSetState(u) \/ Tcp!UserShutdown(u)))
  /\ WF_reactorVars(member = "reactor" /\ React!MainStep)
  /\ \A l \in {"main", "w1"} : WF_reactorVars(member = "reactor" /\ React!LoopStep(l))
  /\ WF_reactorVars(member = "reactor" /\ React!running("w1"))
  /\ \A b \in {"b1", "b2"} : WF_reactorVars(member = "reactor" /\ React!SendSegment(b))
  /\ WF_machineVars(member = "machine" /\ Machine!Update)

LoopsSpec ==
  LoopsInit /\ [][LoopsNext]_<<member, allvars, pollerVars, tcpVars, reactorVars, machineVars>> /\ LoopsFairness

\* Channel, EPollPoller and kernel agree on what is polled, and no epoll_ctl
\* fails, whatever is enabled, disabled and removed.
PollerAgrees == member = "poller" => Poll2!PollerAgrees
\* A connection's bytes keep their order, EPOLLOUT follows the output buffer,
\* the user sees up and then down, FIN follows the data and no channel dangles.
ConnectionIsSound == Tcp!ConnectionIsSound
\* The reactor's loops wake for their tasks and watch only live connections.
ReactorIsSafe == member = "reactor" => React!ReactorIsSafe
\* However transitions nest, exactly the current state is entered and not left.
TransitionsNest == member = "machine" => Machine!TransitionsNest

\* What each member is asked for (for the poller, by symmetry, one channel), ...
Asked ==
  \/ member = "loop" /\ pc # "before" /\ ~(Owed(queued) \subseteq Owed(ran))
  \/ member = "poller" /\ "c1" \in ready
  \/ member = "tcp" /\ c.state_ = "kDisconnecting"
  \/ member = "reactor" /\ browser["b1"].st = "connected"
  \/ member = "machine" /\ sm.name = "tcp" /\ opened \notin {"new", "no"}
\* ... and its answer.
Given ==
  \/ member = "loop" /\ (pc = "stopped" \/ Owed(queued) \subseteq Owed(ran))
  \/ member = "poller" /\ ("c1" \in active \/ ch["c1"].kernel = Poll2!NotPolled)
  \/ member = "tcp" /\ (c.fin \/ Tcp!Ended)
  \/ member = "reactor" /\ browser["b1"].eof /\ browser["b1"].got = React!processHttpRequest("file")
  \/ member = "machine" /\ sm.cur \in {"closed", "none"}
\* Who is about to go, ...
Leaving ==
  \/ member = "loop" /\ creator = "quit" /\ pc # "before"
  \/ member = "tcp" /\ peer # "open"
\* ... and has gone.
Left ==
  \/ member = "loop" /\ creator = "destroyed"
  \/ member = "tcp" /\ ~c.inMap /\ c.chan.kernel = Tcp!NotPolled
\* A functor queued from another thread or by the running loop is run unless
\* the loop stops, a ready channel is reported, a
\* shutdown is carried out, a request sent in one piece is answered whole, and
\* an opened TCP machine comes back to closed; a destructor that finds the loop
\* looping joins it, and a connection whose peer has gone leaves map and poller.
LoopsAnswer ==
  /\ Asked ~> Given
  /\ Leaving ~> Left
=============================================================================
