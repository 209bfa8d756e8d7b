------------------------------ MODULE MCQueues ------------------------------
(***************************************************************************)
(* The message queues, loggers, remote calls and packet replayers, one of  *)
(* them at a time; `member' says which one a behaviour is about.           *)
(***************************************************************************)
EXTENDS Naturals, Sequences

VARIABLES member,
          messages_, subscriptions_, subRunning, processed, published, subWaiting, subPc, message,
          made, pub, pubDraft, subOwner, changes, cleared, inbox, turns, subTaken,
          now, queue_, delayRunning, expiry, delayDraft, toNotify, delayPc, mode, timeout_point,
          delayWaiting, deadline, delayTaken,
          logger, run, logQueue, logWorker, logThread, logMain, stopRequested, pendingCount,
          strategy, rotating, remote, accepted,
          connection_, running_, receiver, header, next_request_id_, pending_calls_, promise,
          callPc, id, result, out, in, server, request, closer, rpcCrashed,
          serverRunning, stopped_, listening, owner, accept_thread_, backlog, handler,
          cap, replayMode, shm, shmName, proc, onWire, crashed, single

\* Two workers side by side, and one that goes on after a subscriber came or left.
Subscribed(how, to) == [strategy |-> how, subscribers |-> to, roundRobinIndex |-> 0]
Sub == INSTANCE PubSub WITH
         Workers <- {"w1", "w2"}, Publishers <- {"p1"}, Subscribers <- {"a", "b"}, Topics <- {"topic"},
         AtStart <- {Subscribed("BROADCAST", <<"a">>)},
         Priorities <- {1, 2}, MaxMessages <- 2, MaxChanges <- 0, running_ <- subRunning, waiting <- subWaiting,
         pc <- subPc, draft <- pubDraft, owner <- subOwner, taken <- subTaken
Turns == INSTANCE PubSub WITH
         Workers <- {"w1"}, Publishers <- {"p1"}, Subscribers <- {"a", "b", "c"}, Topics <- {"topic"},
         AtStart <- {Subscribed("ROUND_ROBIN", <<"a", "b">>), Subscribed("ROUND_ROBIN", <<"a", "b", "c">>)},
         Priorities <- {1}, MaxMessages <- 3, MaxChanges <- 1, running_ <- subRunning, waiting <- subWaiting,
         pc <- subPc, draft <- pubDraft, owner <- subOwner, taken <- subTaken

\* Two consumers of elements with one delay, and one of elements that may expire
\* in another order than they were put in.
Delay == INSTANCE DelayQueue WITH
         Consumers <- {"c1", "c2"}, Elements <- {"e1", "e2"}, Delays <- {1}, Timeouts <- {1}, TicksPerMs <- 2,
         MaxTime <- 3, running_ <- delayRunning, draft <- delayDraft, pc <- delayPc, waiting <- delayWaiting,
         taken <- delayTaken
Later == INSTANCE DelayQueue WITH
         Consumers <- {"c1"}, Elements <- {"e1", "e2"}, Delays <- {0, 1}, Timeouts <- {1}, TicksPerMs <- 2,
         MaxTime <- 3, running_ <- delayRunning, draft <- delayDraft, pc <- delayPc, waiting <- delayWaiting,
         taken <- delayTaken

\* Two runs of each logger with an outage, and one of the advanced logger over the
\* end of a day.
Log == INSTANCE Loggers WITH
         Loggers <- {"simple", "advanced", "lockfree"}, LogThreads <- {"t1", "t2"},
         LevelOf <- [t1 |-> <<4>>, t2 |-> <<3>>], SizeOf <- [t1 |-> <<2>>, t2 |-> <<4>>],
         QueueCapacity <- 1, MaxFileSize <- 3, MaxFiles <- 2, MaxRuns <- 2, MaxDays <- 1, MaxOutages <- 1
Night == INSTANCE Loggers WITH
         Loggers <- {"advanced"}, LogThreads <- {"t1", "t2"},
         LevelOf <- [t1 |-> <<4>>, t2 |-> <<3>>], SizeOf <- [t1 |-> <<2>>, t2 |-> <<4>>],
         QueueCapacity <- 1, MaxFileSize <- 3, MaxFiles <- 2, MaxRuns <- 1, MaxDays <- 2, MaxOutages <- 1

Rpcs == INSTANCE Rpc WITH
         Callers <- {"c1", "c2"}, Outcomes <- {"OK"}, MaxCalls <- 2, Clients <- {"c1", "c2"},
         pc <- callPc, crashed <- rpcCrashed

\* Packets of both sides in turn, out of time order, of one side, and one whose
\* direction is not known.
Packet(direction, time, len) == [direction |-> direction, time |-> time, len |-> len]
OneSided == <<Packet("client", 0, 1), Packet("client", 3, 2)>>
Replay == INSTANCE PcapTurns WITH
         Captures <- {<<Packet("client", 0, 3), Packet("server", 1, 2), Packet("client", 3, 0)>>,
                      <<Packet("server", 0, 2), Packet("client", 2, 3), Packet("server", 1, 2)>>,
                      OneSided, <<Packet("unknown", 0, 1), Packet("client", 1, 2)>>},
         ReplayModes <- {"original", "fixed", "floating", "rate"}, FixedIntervalMs <- 1, FloatPercent <- 50,
         TargetBytesPerSec <- 700, WrappedDelays <- {0, 2}, SleepChunk <- 2, LongestGap <- 3,
         MaxRuns <- [client |-> 1, server |-> 2]

subVars == <<messages_, subscriptions_, subRunning, processed, published, subWaiting, subPc, message,
             made, pub, pubDraft, subOwner, changes, cleared, inbox, turns, subTaken>>
delayVars == <<now, queue_, delayRunning, expiry, delayDraft, toNotify, delayPc, mode, timeout_point,
               delayWaiting, deadline, delayTaken>>
logVars == <<logger, run, logQueue, logWorker, logThread, logMain, stopRequested, pendingCount,
             strategy, rotating, remote, accepted>>
rpcVars == <<connection_, running_, receiver, header, next_request_id_, pending_calls_, promise,
             callPc, id, result, out, in, server, request, closer, rpcCrashed>>
serverVars == <<serverRunning, stopped_, listening, owner, accept_thread_, backlog, handler>>
pairVars == <<cap, replayMode, shm, shmName, proc, onWire, crashed>>
pcapVars == <<pairVars, single>>

QueuesInit ==
  /\ member \in {"pubsub", "turns", "delay", "later", "log", "night", "call", "serve", "pair", "single"}
  /\ (IF member = "turns" THEN Turns!Init ELSE Sub!Init)
  /\ (IF member = "later" THEN Later!Init ELSE Delay!Init) /\ Rpcs!Init /\ Rpcs!ServerInit
  /\ (IF member = "night" THEN Night!LoggerInit ELSE Log!LoggerInit)
  /\ (member \notin {"log", "night"} => logger = "simple")
  /\ Replay!PairInit /\ Replay!SingleInit
  /\ (member # "single" => replayMode = "original") /\ (member \notin {"pair", "single"} => cap = OneSided)

QueuesNext ==
  /\ UNCHANGED member
  /\ \/ member = "pubsub" /\ Sub!Next /\ UNCHANGED <<delayVars, logVars, rpcVars, serverVars, pcapVars>>
     \/ member = "turns" /\ Turns!Next /\ UNCHANGED <<delayVars, logVars, rpcVars, serverVars, pcapVars>>
     \/ member = "delay" /\ Delay!Next /\ UNCHANGED <<subVars, logVars, rpcVars, serverVars, pcapVars>>
     \/ member = "later" /\ Later!Next /\ UNCHANGED <<subVars, logVars, rpcVars, serverVars, pcapVars>>
     \/ member = "log" /\ Log!LoggerNext /\ UNCHANGED <<subVars, delayVars, rpcVars, serverVars, pcapVars>>
     \/ member = "night" /\ Night!LoggerNext /\ UNCHANGED <<subVars, delayVars, rpcVars, serverVars, pcapVars>>
     \/ member = "call" /\ Rpcs!Next /\ UNCHANGED <<subVars, delayVars, logVars, serverVars, pcapVars>>
     \/ member = "serve" /\ Rpcs!ServerNext /\ UNCHANGED <<subVars, delayVars, logVars, rpcVars, pcapVars>>
     \/ /\ member = "pair" /\ Replay!PairNext
        /\ UNCHANGED <<subVars, delayVars, logVars, rpcVars, serverVars, single>>
     \/ member = "single" /\ Replay!SingleNext /\ UNCHANGED <<subVars, delayVars, logVars, rpcVars, serverVars>>

InDelay == member \in {"delay", "later"}
InLog == member \in {"log", "night"}

\* The fairness of each member, as its own module states it.
QueuesFairness ==
  /\ WF_subVars(member = "pubsub" /\ Sub!Publish("p1")) /\ WF_subVars(member = "pubsub" /\ Sub!Notify("p1"))
  /\ WF_subVars(member = "pubsub" /\ Sub!Worker("w1")) /\ WF_subVars(member = "pubsub" /\ Sub!Worker("w2"))
  /\ WF_subVars(member = "pubsub" /\ subOwner \in {"stopped", "joining"} /\ Sub!Stop)
  /\ WF_delayVars(member = "delay" /\ Delay!Tick) /\ WF_delayVars(member = "later" /\ Later!Tick)
  /\ WF_delayVars(InDelay /\ Delay!NotifyOne) /\ WF_delayVars(InDelay /\ Delay!NotifyAll)
  /\ \A e \in {"e1", "e2"} : WF_delayVars(InDelay /\ Delay!Push(e))
  /\ \A c \in {"c1", "c2"} : /\ WF_delayVars(member = "delay" /\ Delay!Take(c))
                             /\ WF_rpcVars(member = "call" /\ Rpcs!DoCall(c))
                             /\ WF_serverVars(member = "serve" /\ Rpcs!Handle(c))
  /\ WF_delayVars(member = "later" /\ Later!Take("c1"))
  /\ WF_logVars(InLog /\ Log!WorkerStep) /\ WF_logVars(InLog /\ Log!LogMainStep)
  /\ \A p \in {"t1", "t2"} : WF_logVars(InLog /\ Log!ThreadStep(p))
  /\ WF_rpcVars(member = "call" /\ Rpcs!Receiver) /\ WF_rpcVars(member = "call" /\ Rpcs!DisconnectJoin)
  /\ WF_rpcVars(member = "call" /\ Rpcs!DisconnectClose)
  /\ WF_serverVars(member = "serve" /\ Rpcs!StopListener) /\ WF_serverVars(member = "serve" /\ Rpcs!StopJoin)
  /\ WF_serverVars(member = "serve" /\ Rpcs!AcceptTop) /\ WF_serverVars(member = "serve" /\ Rpcs!Accept)
  /\ WF_pairVars(member = "pair" /\ Replay!clientStep) /\ WF_pairVars(member = "pair" /\ Replay!serverStep)

QueuesSpec ==
  /\ QueuesInit /\ [][QueuesNext]_<<member, subVars, delayVars, logVars, rpcVars, serverVars, pcapVars>>
  /\ QueuesFairness

\* The statistics of the publish/subscribe queue add up, messages leave by
\* priority and age, a subscriber gets each at most once, and ROUND_ROBIN takes
\* turns, also when a subscriber came or left.
DeliveryIsOrderly == (member = "pubsub" => Sub!DeliveryIsOrderly) /\ (member = "turns" => Turns!DeliveryIsOrderly)
\* Elements leave the delay queue in order of expiry, and take()'s less than 1 ms
\* early, the others' not at all.
DelaysAreKept == [][InDelay => Delay!TakenInExpiryOrder' /\ Delay!LessThanAMsEarly]_delayVars
\* Every accepted entry is written once, in order, until the process ends or is
\* killed, and rotation keeps the newest.
LogIsComplete == InLog => Log!LogIsComplete
\* RPC answers reach their own callers and pending calls are those still open;
\* the server has an accept thread exactly while it runs.
RpcIsSafe == (member = "call" => Rpcs!CallsMatch) /\ (member = "serve" => Rpcs!AcceptThreadMatches)
\* Client and server replay the capture in order, over deadlines and restarts.
WireFollowsCapture == member = "pair" => Replay!WireFollowsCapture
\* At constant rate send_pcap waits exactly as long as the bytes take.
RateIsKept == member = "single" => Replay!RateIsKept

\* What a member still owes (where any of several alike may owe it again and
\* again, the first of them is looked at).
Owed ==
  \/ member = "pubsub" /\ messages_ # {} /\ subRunning
  \/ InDelay /\ delayRunning /\ queue_ # {} /\ Delay!InTake = DOMAIN delayPc
  \/ InDelay /\ ~delayRunning /\ delayPc["c1"] # "idle"
  \/ InLog /\ logMain \in {"stop", "notify", "joinWorker"}
  \/ member = "call" /\ rpcCrashed = "no" /\ callPc["c1"] # "idle"
  \/ member = "serve" /\ owner \in {"stopping", "joining"}
  \/ member = "serve" /\ ~serverRunning /\ \E c \in {"c1", "c2"} : handler[c] \notin {"none", "ended"}
  \/ member = "pair" /\ \E me \in {"client", "server"} : ~Replay!At(me, "off")
\* A published message is processed; an element is taken while every consumer is
\* in take(), and shutdown sends them home; a logger that is destroyed ends; calls
\* and disconnect() return though the server may be silent, unless a call connects
\* again after running_ was cleared, which starts the receiver that disconnect()
\* then joins; the server's stop() returns and its client threads end; both
\* replayers end.
OwedIsDone ==
  /\ Owed ~> ~Owed
  /\ (member = "call" /\ closer # "idle") ~> (closer = "idle" \/ running_ \/ rpcCrashed # "no")
=============================================================================
