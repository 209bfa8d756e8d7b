----------------------------- MODULE Balancers -----------------------------
(***************************************************************************)
(* Stdbalancing: a LoadBalancer with one of six selection algorithms, and  *)
(* the RequestSimulator that sends requests through it: the main thread    *)
(* selects a server and queues the request, worker threads serve it and    *)
(* give the connection back.                                               *)
(*                                                                         *)
(* selectServer() holds the balancer's mutex, but the connection counters  *)
(* are atomics the workers change without it: an algorithm that looks at   *)
(* them reads them one by one.  Only the main thread calls the balancer,   *)
(* so that calls of it need no interleaving among themselves.              *)
(***************************************************************************)
EXTENDS Integers, Sequences, SequencesExt, FiniteSets, FiniteSetsExt

CONSTANTS Algorithms,   \* subset of {"rr", "wrr", "hash", "least", "wleast", "dynamic"}
          Initial,      \* the servers registered at first, in order
          Spare,        \* one more server, registered later
          WeightOf,     \* server -> weight
          VirtualNodes, \* virtual_nodes_per_server_
          HashOf,       \* <<server, i>> -> place on the ring
          KeyHash,      \* the hashes of the keys used
          ResponseWeight, ResponseTimes, \* percent; what a request may take
          Threads,
          MaxRequests,  \* bound: requests of a batch, by algorithm
          MaxAdmin      \* changes of the servers, by algorithm

VARIABLES algo,
          servers,   \* servers_: sequence of ids
          srv,       \* the Server objects
          rrIndex, weights, ring, avgTime, selectedAt, \* state of the algorithms
          bmain, pool, tasks, stopping,
          share,     \* ghost: selections since the counters were last level
          disturbed  \* ghost: reset() found requests in flight
balancerVars == <<algo, servers, srv, rrIndex, weights, ring, avgTime, selectedAt,
                  bmain, pool, tasks, stopping, share, disturbed>>

Ids == Range(Initial) \cup {Spare}
Algo == <<rrIndex, weights, ring, avgTime, selectedAt>>
Server(w) == [weight |-> w, conns |-> 0, total |-> 0, failed |-> 0, alive |-> TRUE]
Level == [n |-> 0, served |-> [s \in Ids |-> 0], steady |-> TRUE]
Resting == [pc |-> "go", seen |-> <<>>, again |-> <<>>, picked |-> "none", requests |-> 0, admin |-> 0]

(***************************************************************************)
(* The ring: an ordered map from hashes to servers.                        *)
(***************************************************************************)
addServerToHashRing(r, s) ==
  LET nodes == {HashOf[s, i] : i \in 0..VirtualNodes * WeightOf[s] - 1}
  IN [h \in DOMAIN r \cup nodes |-> IF h \in nodes THEN s ELSE r[h]]
\* MUTANT: the node after an erased one is skipped over and lost.
removeServerSkipsOne(r, s) ==
  [h \in {h \in DOMAIN r : r[h] # s /\ ~\E g \in DOMAIN r :
              g < h /\ r[g] = s /\ \A k \in DOMAIN r : ~(g < k /\ k < h)} |-> r[h]]
removeServerFromHashRing(r, s) == [h \in {h \in DOMAIN r : r[h] # s} |-> r[h]]
rebuildHashRing(ss) == FoldLeft(addServerToHashRing, <<>>, ss)

\* lower_bound, and on from there, around the ring, to a server that is alive.
Walk(r, key, alive) ==
  LET at(h) == IF h >= key THEN h - key ELSE h - key + 1 + Max(DOMAIN r \cup {key})
      open == {h \in DOMAIN r : r[h] \in alive}
  IN IF open = {} THEN "none" ELSE r[CHOOSE h \in open : \A g \in open : at(h) <= at(g)]

BalancerInit ==
  /\ algo \in Algorithms
  /\ servers = Initial
  /\ srv = [s \in Ids |-> Server(WeightOf[s])]
  /\ rrIndex = 0 /\ weights = [s \in Range(Initial) |-> 0]
  /\ ring = IF algo = "hash" THEN rebuildHashRing(Initial) ELSE <<>>
  /\ avgTime = [s \in Ids |-> 0] /\ selectedAt = {}
  /\ bmain = Resting /\ pool = [t \in Threads |-> [pc |-> "lock", task |-> "none"]]
  /\ tasks = <<>> /\ stopping = FALSE
  /\ share = Level /\ disturbed = FALSE

getAvailableServers == SelectSeq(servers, LAMBDA s : srv[s].alive)
Alive == Range(getAvailableServers)
InFlight(s) == Cardinality({i \in 1..Len(tasks) : tasks[i] = s})
               + Cardinality({t \in Threads : pool[t].task = s /\ pool[t].pc \in {"work", "drop"}})
               + (IF bmain.picked = s THEN 1 ELSE 0)

(***************************************************************************)
(* Administration, between two requests.                                   *)
(***************************************************************************)
MayAdminister == bmain.pc = "go" /\ bmain.admin < MaxAdmin[algo]
AfterAdmin == bmain' = [bmain EXCEPT !.admin = @ + 1]

addServer ==
  /\ MayAdminister /\ Spare \notin Range(servers)
  /\ servers' = Append(servers, Spare)
  /\ weights' = [s \in Range(servers') |-> IF s = Spare THEN 0 ELSE weights[s]]
  /\ ring' = IF algo = "hash" THEN addServerToHashRing(ring, Spare) ELSE ring
  /\ share' = [share EXCEPT !.steady = FALSE]
  /\ AfterAdmin
  /\ UNCHANGED <<algo, srv, rrIndex, avgTime, selectedAt, pool, tasks, stopping, disturbed>>

removeServer(s) ==
  /\ MayAdminister /\ s \in Range(servers)
  /\ servers' = SelectSeq(servers, LAMBDA x : x # s)
  /\ weights' = [x \in Range(servers') |-> weights[x]]
  /\ ring' = removeServerFromHashRing(ring, s)
  /\ rrIndex' = IF servers' = <<>> THEN 0 ELSE rrIndex
  /\ share' = [share EXCEPT !.steady = FALSE]
  /\ AfterAdmin
  /\ UNCHANGED <<algo, srv, avgTime, selectedAt, pool, tasks, stopping, disturbed>>

Mark(s, alive) ==
  /\ MayAdminister /\ s \in Range(servers) /\ srv[s].alive # alive
  /\ srv' = [srv EXCEPT ![s].alive = alive]
  /\ share' = [share EXCEPT !.steady = FALSE]
  /\ AfterAdmin
  /\ UNCHANGED <<algo, servers, Algo, pool, tasks, stopping, disturbed>>
markServerDown(s) == Mark(s, FALSE)
markServerUp(s) == Mark(s, TRUE)

reset ==
  /\ MayAdminister
  /\ srv' = [s \in Ids |-> IF s \in Range(servers)
                           THEN [srv[s] EXCEPT !.conns = 0, !.total = 0, !.failed = 0] ELSE srv[s]]
  /\ rrIndex' = 0 /\ weights' = [s \in Range(servers) |-> 0]
  /\ ring' = IF algo = "hash" THEN rebuildHashRing(servers) ELSE ring
  /\ avgTime' = [s \in Ids |-> 0] /\ selectedAt' = {}
  /\ share' = [Level EXCEPT !.steady = (Alive = Range(servers))]
  /\ disturbed' = (disturbed \/ \E s \in Range(servers) : InFlight(s) > 0)
  /\ AfterAdmin
  /\ UNCHANGED <<algo, servers, pool, tasks, stopping>>

(***************************************************************************)
(* selectServer: addConnection() for the one chosen, and the request is    *)
(* carried to the queue.                                                   *)
(***************************************************************************)
addConnection(s) == srv' = [srv EXCEPT ![s].conns = @ + 1, ![s].total = @ + 1]

Chosen(s) ==
  /\ addConnection(s)
  /\ bmain' = [bmain EXCEPT !.pc = "push", !.picked = s, !.seen = <<>>, !.again = <<>>,
                            !.requests = @ + 1]
  /\ share' = [share EXCEPT !.n = @ + 1, !.served[s] = @ + 1]
  /\ UNCHANGED <<algo, servers, pool, tasks, stopping, disturbed>>
NoneChosen ==
  /\ bmain' = [bmain EXCEPT !.pc = "go", !.seen = <<>>, !.again = <<>>, !.requests = @ + 1]
  /\ UNCHANGED <<algo, servers, srv, pool, tasks, stopping, share, disturbed>>

roundRobin ==
  LET avail == getAvailableServers
  IN Chosen(avail[(rrIndex % Len(avail)) + 1]) /\ rrIndex' = rrIndex + 1
     /\ UNCHANGED <<weights, ring, avgTime, selectedAt>>

\* Every server gains its weight, the first with the most is chosen and pays
\* the weight of all.
smoothWeightedRoundRobin ==
  LET avail == getAvailableServers
      raised == [s \in DOMAIN weights |-> weights[s] + (IF s \in Alive THEN WeightOf[s] ELSE 0)]
      total == FoldLeft(LAMBDA n, s : n + WeightOf[s], 0, avail)
      k == CHOOSE k \in 1..Len(avail) :
             \A j \in 1..Len(avail) : raised[avail[k]] > raised[avail[j]]
                                        \/ (raised[avail[k]] = raised[avail[j]] /\ k <= j)
  IN Chosen(avail[k]) /\ weights' = [raised EXCEPT ![avail[k]] = @ - total]
     /\ UNCHANGED <<rrIndex, ring, avgTime, selectedAt>>

hashSelect ==
  \E key \in KeyHash :
    /\ IF Walk(ring, key, Alive) = "none" THEN NoneChosen ELSE Chosen(Walk(ring, key, Alive))
    /\ UNCHANGED Algo

selectServer ==
  /\ bmain.pc = "go" /\ bmain.requests < MaxRequests[algo]
  /\ IF getAvailableServers = <<>> THEN NoneChosen /\ UNCHANGED Algo
     ELSE CASE algo = "rr" -> roundRobin
            [] algo = "wrr" -> smoothWeightedRoundRobin
            [] algo = "hash" -> hashSelect
            [] OTHER -> /\ bmain' = [bmain EXCEPT !.pc = "scan"]
                        /\ UNCHANGED <<algo, servers, srv, Algo, pool, tasks, stopping, share, disturbed>>

\* One counter is read.  LeastConnections goes through them a second time.
Scan ==
  /\ bmain.pc = "scan"
  /\ LET avail == getAvailableServers
         next(seq) == srv[avail[Len(seq) + 1]].conns
     IN \/ /\ Len(bmain.seen) < Len(avail)
           /\ bmain' = [bmain EXCEPT !.seen = Append(@, next(bmain.seen))]
        \/ /\ algo = "least" /\ Len(bmain.seen) = Len(avail) /\ Len(bmain.again) < Len(avail)
           /\ bmain' = [bmain EXCEPT !.again = Append(@, next(bmain.again))]
  /\ UNCHANGED <<algo, servers, srv, Algo, pool, tasks, stopping, share, disturbed>>

ScannedAll == bmain.pc = "scan" /\ Len(bmain.seen) = Len(getAvailableServers)

leastConnections ==
  /\ algo = "least" /\ ScannedAll /\ Len(bmain.again) = Len(bmain.seen)
  /\ LET least == {k \in 1..Len(bmain.again) : bmain.again[k] = Min(Range(bmain.seen))}
     IN IF least = {} THEN NoneChosen ELSE \E k \in least : Chosen(getAvailableServers[k])
  /\ UNCHANGED Algo

\* Smallest connections / weight; of several the first with the largest weight.
weightedLeastConnections ==
  /\ algo = "wleast" /\ ScannedAll
  /\ LET avail == getAvailableServers
         w(k) == WeightOf[avail[k]]
         better(k, j) == bmain.seen[k] * w(j) < bmain.seen[j] * w(k)
         same(k, j) == bmain.seen[k] * w(j) = bmain.seen[j] * w(k)
     IN \E k \in 1..Len(avail) :
          /\ \A j \in 1..Len(avail) :
               better(k, j) \/ (same(k, j) /\ (w(k) > w(j) \/ (w(k) = w(j) /\ k <= j)))
          /\ Chosen(avail[k])
  /\ UNCHANGED Algo

\* calculateDynamicScore as a fraction over one denominator per server.
Score(s, conns) ==
  LET total == IF srv[s].total = 0 THEN 1 ELSE srv[s].total
  IN [n |-> (100 - ResponseWeight) * conns * total
              + ResponseWeight * avgTime[s] * WeightOf[s] * total
              + 1000 * srv[s].failed * WeightOf[s],
      d |-> WeightOf[s] * total]
dynamicLeastConnections ==
  /\ algo = "dynamic" /\ ScannedAll
  /\ LET avail == getAvailableServers
         sc(k) == Score(avail[k], bmain.seen[k])
         less(k, j) == sc(k).n * sc(j).d < sc(j).n * sc(k).d
     IN \E k \in 1..Len(avail) :
          /\ \A j \in 1..Len(avail) : ~less(j, k) /\ (j < k => less(k, j))
          /\ Chosen(avail[k])
          /\ selectedAt' = selectedAt \cup {avail[k]}
  /\ UNCHANGED <<rrIndex, weights, ring, avgTime>>

(***************************************************************************)
(* RequestSimulator.                                                       *)
(***************************************************************************)
Wake(ts) == [t \in Threads |-> IF t \in ts THEN [pool[t] EXCEPT !.pc = "lock"] ELSE pool[t]]
Asleep == {t \in Threads : pool[t].pc = "sleep"}

simulateRequest ==
  /\ bmain.pc = "push"
  /\ tasks' = Append(tasks, bmain.picked)
  /\ bmain' = [bmain EXCEPT !.pc = "go", !.picked = "none"]
  /\ IF Asleep = {} THEN UNCHANGED pool ELSE \E t \in Asleep : pool' = Wake({t})
  /\ UNCHANGED <<algo, servers, srv, Algo, stopping, share, disturbed>>

Idle == tasks = <<>> /\ \A t \in Threads : pool[t].task = "none"
waitForCompletion ==
  /\ \/ bmain.pc = "go" /\ bmain.requests = MaxRequests[algo]
     \/ bmain.pc = "await"
  /\ bmain' = [bmain EXCEPT !.pc = IF Idle THEN "completed" ELSE "asleep"]
  /\ UNCHANGED <<algo, servers, srv, Algo, pool, tasks, stopping, share, disturbed>>

Stop ==
  /\ bmain.pc = "completed"
  /\ stopping' = TRUE /\ pool' = Wake(Asleep)
  /\ bmain' = [bmain EXCEPT !.pc = "joining"]
  /\ UNCHANGED <<algo, servers, srv, Algo, tasks, share, disturbed>>
Join ==
  /\ bmain.pc = "joining" /\ \A t \in Threads : pool[t].pc = "exit"
  /\ bmain' = [bmain EXCEPT !.pc = "end"]
  /\ UNCHANGED <<algo, servers, srv, Algo, pool, tasks, stopping, share, disturbed>>

TakeTask(t) ==
  /\ pool[t].pc = "lock"
  /\ IF tasks # <<>>
     THEN tasks' = Tail(tasks) /\ pool' = [pool EXCEPT ![t] = [pc |-> "work", task |-> Head(tasks)]]
     ELSE pool' = [pool EXCEPT ![t].pc = IF stopping THEN "exit" ELSE "sleep"] /\ UNCHANGED tasks
  /\ UNCHANGED <<algo, servers, srv, Algo, bmain, stopping, share, disturbed>>

\* MUTANT: nothing is given back to a server that was marked down.
removeConnectionFromLive(t) ==
  LET s == pool[t].task
  IN /\ \/ /\ algo # "dynamic" /\ pool[t].pc = "work"
           /\ pool' = [pool EXCEPT ![t].pc = IF srv[s].alive THEN "drop" ELSE "served"]
           /\ UNCHANGED srv
        \/ /\ pool[t].pc = "drop"
           /\ srv' = [srv EXCEPT ![s].conns = @ - 1]
           /\ pool' = [pool EXCEPT ![t].pc = "served"]
     /\ UNCHANGED <<algo, servers, Algo, bmain, tasks, stopping, share, disturbed>>
\* removeConnection() looks at the counter and lowers it in two steps;
\* recordResponse() does so under the balancer's mutex.
removeConnection(t) ==
  LET s == pool[t].task
  IN /\ \/ /\ algo # "dynamic" /\ pool[t].pc = "work"
           /\ pool' = [pool EXCEPT ![t].pc = IF srv[s].conns > 0 THEN "drop" ELSE "served"]
           /\ UNCHANGED srv
        \/ /\ pool[t].pc = "drop"
           /\ srv' = [srv EXCEPT ![s].conns = @ - 1]
           /\ pool' = [pool EXCEPT ![t].pc = "served"]
     /\ UNCHANGED <<algo, servers, Algo, bmain, tasks, stopping, share, disturbed>>

updateAverageResponseTime(avg, time) == IF avg = 0 THEN time ELSE (time + 4 * avg) \div 5
recordResponse(t) ==
  /\ algo = "dynamic" /\ pool[t].pc = "work" /\ bmain.pc # "scan"
  /\ pool' = [pool EXCEPT ![t].pc = "served"]
  /\ LET s == pool[t].task
     IN IF s \notin Range(servers) THEN UNCHANGED <<srv, avgTime, selectedAt>>
        ELSE /\ \E success \in BOOLEAN :
                  srv' = [srv EXCEPT ![s].conns = IF @ > 0 THEN @ - 1 ELSE @,
                                     ![s].failed = IF success THEN @ ELSE @ + 1]
             /\ IF s \in selectedAt
                THEN \E time \in ResponseTimes :
                       avgTime' = [avgTime EXCEPT ![s] = updateAverageResponseTime(@, time)]
                ELSE UNCHANGED avgTime
             /\ selectedAt' = selectedAt \ {s}
  /\ UNCHANGED <<algo, servers, rrIndex, weights, ring, bmain, tasks, stopping, share, disturbed>>

\* MUTANT: the last worker does not say that all is done.
TaskDoneSilently(t) ==
  /\ pool[t].pc = "served"
  /\ pool' = [pool EXCEPT ![t] = [pc |-> "lock", task |-> "none"]]
  /\ UNCHANGED <<algo, servers, srv, Algo, bmain, tasks, stopping, share, disturbed>>
TaskDone(t) ==
  /\ pool[t].pc = "served"
  /\ pool' = [pool EXCEPT ![t] = [pc |-> "lock", task |-> "none"]]
  /\ bmain' = IF bmain.pc = "asleep" /\ tasks = <<>> /\ \A u \in Threads \ {t} : pool[u].task = "none"
              THEN [bmain EXCEPT !.pc = "await"] ELSE bmain
  /\ UNCHANGED <<algo, servers, srv, Algo, tasks, stopping, share, disturbed>>

MainStep == \/ selectServer \/ Scan \/ leastConnections \/ weightedLeastConnections
            \/ dynamicLeastConnections \/ simulateRequest \/ waitForCompletion \/ Stop \/ Join
WorkerStep(t) == TakeTask(t) \/ removeConnection(t) \/ recordResponse(t) \/ TaskDone(t)
Administer == \/ addServer \/ reset
              \/ \E s \in Ids : removeServer(s) \/ markServerDown(s) \/ markServerUp(s)
BalancerNext == MainStep \/ Administer \/ \E t \in Threads : WorkerStep(t)
BalancerFairness == WF_balancerVars(MainStep) /\ \A t \in Threads : WF_balancerVars(WorkerStep(t))
BalancerSpec == BalancerInit /\ [][BalancerNext]_balancerVars /\ BalancerFairness

(***************************************************************************)
(* Properties.                                                             *)
(***************************************************************************)
\* A server's connection counter is the number of requests that were given to
\* it and are not yet served, also while it is marked down or removed; only
\* recordResponse() of the dynamic algorithm passes over a removed server.
ConnectionsAreRequests ==
  ~disturbed => \A s \in Ids :
    srv[s].conns = InFlight(s) \/ (algo = "dynamic" /\ (s = Spare \/ s \notin Range(servers)))

\* While the servers stay the same, plain round robin serves them within one
\* request of each other, and weighted round robin gives each server its
\* weight's share exactly, after every round of as many requests as the
\* weights add up to.
ShareIsExact ==
  share.steady =>
    LET W == FoldLeft(LAMBDA n, s : n + WeightOf[s], 0, servers)
    IN /\ algo = "rr" => \A s, u \in Range(servers) : share.served[s] <= share.served[u] + 1
       /\ (algo = "wrr" /\ servers # <<>>) => \A s \in Range(servers) :
            share.n % W = 0 => share.served[s] = (share.n \div W) * WeightOf[s]

\* Consistent hashing: a server that comes takes keys, one that goes gives its
\* keys away, and no key moves between two servers that stay.
OnlyItsKeysMove ==
  [][(algo = "hash" /\ servers # servers') =>
       \A key \in KeyHash :
         LET before == Walk(ring, key, Range(servers))
             after == Walk(ring', key, Range(servers'))
         IN before # after =>
              \/ after \in Range(servers') \ Range(servers)
              \/ before \in Range(servers) \ Range(servers')]_balancerVars

\* So the selections are fair and the counters they rest on are true.
LoadIsTrue == ConnectionsAreRequests /\ ShareIsExact
=============================================================================
