----------------------------- MODULE MCServices -----------------------------
(***************************************************************************)
(* The HTTP clients and servers, the Cow daemon, the UPF's packet path and *)
(* the NF registry, one of them at a time; `member' says which one a       *)
(* behaviour is about.                                                     *)
(***************************************************************************)
EXTENDS Integers, Sequences

VARIABLES member,
          idle, active, conn, upc, want, have, redirect, poolRunning, housekeeper,
          ssl, running, listening, backlog, apc, accepted, connection_queue, wpc, serving,
          active_connections, spc, client, tls,
          call, wire, session, breaks,
          pidFile, sockFile, daemon, cowServer, user, command, kills, crossed,
          program, rx, core, avail, inTx, raced,
          nfInstances_, nfInstancesByType_, nfRunning, checker

Pool == INSTANCE ConnPool WITH
          Clients <- {"c"}, Holders <- {"w"}, Hosts <- {"h"}, Conns <- {"x1", "x2"}, MaxPerHost <- 1,
          MaxRedirects <- 1, running <- poolRunning

\* Two workers and two clients in plain text; and one of each, with or without TLS,
\* for all that a client may send.
Web == INSTANCE HttpServer WITH
          WebClients <- {"c1", "c2"}, Workers <- {"w1", "w2"}, MaxConnections <- 1, Requests <- {"request"}, MaxRequests <- 1,
          Flights <- 0
Tls == INSTANCE HttpServer WITH
          WebClients <- {"c1"}, Workers <- {"w1"}, MaxConnections <- 1,
          Requests <- {"request", "last", "bad"}, MaxRequests <- 2, Flights <- 2

\* Two calls at the same time, and calls one by one: a file, sizes that fit the
\* first chunk and do not, hosts and ports without a server, TLS on both sides
\* or on one, paths that are refused, and an upload.
At(host, path) == <<host, ":", "8080">> \o path
UrlOf == [g1 |-> <<"http", ":", "/", "/">> \o At("h", <<"/", "f">>), g2 |-> At("h", <<"/", "v3">>),
          g3 |-> <<"https", ":", "/", "/", "t", "/", "v1">>, g4 |-> At("h", <<>>),
          g5 |-> <<"https", ":", "/", "/", "t">>, g6 |-> <<"nowhere", "/", "f">>, g7 |-> <<"h", "/", "f">>,
          g8 |-> At("h", <<"/", "big">>), g9 |-> At("h", <<"/", "none">>), g0 |-> At("h", <<"/", "big">>),
          p1 |-> At("h", <<"/", "f">>)]
Calls == DOMAIN UrlOf
Paths == {<<"/">>} \cup {<<"/", f>> : f \in {"f", "v1", "v3", "big", "none"}}
Asio == INSTANCE AsioHttp WITH
          Batches <- {{"g1", "g2"}} \cup {{c} : c \in Calls \ {"g1", "g2"}},
          MethodOf <- [c \in Calls |-> IF c = "p1" THEN "POST" ELSE IF c = "g9" THEN "HEAD" ELSE "GET"],
          BodyOf <- [c \in Calls |-> IF c = "p1" THEN 2 ELSE 0],
          SocketOf <- [c \in Calls |-> IF c \in {"g3", "g8"} THEN "ssl" ELSE "tcp"],
          Listening <- {<<<<"h">>, "8080">>, <<<<"t">>, "443">>}, Resolvable <- {<<"h">>, <<"t">>},
          Resource <- [p \in Paths |-> CASE p = <<"/">> -> [kind |-> "other", size |-> 0]
                                         [] p = <<"/", "f">> -> [kind |-> "file", size |-> 2]
                                         [] p = <<"/", "none">> -> [kind |-> "file", size |-> -1]
                                         [] p = <<"/", "v1">> -> [kind |-> "size", size |-> 1]
                                         [] p = <<"/", "v3">> -> [kind |-> "size", size |-> 3]
                                         [] OTHER -> [kind |-> "size", size |-> 9]],
          ChunkSize <- 2, FirstChunk <- 1, MaxVirtual <- 4, MaxBreaks <- 1

\* One daemon with its users and commands; and three starts, a stop and a kill in
\* any order.
Daemons == INSTANCE Cow WITH
          Starts <- {1}, PortOf <- <<8899>>, CowUsers <- {"u1", "u2"}, MaxSays <- 1,
          Commands <- <<[verb |-> "KICK", id |-> 1], [verb |-> "STOP", id |-> 0], [verb |-> "LIST", id |-> 0]>>,
          MaxKills <- 0, server <- cowServer
Race == INSTANCE Cow WITH
          Starts <- 1..3, PortOf <- <<8899, 8899, 9000>>, CowUsers <- {"u1"}, MaxSays <- 0,
          Commands <- <<[verb |-> "STOP", id |-> 0]>>, MaxKills <- 1, server <- cowServer

Plane == INSTANCE Upf WITH
          Programs <- {"dpdk", "rss", "complete"}, UpfCores <- 1..5, NumQueues <- 2, RingSize <- 2, Burst <- 2,
          NumMbufs <- 3, Ues <- {"u1"}

\* The registry alone: the AMF's own instance has not been initialized.
Nrf == INSTANCE NfManagement WITH
          NfIds <- {"a", "b"}, NfTypes <- {"smf", "upf"}, HealthyFor <- 2, ExpireAfter <- 3, MaxListed <- 2,
          running <- nfRunning, amfMutex_ <- "free", instanceMutex_ <- "free", isInitialized_ <- FALSE,
          registered_ <- FALSE, heartbeatRunning_ <- FALSE, monitoringRunning_ <- FALSE,
          heartbeatThread_ <- "none", monitoringThread_ <- "none", starter <- "idle", stopper <- "idle",
          lastHeartbeat <- FALSE

poolVars == <<idle, active, conn, upc, want, have, redirect, poolRunning, housekeeper>>
webVars == <<ssl, running, listening, backlog, apc, accepted, connection_queue, wpc, serving,
             active_connections, spc, client, tls>>
asioVars == <<call, wire, session, breaks>>
cowVars == <<pidFile, sockFile, daemon, cowServer, user, command, kills, crossed>>
upfVars == <<program, rx, core, avail, inTx, raced>>
nfVars == <<nfInstances_, nfInstancesByType_, nfRunning, checker>>

ServicesInit ==
  /\ member \in {"pool", "web", "tls", "asio", "cow", "race", "upf", "nrf"}
  /\ Pool!PoolInit /\ Nrf!NfInit
  /\ IF member = "race" THEN Race!CowInit ELSE Daemons!CowInit
  /\ IF member = "tls" THEN Tls!ServerInit ELSE Web!ServerInit /\ ssl = "off"
  /\ Asio!AsioInit /\ (member # "asio" => call["p1"].pc = "idle")
  /\ Plane!UpfInit /\ (member # "upf" => program = "rss")

ServicesNext ==
  /\ UNCHANGED member
  /\ \/ member = "pool" /\ Pool!PoolNext /\ UNCHANGED <<webVars, asioVars, cowVars, upfVars, nfVars>>
     \/ member = "web" /\ Web!ServerNext /\ UNCHANGED <<poolVars, asioVars, cowVars, upfVars, nfVars>>
     \/ member = "tls" /\ Tls!ServerNext /\ UNCHANGED <<poolVars, asioVars, cowVars, upfVars, nfVars>>
     \/ member = "asio" /\ Asio!AsioNext /\ UNCHANGED <<poolVars, webVars, cowVars, upfVars, nfVars>>
     \/ member = "cow" /\ Daemons!CowNext /\ UNCHANGED <<poolVars, webVars, asioVars, upfVars, nfVars>>
     \/ member = "race" /\ Race!CowNext /\ UNCHANGED <<poolVars, webVars, asioVars, upfVars, nfVars>>
     \/ member = "upf" /\ Plane!UpfNext /\ UNCHANGED <<poolVars, webVars, asioVars, cowVars, nfVars>>
     \/ member = "nrf" /\ Nrf!NfNext /\ UNCHANGED <<poolVars, webVars, asioVars, cowVars, upfVars>>

\* The fairness of each member, as its own module states it.
ServicesFairness ==
  /\ \A u \in {"c", "w"} : /\ WF_poolVars(member = "pool" /\ Pool!UserStep(u))
                           /\ SF_poolVars(member = "pool" /\ Pool!WaitTimesOut(u))
  /\ WF_poolVars(member = "pool" /\ Pool!cleanup_worker) /\ WF_poolVars(member = "pool" /\ ~poolRunning /\ Pool!stop)
  /\ WF_webVars(member = "web" /\ Web!AcceptStep) /\ WF_webVars(member = "tls" /\ Tls!AcceptStep)
  /\ WF_webVars(member = "web" /\ spc # "out" /\ Web!stop) /\ WF_webVars(member = "tls" /\ spc # "out" /\ Tls!stop)
  /\ WF_webVars(member = "tls" /\ Tls!WorkerStep("w1")) /\ WF_webVars(member = "tls" /\ Tls!RequestTimeout("w1"))
  /\ \A w \in {"w1", "w2"} : /\ WF_webVars(member = "web" /\ Web!WorkerStep(w))
                             /\ WF_webVars(member = "web" /\ Web!RequestTimeout(w))
  /\ WF_asioVars(member = "asio" /\ \E c \in Calls : Asio!AsioClient(c))
  /\ WF_asioVars(member = "asio" /\ \E c \in Calls : Asio!AsioServer(c))
  /\ \A d \in 1..3 : WF_cowVars(member = "race" /\ Race!Daemon(d))
  /\ WF_cowVars(member = "race" /\ Race!Handler) /\ WF_cowVars(member = "cow" /\ Daemons!Daemon(1))
  /\ \A u \in {"u1", "u2"} : /\ WF_cowVars(member = "cow" /\ Daemons!onWritten(u))
                             /\ WF_cowVars(member = "cow" /\ Daemons!doRead(u))
  /\ WF_cowVars(member = "cow" /\ \E k \in 1..3 : Daemons!handleCommand(k))
  /\ WF_upfVars(member = "upf" /\ ~raced /\ Plane!TxDone)
  /\ \A c \in 1..5 : WF_upfVars(member = "upf" /\ ~raced /\ Plane!CoreStep(c))
  /\ WF_nfVars(member = "nrf" /\ Nrf!Checker)

ServicesSpec ==
  /\ ServicesInit /\ [][ServicesNext]_<<member, poolVars, webVars, asioVars, cowVars, upfVars, nfVars>>
  /\ ServicesFairness

\* A pooled connection is in one place and one pair of hands, and is counted.
PoolIsExclusive == member = "pool" => Pool!PoolIsExclusive
\* The HTTPS server counts its connections and serves each of them once.
ConnectionsAccounted ==
  (member = "web" => Web!ConnectionsAccounted) /\ (member = "tls" => Tls!ConnectionsAccounted)
\* The asio client returns whole bodies, and the answer to what it asked.
AnswerIsWhole == member = "asio" => Asio!AnswerIsWhole
\* Cow lists its sessions, and the files name the daemon that serves.
DaemonIsConsistent ==
  (member = "cow" => Daemons!DaemonIsConsistent) /\ (member = "race" => Race!DaemonIsConsistent)
\* The UPF loses no mbuf, and its tunnels keep the packet.
PacketsAccounted == member = "upf" => Plane!PacketsAccounted
\* A registered NF is in its index, and found while its heartbeats are in time.
RegistryServes == member = "nrf" => Nrf!RegistryServes

\* What a member still owes; of the two NFs, which are alike, the first.
Owed ==
  \/ member = "pool" /\ upc["c"] # "out"
  \/ member \in {"web", "tls"} /\ running /\ \E c \in DOMAIN client : client[c].fate = "open"
  \/ member = "asio" /\ \E c \in Calls \ {"p1"} :
       call[c].pc \notin {"idle", "unused"} /\ ~(call[c].pc = "ready" /\ session[c].pc \in {"none", "closed"})
  \/ member \in {"cow", "race"} /\ \E u \in DOMAIN user : user[u].socket = "shut" /\ Daemons!InSession(u)
  \/ member \in {"cow", "race"} /\ \E k \in DOMAIN command : command[k].pc \notin {"idle", "ended"}
  \/ /\ member = "upf" /\ avail = 0 /\ ~raced
     /\ \A pq \in Plane!Unpolled : pq[2] \in DOMAIN rx[pq[1]] => rx[pq[1]][pq[2]] = <<>>
  \/ member = "nrf" /\ nfRunning /\ "a" \in Nrf!Expired
\* A pooled request returns; a web client is refused, served or timed out; an
\* asio call that is not an upload ends on both sides; a kicked user is removed
\* and a command that has arrived ends; an exhausted mbuf pool recovers while no
\* packet sits in a queue without a core and no bursts have clashed; a silent NF
\* is removed.
ServiceIsDone == Owed ~> ~Owed
=============================================================================
