------------------------------ MODULE ConnPool ------------------------------
(***************************************************************************)
(* StdHTTPS: the client's connection pool and the HttpClient on top of it. *)
(* Threads ask the pool for a connection to a host, send, receive and give *)
(* it back; a housekeeper drops the idle connections that have expired and *)
(* anyone may close the connections of a host.  connections_mutex_ makes a *)
(* locked section one step; connecting is done with the mutex released.    *)
(*                                                                         *)
(* The statistics are left out (nothing reads them back), and so are the   *)
(* request's text and the headers.                                         *)
(***************************************************************************)
EXTENDS Naturals, Sequences, FiniteSets, SequencesExt

CONSTANTS Clients,       \* threads that call HttpClient::request
          Holders,       \* threads that hold a ConnectionWrapper
          Hosts,         \* connection keys: host, port, scheme
          Conns,         \* HttpConnection objects
          MaxPerHost,    \* config_.max_connections_per_host
          MaxRedirects   \* config_.max_redirects

VARIABLES idle,          \* idle_connections_
          active,        \* active_connections_
          conn,          \* the connection objects; state "free" before construction
          upc, want, have, redirect,
          running, housekeeper

poolVars == <<idle, active, conn, upc, want, have, redirect, running, housekeeper>>

Users == Clients \cup Holders
None == "none"

Free == [state |-> "free", host |-> None, keep_alive |-> FALSE, expired |-> FALSE]
Connected(h) == [Free EXCEPT !.state = "CONNECTED", !.host = h]

is_reusable(c) == conn[c].keep_alive /\ conn[c].state = "CONNECTED" /\ ~conn[c].expired

\* HttpConnection::close: nothing for a connection that is CLOSED already.
closed(r) == [r EXCEPT !.state = "CLOSED"]

\* The objects of cs are closed; those of ds lose their last reference too, and the
\* destructor closes them (again).
CloseAndDrop(cs, ds) ==
    conn' = [c \in Conns |-> IF c \in ds THEN Free ELSE IF c \in cs THEN closed(conn[c]) ELSE conn[c]]

HeldBy(c) == {u \in Users : have[u] = c}

Remove1(s, c) == SelectSeq(s, LAMBDA x : x # c)

PoolInit ==
    /\ idle = [h \in Hosts |-> <<>>]
    /\ active = [h \in Hosts |-> <<>>]
    /\ conn = [c \in Conns |-> Free]
    /\ upc = [u \in Users |-> "out"]
    /\ want = [u \in Users |-> CHOOSE h \in Hosts : TRUE]
    /\ have = [u \in Users |-> None]
    /\ redirect = [u \in Users |-> 0]
    /\ running = TRUE
    /\ housekeeper = "sleeping"

\* request, get, post, ...: the call starts; handle_redirects refuses the
\* redirection after the last one allowed.
request(u) ==
    /\ upc[u] = "out" /\ running
    /\ \E h \in Hosts : want' = [want EXCEPT ![u] = h]
    /\ redirect' = [redirect EXCEPT ![u] = 0]
    /\ upc' = [upc EXCEPT ![u] = IF u \in Clients /\ MaxRedirects = 0 THEN "out" ELSE "get"]
    /\ UNCHANGED <<idle, active, conn, have, running, housekeeper>>

\* What get_connection does with the mutex held when no idle connection serves:
\* go on to create one, or wait for a place.
CheckLimit(u) ==
    upc' = [upc EXCEPT ![u] = IF Len(active[want[u]]) >= MaxPerHost THEN "waiting" ELSE "create"]

get_connection_without_pop(u) ==
    /\ upc[u] = "get"
    /\ LET h == want[u] IN
       \/ /\ idle[h] # <<>> /\ is_reusable(Head(idle[h]))
          /\ active' = [active EXCEPT ![h] = Append(@, Head(idle[h]))]
          /\ have' = [have EXCEPT ![u] = Head(idle[h])]
          /\ upc' = [upc EXCEPT ![u] = "send"]
       \/ /\ idle[h] = <<>>
          /\ CheckLimit(u)
          /\ UNCHANGED <<active, have>>
    /\ UNCHANGED <<idle, conn, want, redirect, running, housekeeper>>

\* get_connection, first locked section: one idle connection is looked at and
\* taken off its queue; when it is not reusable it is dropped.
get_connection(u) ==
    /\ upc[u] = "get"
    /\ LET h == want[u] IN
       \/ /\ idle[h] # <<>>
          /\ idle' = [idle EXCEPT ![h] = Tail(@)]
          /\ \/ /\ is_reusable(Head(idle[h]))
                /\ active' = [active EXCEPT ![h] = Append(@, Head(idle[h]))]
                /\ have' = [have EXCEPT ![u] = Head(idle[h])]
                /\ upc' = [upc EXCEPT ![u] = "send"]
                /\ UNCHANGED conn
             \/ /\ ~is_reusable(Head(idle[h]))
                /\ CloseAndDrop({}, {Head(idle[h])})
                /\ CheckLimit(u)
                /\ UNCHANGED <<active, have>>
       \/ /\ idle[h] = <<>>
          /\ CheckLimit(u)
          /\ UNCHANGED <<idle, active, have, conn>>
    /\ UNCHANGED <<want, redirect, running, housekeeper>>

\* wait_for times out after a second, or the caller's own deadline has passed when
\* a wake-up finds the host still full: nullptr.
WaitTimesOut(u) ==
    /\ upc[u] \in {"waiting", "woken"}
    /\ upc[u] = "woken" => Len(active[want[u]]) >= MaxPerHost
    /\ upc' = [upc EXCEPT ![u] = "out"]
    /\ UNCHANGED <<idle, active, conn, want, have, redirect, running, housekeeper>>

\* Woken: the count is looked at again, the idle queue is not.
Woken(u) ==
    /\ upc[u] = "woken"
    /\ CheckLimit(u)
    /\ UNCHANGED <<idle, active, conn, want, have, redirect, running, housekeeper>>

\* create_connection and connect, with no lock held: the socket is made, the TCP
\* connection and the TLS handshake succeed in time, or all of it is undone.
connect(u) ==
    /\ upc[u] = "create"
    /\ \E c \in Conns : conn[c] = Free
    /\ \/ LET c == CHOOSE c \in Conns : conn[c] = Free IN
          /\ conn' = [conn EXCEPT ![c] = Connected(want[u])]
          /\ have' = [have EXCEPT ![u] = c]
          /\ upc' = [upc EXCEPT ![u] = "add"]
       \/ /\ upc' = [upc EXCEPT ![u] = "out"]
          /\ UNCHANGED <<conn, have>>
    /\ UNCHANGED <<idle, active, want, redirect, running, housekeeper>>

\* get_connection, second locked section.
AddActive(u) ==
    /\ upc[u] = "add"
    /\ active' = [active EXCEPT ![want[u]] = Append(@, have[u])]
    /\ upc' = [upc EXCEPT ![u] = "send"]
    /\ UNCHANGED <<idle, conn, want, have, redirect, running, housekeeper>>

\* send: a connection that somebody closed meanwhile refuses.
send(u) ==
    /\ upc[u] = "send"
    /\ \/ /\ conn[have[u]].state = "CONNECTED"
          /\ upc' = [upc EXCEPT ![u] = "receive"]
       \/ upc' = [upc EXCEPT ![u] = "failed"]
    /\ UNCHANGED <<idle, active, conn, want, have, redirect, running, housekeeper>>

\* receive (and receive_response around it): the whole response, which may ask to
\* keep the connection; the peer's end of stream, which only marks the connection
\* CLOSED; or an error or a timeout.
receive(u) ==
    /\ upc[u] = "receive"
    /\ \/ /\ conn[have[u]].state = "CONNECTED"
          /\ conn' = [conn EXCEPT ![have[u]].expired = FALSE]
          /\ \E r \in {"keep", "close"} : upc' = [upc EXCEPT ![u] = r]
       \/ /\ conn[have[u]].state = "CONNECTED"
          /\ conn' = [conn EXCEPT ![have[u]].state = "CLOSED"]
          /\ upc' = [upc EXCEPT ![u] = "failed"]
       \/ /\ upc' = [upc EXCEPT ![u] = "failed"]
          /\ UNCHANGED conn
    /\ UNCHANGED <<idle, active, want, have, redirect, running, housekeeper>>

\* The holder of a ConnectionWrapper may mark the connection as one to keep; the
\* HttpClient never does.
set_keep_alive(u) ==
    /\ u \in Holders /\ upc[u] \in {"send", "receive"} /\ ~conn[have[u]].keep_alive
    /\ conn' = [conn EXCEPT ![have[u]].keep_alive = TRUE]
    /\ UNCHANGED <<idle, active, upc, want, have, redirect, running, housekeeper>>

\* After a response: the caller is done, or a client follows a redirection.
Onward(u) ==
    \/ /\ upc' = [x \in Users |-> IF x = u THEN "out" ELSE IF upc[x] = "waiting" THEN "woken" ELSE upc[x]]
       /\ redirect' = [redirect EXCEPT ![u] = 0]
       /\ UNCHANGED want
    \/ /\ u \in Clients /\ upc[u] \in {"keep", "close"} /\ redirect[u] + 1 < MaxRedirects
       /\ redirect' = [redirect EXCEPT ![u] = @ + 1]
       /\ \E h \in Hosts : want' = [want EXCEPT ![u] = h]
       /\ upc' = [x \in Users |-> IF x = u THEN "get" ELSE IF upc[x] = "waiting" THEN "woken" ELSE upc[x]]

\* return_connection: off the active list; kept as idle when the response and the
\* connection allow it, else closed.  Everybody who waits is woken.
return_connection(u) ==
    /\ upc[u] \in {"keep", "close", "failed"}
    /\ LET c == have[u] h == conn[have[u]].host IN
       /\ active' = [active EXCEPT ![h] = Remove1(@, c)]
       /\ \/ /\ upc[u] = "keep" /\ is_reusable(c)
             /\ idle' = [idle EXCEPT ![h] = Append(@, c)]
             /\ UNCHANGED conn
          \/ /\ ~(upc[u] = "keep" /\ is_reusable(c))
             /\ CloseAndDrop({}, {c})
             /\ UNCHANGED idle
    /\ have' = [have EXCEPT ![u] = None]
    /\ Onward(u)
    /\ UNCHANGED <<running, housekeeper>>

\* ConnectionWrapper::release: the wrapper forgets the connection, which stays on
\* the active list if it still is there.
release(u) ==
    /\ u \in Holders /\ upc[u] = "close"
    /\ have' = [have EXCEPT ![u] = None]
    /\ upc' = [upc EXCEPT ![u] = "out"]
    /\ CloseAndDrop({}, {have[u]} \ ToSet(active[conn[have[u]].host]))
    /\ UNCHANGED <<idle, active, want, redirect, running, housekeeper>>

\* What closing the connections of the hosts hs does.  Nobody is woken.
CloseHosts(hs) ==
    LET is == UNION {ToSet(idle[h]) : h \in hs}
        as == UNION {ToSet(active[h]) : h \in hs}
    IN  /\ CloseAndDrop(is \cup as, is \cup {c \in as : HeldBy(c) = {}})
        /\ idle' = [h \in Hosts |-> IF h \in hs THEN <<>> ELSE idle[h]]
        /\ active' = [h \in Hosts |-> IF h \in hs THEN <<>> ELSE active[h]]

close_connections(h) ==
    /\ running
    /\ idle[h] # <<>> \/ active[h] # <<>>
    /\ CloseHosts({h})
    /\ UNCHANGED <<upc, want, have, redirect, running, housekeeper>>

\* More than a minute passes since a connection was last used.
Expire(c) ==
    /\ conn[c].state = "CONNECTED" /\ ~conn[c].expired
    /\ conn' = [conn EXCEPT ![c].expired = TRUE]
    /\ UNCHANGED <<idle, active, upc, want, have, redirect, running, housekeeper>>

\* cleanup_worker: sleep, remove_expired_connections, and again while running.
cleanup_worker ==
    /\ housekeeper = "sleeping"
    /\ LET old(h) == {c \in ToSet(idle[h]) : conn[c].expired} IN
       /\ idle' = [h \in Hosts |-> SelectSeq(idle[h], LAMBDA c : c \notin old(h))]
       /\ CloseAndDrop({}, UNION {old(h) : h \in Hosts})
    /\ housekeeper' = IF running THEN "sleeping" ELSE "ended"
    /\ UNCHANGED <<active, upc, want, have, redirect, running>>

\* stop: the housekeeper is told and joined, then everything is closed.
stop ==
    \/ /\ running /\ running' = FALSE
       /\ UNCHANGED <<idle, active, conn, upc, want, have, redirect, housekeeper>>
    \/ /\ ~running /\ housekeeper = "ended"
       /\ housekeeper' = "joined"
       /\ CloseHosts(Hosts)
       /\ UNCHANGED <<upc, want, have, redirect, running>>

UserStep(u) ==
    \/ get_connection(u) \/ Woken(u) \/ connect(u) \/ AddActive(u)
    \/ send(u) \/ receive(u) \/ return_connection(u)

PoolNext ==
    \/ \E u \in Users : request(u) \/ UserStep(u) \/ WaitTimesOut(u) \/ set_keep_alive(u) \/ release(u)
    \/ \E h \in Hosts : close_connections(h)
    \/ \E c \in Conns : Expire(c)
    \/ cleanup_worker \/ stop

\* A thread inside a call keeps running and clocks advance: a deadline that is met
\* again and again is passed one day.
PoolFairness ==
    /\ \A u \in Users : WF_poolVars(UserStep(u)) /\ SF_poolVars(WaitTimesOut(u))
    /\ WF_poolVars(cleanup_worker) /\ WF_poolVars(~running /\ stop)

PoolSpec == PoolInit /\ [][PoolNext]_poolVars /\ PoolFairness

\* Whatever get_connection, return_connection and the closing calls interleave to,
\* an idle connection waits in one queue once, is open and in nobody's hands, and
\* no connection is in the hands of two threads.
IdleIsExclusive ==
    /\ \A h \in Hosts : \A i, j \in DOMAIN idle[h] : idle[h][i] = idle[h][j] => i = j
    /\ \A h \in Hosts : \A c \in ToSet(idle[h]) :
         conn[c].state = "CONNECTED" /\ conn[c].host = h /\ HeldBy(c) = {} /\ c \notin ToSet(active[h])
    /\ \A c \in Conns : Cardinality(HeldBy(c)) <= 1

\* A connection that a thread can still use is on the active list of its host, the
\* one the limit is counted on, also when others close connections meanwhile.
OpenIsCounted ==
    \A u \in Users : upc[u] \in {"send", "receive", "keep", "close"} /\ conn[have[u]].state = "CONNECTED" =>
        have[u] \in ToSet(active[conn[have[u]].host])

\* So the pool hands a connection to one thread at a time and counts it.
PoolIsExclusive == IdleIsExclusive /\ OpenIsCounted
=============================================================================
