----------------------------- MODULE HttpServer -----------------------------
(***************************************************************************)
(* StdHTTPS: the HTTP server.  One thread accepts and queues connections,  *)
(* workers take them off the queue and serve request after request, stop   *)
(* ends them all.  Over TLS, every read goes through an SSLHandler.        *)
(*                                                                         *)
(* The request's parsing is in HttpStream; here a client sends a good      *)
(* request, one that asks to close, or a bad one, and goes away when it    *)
(* likes.  The router, the middlewares and the static files produce an     *)
(* answer in one step.  The byte and request counters are left out.        *)
(***************************************************************************)
EXTENDS Naturals, Sequences, FiniteSets, SequencesExt

CONSTANTS WebClients, Workers,
          MaxConnections,   \* config_.max_connections
          Requests,         \* what a client may send: good, asking to close, bad
          MaxRequests,      \* requests a client sends at most
          Flights           \* messages a client sends before TLS is established

VARIABLES ssl,              \* config_.enable_ssl: off, on, or on with a context that failed
          running, listening,
          backlog,          \* connections the kernel holds for accept
          apc, accepted,    \* the accept thread and the socket in its hands
          connection_queue,
          wpc, serving,     \* the workers
          active_connections,
          spc,              \* the thread that calls stop
          client,           \* what the clients see
          tls               \* the SSLHandler of each connection

serverVars == <<ssl, running, listening, backlog, apc, accepted, connection_queue,
                wpc, serving, active_connections, spc, client, tls>>

Nobody == "nobody"

ServerInit ==
    /\ ssl \in {"off", "on", "failed"}
    /\ running = TRUE /\ listening = TRUE
    /\ backlog = <<>>
    /\ apc = "loop" /\ accepted = Nobody
    /\ connection_queue = <<>>
    /\ wpc = [w \in Workers |-> "check"]
    /\ serving = [w \in Workers |-> Nobody]
    /\ active_connections = 0
    /\ spc = "out"
    /\ client = [c \in WebClients |-> [fate |-> "away", asked |-> 0, input |-> "none", flights |-> 0]]
    /\ tls = [c \in WebClients |-> "INIT"]

\* connections_mutex_ is free: a worker holds it from its test of the wait's
\* predicate until it sleeps.
Unlocked == \A w \in Workers : wpc[w] # "blocking"

(***************************************************************************)
(* The clients, each with one connection in its life                       *)
(***************************************************************************)
Connect(c) ==
    /\ client[c].fate = "away"
    /\ listening \/ apc = "accepting"
    /\ client' = [client EXCEPT ![c].fate = "open"]
    /\ backlog' = Append(backlog, c)
    /\ UNCHANGED <<ssl, running, listening, apc, accepted, connection_queue, wpc, serving, active_connections, spc, tls>>

\* The next thing a client sends, once the last one is answered: a flight of the
\* handshake, or a request.
Ask(c) ==
    /\ client[c].fate = "open" /\ client[c].input = "none"
    /\ \/ /\ ssl = "on" /\ client[c].flights < Flights
          /\ client' = [client EXCEPT ![c].input = "tls", ![c].flights = @ + 1]
       \/ /\ ssl = "on" => client[c].flights = Flights
          /\ client[c].asked < MaxRequests
          /\ \E i \in Requests :
               client' = [client EXCEPT ![c].input = i, ![c].asked = @ + 1]
    /\ UNCHANGED <<ssl, running, listening, backlog, apc, accepted, connection_queue, wpc, serving, active_connections, spc, tls>>

Leave(c) ==
    /\ client[c].fate = "open"
    /\ client' = [client EXCEPT ![c].fate = "left", ![c].input = "none"]
    /\ UNCHANGED <<ssl, running, listening, backlog, apc, accepted, connection_queue, wpc, serving, active_connections, spc, tls>>

\* The server closes the sockets of cs (the connection's destructor, or ::close).
Hangup(cs, how) ==
    [c \in WebClients |-> IF c \in cs /\ client[c].fate = "open"
                          THEN [client[c] EXCEPT !.fate = how, !.input = "none"] ELSE client[c]]

(***************************************************************************)
(* accept_loop                                                             *)
(***************************************************************************)
\* A handler over two memory BIOs waits for the client's hello, or is in error from
\* the start.
start_handshake == {"HANDSHAKING", "ERROR"}
\* Nobody looks at the result of setup_ssl: where the context could not be set up
\* there is no handler, and the connection goes on in plain text.
setup_ssl == IF ssl = "on" THEN start_handshake ELSE {"INIT"}

accept_unlimited ==
    /\ apc = "accepting" /\ backlog # <<>>
    /\ backlog' = Tail(backlog)
    /\ accepted' = Head(backlog) /\ apc' = "add"
    /\ active_connections' = active_connections + 1
    /\ \E t \in setup_ssl : tls' = [tls EXCEPT ![Head(backlog)] = t]
    /\ UNCHANGED <<ssl, running, listening, connection_queue, wpc, serving, spc, client>>

\* accept returns a connection: refused at the limit, else counted; the
\* constructor starts the handshake when TLS is on.
accept ==
    /\ apc = "accepting" /\ backlog # <<>>
    /\ backlog' = Tail(backlog)
    /\ \/ /\ active_connections >= MaxConnections
          /\ client' = Hangup({Head(backlog)}, "refused")
          /\ apc' = "loop"
          /\ UNCHANGED <<accepted, active_connections, tls>>
       \/ /\ active_connections < MaxConnections
          /\ accepted' = Head(backlog) /\ apc' = "add"
          /\ active_connections' = active_connections + 1
          /\ \E t \in setup_ssl : tls' = [tls EXCEPT ![Head(backlog)] = t]
          /\ UNCHANGED client
    /\ UNCHANGED <<ssl, running, listening, connection_queue, wpc, serving, spc>>

\* The loop's test; accept on a descriptor that is closed already fails at once,
\* but one that is blocked stays blocked when the descriptor is closed.
accept_loop ==
    /\ \/ apc = "loop" /\ ~running /\ apc' = "ended"
       \/ apc = "loop" /\ running /\ listening /\ apc' = "accepting"
    /\ UNCHANGED <<ssl, running, listening, backlog, accepted, connection_queue, wpc, serving, active_connections, spc, client, tls>>

add_connection ==
    /\ apc = "add" /\ Unlocked
    /\ connection_queue' = Append(connection_queue, accepted)
    /\ \/ \E w \in Workers : wpc[w] = "asleep" /\ wpc' = [wpc EXCEPT ![w] = "check"]
       \/ (\A w \in Workers : wpc[w] # "asleep") /\ UNCHANGED wpc
    /\ apc' = "loop" /\ accepted' = Nobody
    /\ UNCHANGED <<ssl, running, listening, backlog, serving, active_connections, spc, client, tls>>

(***************************************************************************)
(* worker_thread and the connection it serves                              *)
(***************************************************************************)
Rest == <<ssl, running, listening, backlog, apc, accepted, spc>>

\* The wait's predicate, under the mutex: take a connection, end, or go to sleep.
worker_thread(w) ==
    /\ \/ /\ wpc[w] = "check" /\ Unlocked
          /\ \/ ~running /\ wpc' = [wpc EXCEPT ![w] = "ended"] /\ UNCHANGED <<connection_queue, serving>>
             \/ /\ running /\ connection_queue # <<>>
                /\ serving' = [serving EXCEPT ![w] = Head(connection_queue)]
                /\ connection_queue' = Tail(connection_queue)
                /\ wpc' = [wpc EXCEPT ![w] = "read"]
             \/ /\ running /\ connection_queue = <<>>
                /\ wpc' = [wpc EXCEPT ![w] = "blocking"]
                /\ UNCHANGED <<connection_queue, serving>>
       \/ /\ wpc[w] = "blocking"
          /\ wpc' = [wpc EXCEPT ![w] = "asleep"]
          /\ UNCHANGED <<connection_queue, serving>>
    /\ UNCHANGED <<Rest, active_connections, client, tls>>

\* handle_input feeds the handshake; receive_data refuses unless it is complete,
\* which the server does not wait for: the connection ends.
handle_input(c) ==
    tls' = [tls EXCEPT ![c] = IF @ = "HANDSHAKING" /\ client[c].flights = Flights THEN "CONNECTED" ELSE @]

\* read_request: a request, an error that is answered with 400, or a peer that is
\* gone.  Over TLS the data first goes through the handler.
read_request(w) ==
    LET c == serving[w] IN
    /\ wpc[w] = "read"
    /\ \/ /\ client[c].fate # "open"
          /\ wpc' = [wpc EXCEPT ![w] = "remove"] /\ UNCHANGED <<client, tls>>
       \/ /\ client[c].input = "tls"
          /\ handle_input(c)
          /\ client' = [client EXCEPT ![c].input = "none"]
          /\ wpc' = [wpc EXCEPT ![w] = IF tls'[c] = "CONNECTED" THEN "read" ELSE "remove"]
       \/ /\ client[c].input \in {"request", "last"}
          /\ wpc' = [wpc EXCEPT ![w] = "respond"] /\ UNCHANGED <<client, tls>>
       \/ /\ client[c].input = "bad"
          /\ client' = [client EXCEPT ![c].input = "none"]
          /\ wpc' = [wpc EXCEPT ![w] = "remove"] /\ UNCHANGED tls
    /\ UNCHANGED <<Rest, connection_queue, serving, active_connections>>

\* The request timeout passes with nothing to read: 408, which a connection still
\* in its handshake cannot even send.
RequestTimeout(w) ==
    /\ wpc[w] = "read" /\ client[serving[w]].fate = "open" /\ client[serving[w]].input = "none"
    /\ wpc' = [wpc EXCEPT ![w] = "remove"]
    /\ UNCHANGED <<Rest, connection_queue, serving, active_connections, client, tls>>

\* handle_request and send_response: the answer (or a 500) goes out and the worker
\* keeps the connection when both sides want that; a peer that left ends it.
handle_request(w) ==
    LET c == serving[w] IN
    /\ wpc[w] = "respond"
    /\ \/ /\ client[c].fate = "open"
          /\ wpc' = [wpc EXCEPT ![w] = IF client[c].input = "last" THEN "remove" ELSE "read"]
          /\ client' = [client EXCEPT ![c].input = "none"]
       \/ /\ client[c].fate # "open"
          /\ wpc' = [wpc EXCEPT ![w] = "remove"]
          /\ UNCHANGED client
    /\ UNCHANGED <<Rest, connection_queue, serving, active_connections, tls>>

\* remove_connection: the count goes down before the mutex is taken, for a list
\* that is always empty; then the connection is destroyed, which shuts TLS down
\* and closes the socket.
remove_connection(w) ==
    /\ wpc[w] = "remove"
    /\ wpc' = [wpc EXCEPT ![w] = "erase"]
    /\ active_connections' = active_connections - 1
    /\ UNCHANGED <<Rest, connection_queue, serving, client, tls>>

close(w) ==
    /\ wpc[w] = "erase" /\ Unlocked
    /\ wpc' = [wpc EXCEPT ![w] = "check"]
    /\ client' = Hangup({serving[w]}, "closed")
    /\ serving' = [serving EXCEPT ![w] = Nobody]
    /\ tls' = [tls EXCEPT ![serving[w]] = "CLOSED"]
    /\ UNCHANGED <<Rest, connection_queue, active_connections>>

(***************************************************************************)
(* stop: the flag, the socket, the notification (none of them under the    *)
(* mutex), the joins, cleanup_connections                                  *)
(***************************************************************************)
StopStep(from, to) == spc = from /\ spc' = to

stop ==
    /\ \/ /\ StopStep("out", "close") /\ running' = FALSE
          /\ UNCHANGED <<listening, wpc, connection_queue, active_connections, client>>
       \/ /\ StopStep("close", "notify") /\ listening' = FALSE
          /\ UNCHANGED <<running, wpc, connection_queue, active_connections, client>>
       \/ /\ StopStep("notify", "join")
          /\ wpc' = [w \in Workers |-> IF wpc[w] = "asleep" THEN "check" ELSE wpc[w]]
          /\ UNCHANGED <<running, listening, connection_queue, active_connections, client>>
       \/ /\ StopStep("join", "stopped")
          /\ apc = "ended" /\ \A w \in Workers : wpc[w] = "ended"
          /\ client' = Hangup(ToSet(connection_queue), "closed")
          /\ connection_queue' = <<>> /\ active_connections' = 0
          /\ UNCHANGED <<running, listening, wpc>>
    /\ UNCHANGED <<ssl, backlog, apc, accepted, serving, tls>>

WorkerStep(w) == worker_thread(w) \/ read_request(w) \/ handle_request(w) \/ remove_connection(w) \/ close(w)
AcceptStep == accept_loop \/ accept \/ add_connection

ServerNext ==
    \/ \E c \in WebClients : Connect(c) \/ Ask(c) \/ Leave(c)
    \/ AcceptStep
    \/ \E w \in Workers : WorkerStep(w) \/ RequestTimeout(w)
    \/ stop

\* Threads run, the clock advances, stop goes on once called.
ServerFairness ==
    /\ WF_serverVars(AcceptStep) /\ WF_serverVars(spc # "out" /\ stop)
    /\ \A w \in Workers : WF_serverVars(WorkerStep(w)) /\ WF_serverVars(RequestTimeout(w))

ServerSpec == ServerInit /\ [][ServerNext]_serverVars /\ ServerFairness

\* active_connections counts the connections that are accepted, queued or being
\* served, whichever thread is where, and stays within max_connections.  It is
\* lowered before the socket is closed, so the server holds more sockets than
\* that, but never more than one extra per worker.
ActiveIsCounted ==
    LET held == Len(connection_queue) + Cardinality({w \in Workers : serving[w] # Nobody})
                + (IF apc = "add" THEN 1 ELSE 0)
        removed == Cardinality({w \in Workers : wpc[w] = "erase"})
    IN spc # "stopped" => /\ active_connections = held - removed
                          /\ active_connections <= MaxConnections
                          /\ held <= MaxConnections + Cardinality(Workers)

\* A connection is in one place, and a client whose connection the server has let
\* go of is not served any more.
ServedOnce ==
    /\ \A v, w \in Workers : serving[v] # Nobody /\ serving[v] = serving[w] => v = w
    /\ \A w \in Workers : serving[w] \notin ToSet(connection_queue) \cup ToSet(backlog)
    /\ \A w \in Workers : serving[w] # Nobody => client[serving[w]].fate \in {"open", "left"}

\* So connections are counted, and each is served by one worker.
ConnectionsAccounted == ActiveIsCounted /\ ServedOnce
=============================================================================
