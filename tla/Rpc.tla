-------------------------------- MODULE Rpc ---------------------------------
(***************************************************************************)
(* StdRPC: the calls of RpcClient, its receiver thread, the TCP stream and *)
(* the thread of RpcServer that serves the connection; and, as a machine   *)
(* of its own, the life of RpcServer: start and stop, the accept thread    *)
(* and the detached threads that serve the clients.  A response is two     *)
(* pieces on the stream, its header and its body.                          *)
(***************************************************************************)
EXTENDS Naturals, Sequences, FiniteSets

CONSTANTS Callers,   \* threads that use one RpcClient
          Outcomes,  \* the statuses the server answers with
          MaxCalls,  \* bound: calls made
          Clients    \* connections that may be made to a server, each once

VARIABLES connection_,   \* "none": null; "up"; "down": connected_ is false
          running_, receiver, header,     \* the receiver thread and the header it read
          next_request_id_, pending_calls_,
          promise,                        \* what each request's future holds
          pc, id, result,                 \* the callers
          out, in, server, request,       \* the stream; the server's thread
          closer,                         \* the thread in disconnect()
          crashed

\* The life of RpcServer
VARIABLES serverRunning, stopped_,   \* its running_ and stopped_
          listening,                 \* listener_->listen_fd_ is open
          owner,                     \* the thread that starts, stops and destroys
          accept_thread_,
          backlog, handler           \* clients to accept; the thread of each client

vars == <<connection_, running_, receiver, header, next_request_id_, pending_calls_, promise,
          pc, id, result, out, in, server, request, closer, crashed>>

serverVars == <<serverRunning, stopped_, listening, owner, accept_thread_, backlog, handler>>

Ids == 1..MaxCalls
Statuses == Outcomes \cup {"NETWORK_ERROR", "TIMEOUT"}
Unset == [of |-> 0, status |-> "UNSET"]
Responses == [of : Ids \cup {0}, status : Statuses]
Pieces == {"header", "body"} \X Responses

Init ==
    /\ connection_ = "none" /\ running_ = FALSE
    /\ receiver = "none" /\ header = Unset
    /\ next_request_id_ = 1 /\ pending_calls_ = {} /\ promise = [i \in Ids |-> Unset]
    /\ pc = [c \in Callers |-> "idle"] /\ id = [c \in Callers |-> 0]
    /\ result = [c \in Callers |-> Unset]
    /\ out = <<>> /\ in = <<>> /\ server = "none" /\ request = 0
    /\ closer = "idle" /\ crashed = "no"

ServerInit ==
    /\ serverRunning = FALSE /\ stopped_ = FALSE /\ listening = FALSE
    /\ owner = "idle" /\ accept_thread_ = "none"
    /\ backlog = {} /\ handler = [c \in Clients |-> "none"]

stream == <<out, in, server, request>>
reading == <<running_, receiver, header>>
calls == <<pc, id, result, next_request_id_>>

Alive == crashed = "no"
Goto(c, from, to) == Alive /\ pc[c] = from /\ pc' = [pc EXCEPT ![c] = to]
Answer(c, status) == result' = [result EXCEPT ![c] = [of |-> id[c], status |-> status]]

-----------------------------------------------------------------------------
(* doCall *)

Begin(c) ==
    /\ next_request_id_ + Cardinality({d \in Callers : pc[d] \in {"check", "connect", "insert"}})
          <= MaxCalls
    /\ Goto(c, "idle", "check")
    /\ id' = [id EXCEPT ![c] = 0] /\ result' = [result EXCEPT ![c] = Unset]
    /\ UNCHANGED <<connection_, reading, next_request_id_, pending_calls_, promise, stream,
                   closer, crashed>>

IsConnected(c) ==
    /\ Goto(c, "check", IF connection_ = "up" THEN "insert" ELSE "connect")
    /\ UNCHANGED <<connection_, reading, id, result, next_request_id_, pending_calls_,
                   promise, stream, closer, crashed>>

\* connect(), under connection_mutex_: a fresh TcpConnection, and a fresh
\* receiver thread assigned to receiver_thread_.  Assigning to a std::thread
\* that was not joined is std::terminate.
Connect(c) ==
    /\ \/ /\ connection_ = "up" /\ Goto(c, "connect", "insert")
          /\ UNCHANGED <<connection_, reading, result, stream, crashed>>
       \/ /\ connection_ # "up" /\ Goto(c, "connect", "idle")
          /\ Answer(c, "NETWORK_ERROR") /\ connection_' = "none"
          /\ UNCHANGED <<reading, stream, crashed>>
       \/ /\ connection_ # "up" /\ Goto(c, "connect", "insert")
          /\ connection_' = "up" /\ out' = <<>> /\ in' = <<>>
          /\ server' = "recv" /\ request' = 0
          /\ running_' = TRUE /\ receiver' = "loop" /\ header' = Unset
          /\ crashed' = IF receiver = "none" THEN "no" ELSE "terminate"
          /\ UNCHANGED result
    /\ UNCHANGED <<id, next_request_id_, pending_calls_, promise, closer>>

FreshId == next_request_id_

Insert(c) ==
    /\ Goto(c, "insert", "send")
    /\ id' = [id EXCEPT ![c] = FreshId]
    /\ next_request_id_' = next_request_id_ + 1
    /\ pending_calls_' = pending_calls_ \cup {FreshId}
    /\ UNCHANGED <<connection_, reading, promise, result, stream, closer, crashed>>

\* The send holds connection_mutex_, but connection_ may have gone since it was
\* checked.  It fails once the server has closed, and may succeed once more.
Send(c) ==
    /\ \/ /\ connection_ = "none" /\ Goto(c, "send", "send") /\ crashed' = "null"
          /\ UNCHANGED <<connection_, pending_calls_, result, out>>
       \/ /\ connection_ = "up" /\ Goto(c, "send", "wait")
          /\ out' = Append(out, id[c])
          /\ UNCHANGED <<connection_, pending_calls_, result, crashed>>
       \/ /\ connection_ = "down" \/ (connection_ = "up" /\ server = "closed")
          /\ Goto(c, "send", "idle")
          /\ connection_' = "down"
          /\ pending_calls_' = pending_calls_ \ {id[c]}
          /\ Answer(c, "NETWORK_ERROR")
          /\ UNCHANGED <<out, crashed>>
    /\ UNCHANGED <<reading, id, next_request_id_, promise, in, server, request, closer>>

Get(c) ==
    /\ Goto(c, "wait", "idle") /\ promise[id[c]] # Unset
    /\ result' = [result EXCEPT ![c] = promise[id[c]]]
    /\ UNCHANGED <<connection_, reading, id, next_request_id_, pending_calls_, promise,
                   stream, closer, crashed>>

\* wait_for gives up; the answer may still arrive before the call is erased.
TimeOut(c) ==
    /\ Goto(c, "wait", "late") /\ promise[id[c]] = Unset
    /\ UNCHANGED <<connection_, reading, id, result, next_request_id_, pending_calls_,
                   promise, stream, closer, crashed>>

Erase(i) == pending_calls_' = pending_calls_ \ {i}

Abandon(c) ==
    /\ Goto(c, "late", "idle")
    /\ Erase(id[c]) /\ Answer(c, "TIMEOUT")
    /\ UNCHANGED <<connection_, reading, id, next_request_id_, promise, stream, closer, crashed>>

-----------------------------------------------------------------------------
(* receiveLoop and processResponse *)

ReceiverStops == ~running_

ReceiverLoop ==
    /\ Alive /\ receiver = "loop"
    /\ \/ /\ ReceiverStops
          /\ receiver' = "done" /\ UNCHANGED <<connection_, in, header>>
       \/ /\ running_ /\ connection_ = "up" /\ in = <<>> /\ server = "closed"
          /\ connection_' = "down" /\ UNCHANGED <<receiver, in, header>>
       \/ /\ running_ /\ connection_ = "up" /\ in # <<>> /\ Head(in)[1] = "header"
          /\ receiver' = "body" /\ header' = Head(in)[2] /\ in' = Tail(in)
          /\ UNCHANGED connection_
       \* A body read as a header fails on the magic number; how much of the
       \* stream is lost before a header is met again depends on the sizes.
       \/ /\ running_ /\ connection_ = "up" /\ in # <<>> /\ Head(in)[1] = "body"
          /\ \E k \in 2..(Len(in) + 1) : in' = SubSeq(in, k, Len(in))
          /\ UNCHANGED <<connection_, receiver, header>>
    /\ UNCHANGED <<running_, pending_calls_, promise, calls, out, server, request, closer, crashed>>

\* Mutant: the oldest pending call is completed, as if answers kept the order.
OldestPending(i) == CHOOSE p \in pending_calls_ : \A q \in pending_calls_ : p <= q

Matching(i) == i

Complete(i, r) ==
    /\ promise' = [promise EXCEPT ![Matching(i)] = r]
    /\ Erase(Matching(i))

\* The body arrives, or the second runs out and its header is forgotten.
ReceiverBody ==
    /\ Alive /\ receiver = "body" /\ connection_ = "up"
    /\ receiver' = "loop" /\ header' = Unset
    /\ \/ /\ in # <<>> /\ in' = Tail(in)
          /\ IF header.of \in pending_calls_ THEN Complete(header.of, header)
                                             ELSE UNCHANGED <<pending_calls_, promise>>
       \/ UNCHANGED <<in, pending_calls_, promise>>
    /\ UNCHANGED <<connection_, running_, calls, out, server, request, closer, crashed>>

\* receiveMessage on a connection that went down returns at once.
ReceiverLost ==
    /\ Alive /\ receiver = "body" /\ connection_ # "up"
    /\ receiver' = "loop" /\ header' = Unset
    /\ UNCHANGED <<connection_, running_, pending_calls_, promise, calls, stream, closer, crashed>>

-----------------------------------------------------------------------------
(* disconnect *)

DisconnectFlag ==
    /\ Alive /\ closer = "idle"
    /\ closer' = "join" /\ running_' = FALSE
    /\ UNCHANGED <<connection_, receiver, header, pending_calls_, promise, calls, stream, crashed>>

DisconnectJoin ==
    /\ Alive /\ closer = "join" /\ receiver \in {"none", "done"}
    /\ closer' = "close" /\ receiver' = "none"
    /\ UNCHANGED <<connection_, running_, header, pending_calls_, promise, calls, stream, crashed>>

DisconnectClose ==
    /\ Alive /\ closer = "close" /\ closer' = "idle"
    /\ connection_' = "none"
    /\ promise' = [i \in Ids |-> IF i \in pending_calls_
                                 THEN [of |-> i, status |-> "NETWORK_ERROR"] ELSE promise[i]]
    /\ pending_calls_' = {}
    /\ UNCHANGED <<reading, calls, stream, crashed>>

-----------------------------------------------------------------------------
(* RpcServer::handleClient: requests are served one after the other; after    *)
(* five idle seconds the server closes.                                       *)

ServerReceive ==
    /\ Alive /\ server = "recv" /\ connection_ # "none"
    /\ \/ out # <<>> /\ server' = "work" /\ request' = Head(out) /\ out' = Tail(out)
       \/ server' = "closed" /\ UNCHANGED <<out, request>>
    /\ UNCHANGED <<connection_, reading, pending_calls_, promise, calls, in, closer, crashed>>

\* processRequest and sendResponse.
ServerWork ==
    /\ Alive /\ server = "work"
    /\ server' = "recv" /\ request' = 0
    /\ \E s \in Outcomes :
          LET r == [of |-> request, status |-> s]
          IN  in' = in \o <<<<"header", r>>, <<"body", r>>>>
    /\ UNCHANGED <<connection_, reading, pending_calls_, promise, calls, out, closer, crashed>>

-----------------------------------------------------------------------------
DoCall(c) == IsConnected(c) \/ Connect(c) \/ Insert(c) \/ Send(c) \/ Get(c) \/ TimeOut(c)
             \/ Abandon(c)
Receiver == ReceiverLoop \/ ReceiverBody \/ ReceiverLost

Next ==
    \/ \E c \in Callers : Begin(c) \/ DoCall(c)
    \/ Receiver \/ DisconnectFlag \/ DisconnectJoin \/ DisconnectClose
    \/ ServerReceive \/ ServerWork

Spec == Init /\ [][Next]_vars

\* The threads of the client run; the server owes nothing.
FairSpec ==
    /\ Spec /\ WF_vars(Receiver) /\ WF_vars(DisconnectJoin) /\ WF_vars(DisconnectClose)
    /\ \A c \in Callers : WF_vars(DoCall(c))

-----------------------------------------------------------------------------
\* A call returns the answer to its own request, whatever was answered late,
\* lost with its frame or abandoned before.
OwnResponse == \A c \in Callers : result[c] # Unset => result[c].of = id[c]

\* A pending call has a caller that waits for it and a promise that was not
\* fulfilled, so set_value is called once per promise and nothing leaks.
PendingAreOpen ==
    \A i \in pending_calls_ :
        /\ promise[i] = Unset
        /\ \E c \in Callers : id[c] = i /\ pc[c] \in {"send", "wait", "late"}

\* So calls and answers match.
CallsMatch == OwnResponse /\ PendingAreOpen

-----------------------------------------------------------------------------
(* start, stop, ~RpcServer *)

\* listen may fail; nothing has changed then.
Start ==
    /\ owner = "idle" /\ ~serverRunning
    /\ listening' = TRUE /\ serverRunning' = TRUE /\ stopped_' = FALSE
    /\ accept_thread_' = "top"
    /\ UNCHANGED <<owner, backlog, handler>>

\* The exchange of stopped_ and the store of serverRunning; a stop without a start,
\* or a second stop, does nothing more.
Stop ==
    /\ owner = "idle" /\ ~stopped_
    /\ stopped_' = TRUE
    /\ serverRunning' = FALSE
    /\ owner' = IF serverRunning THEN "stopping" ELSE "idle"
    /\ UNCHANGED <<listening, accept_thread_, backlog, handler>>

StopListener ==
    /\ owner = "stopping" /\ owner' = "joining"
    /\ listening' = FALSE /\ backlog' = {}
    /\ UNCHANGED <<serverRunning, stopped_, accept_thread_, handler>>

StopJoin ==
    /\ owner = "joining" /\ accept_thread_ = "done"
    /\ owner' = "idle" /\ accept_thread_' = "none"
    /\ UNCHANGED <<serverRunning, stopped_, listening, backlog, handler>>

Destroy ==
    /\ owner = "idle" /\ ~serverRunning /\ owner' = "gone"
    /\ UNCHANGED <<serverRunning, stopped_, listening, accept_thread_, backlog, handler>>

-----------------------------------------------------------------------------
(* acceptLoop *)

ClientConnects(c) ==
    /\ listening /\ handler[c] = "none" /\ c \notin backlog
    /\ backlog' = backlog \cup {c}
    /\ UNCHANGED <<serverRunning, stopped_, listening, owner, accept_thread_, handler>>

AcceptEnds == ~serverRunning

AcceptTop ==
    /\ accept_thread_ = "top"
    /\ accept_thread_' = IF AcceptEnds THEN "done" ELSE "accept"
    /\ UNCHANGED <<serverRunning, stopped_, listening, owner, backlog, handler>>

\* accept(1000) gives a connection, or nothing after a second or once the
\* listener was stopped.
Accept ==
    /\ accept_thread_ = "accept" /\ accept_thread_' = "top"
    /\ \/ \E c \in backlog : /\ listening
                             /\ backlog' = backlog \ {c}
                             /\ handler' = [handler EXCEPT ![c] = "loop"]
       \/ UNCHANGED <<backlog, handler>>
    /\ UNCHANGED <<serverRunning, stopped_, listening, owner>>

-----------------------------------------------------------------------------
(* handleClient *)

MayServe == serverRunning

HandlerLoop(c) ==
    /\ handler[c] = "loop"
    /\ handler' = [handler EXCEPT ![c] = IF MayServe THEN "receive" ELSE "bye"]
    /\ UNCHANGED <<serverRunning, stopped_, listening, owner, accept_thread_, backlog>>

\* receiveMessage(5000): a message, the end of the connection, or a timeout.
HandlerReceive(c) ==
    /\ handler[c] = "receive"
    /\ \E next \in {"process", "bye", "ended"} : handler' = [handler EXCEPT ![c] = next]
    /\ UNCHANGED <<serverRunning, stopped_, listening, owner, accept_thread_, backlog>>

\* processRequest looks in methods_ and answers; the farewell takes output_mutex_.
HandlerUse(c) ==
    /\ handler[c] \in {"process", "bye"}
    /\ handler' = [handler EXCEPT ![c] = IF @ = "process" THEN "loop" ELSE "ended"]
    /\ UNCHANGED <<serverRunning, stopped_, listening, owner, accept_thread_, backlog>>

Handle(c) == HandlerLoop(c) \/ HandlerReceive(c) \/ HandlerUse(c)

ServerNext ==
    \/ Start \/ Stop \/ StopListener \/ StopJoin \/ Destroy \/ AcceptTop \/ Accept
    \/ \E c \in Clients : ClientConnects(c) \/ Handle(c)

\* The threads run.
ServerSpec ==
    /\ ServerInit /\ [][ServerNext]_serverVars
    /\ WF_serverVars(StopListener) /\ WF_serverVars(StopJoin) /\ WF_serverVars(AcceptTop) /\ WF_serverVars(Accept)
    /\ \A c \in Clients : WF_serverVars(Handle(c))

-----------------------------------------------------------------------------
\* When stop has returned there is no accept thread, so a later start may assign
\* to accept_thread_; while the server runs there is one.
AcceptThreadMatches ==
    /\ owner \in {"idle", "gone"} => (serverRunning <=> accept_thread_ # "none")
    /\ owner = "idle" /\ serverRunning => accept_thread_ # "done" /\ listening
=============================================================================
