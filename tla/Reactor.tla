------------------------------ MODULE Reactor ------------------------------
(***************************************************************************)
(* ReactorHttp-Cpp: a static-file HTTP server on a multi-threaded reactor. *)
(* The main EventLoop accepts connections and hands each of them to a      *)
(* worker's EventLoop as a task; a worker reads the request once, answers  *)
(* it, and removes the connection with a task of its own.                  *)
(*                                                                         *)
(* The build is the one of the sources: MSG_SEND_AUTO is not defined, so   *)
(* responses are sent by the read callback and the write event is never    *)
(* asked for.  Only GET requests come, and 404.html is there.              *)
(***************************************************************************)
EXTENDS Integers, Sequences, FiniteSets, Functions, FiniteSetsExt, SequencesExt

CONSTANTS Browsers,      \* strings; each connects once
          SubThreads,    \* sequence of the workers' names
          Segments,      \* of a browser: what it sends, segment by segment
          Url,           \* of a browser: "dir", "file" or "missing"
          Impatient,     \* browsers that may close before the answer is there
          PerRead,       \* wake-up messages one read of 256 bytes takes
          Dispatchers    \* the Dispatcher subclass the EventLoop creates

VARIABLES dispatcher, reactor, nextWorker, backlog, descriptor, tcp, browser
reactorVars == <<dispatcher, reactor, nextWorker, backlog, descriptor, tcp, browser>>

Loops == {"main"} \cup ToSet(SubThreads)
Workers == Len(SubThreads)
Pair == 1    \* a loop's end of its socketpair
Listen == 2  \* m_lfd; the sockets of connections come after it

(***************************************************************************)
(* Buffers are sequences: a request is made of lines ("line", "hdr", "end" *)
(* is the empty one) and the beginning of a line whose CRLF is not there   *)
(* ("part"); a response of the chunks given to Buffer::appendString.       *)
(***************************************************************************)
\* findCRLF: the complete lines at the start of the buffer.
CompleteLines(buf) == CHOOSE n \in 0..Len(buf) :
  /\ \A i \in 1..n : buf[i] # "part"
  /\ n = Len(buf) \/ buf[n + 1] = "part"

\* Without a whole line the length is a difference to a null pointer cut to an int;
\* taken as not positive (else the process reads from it and dies).
parseRequestLine(buf) == CompleteLines(buf) > 0
\* The number of lines up to the empty one, 0 if it has not come.
parseRequestHeader(buf) ==
  LET ends == {i \in 1..CompleteLines(buf) : buf[i] = "end"}
  IN IF ends = {} THEN 0 ELSE Min(ends)
\* Whether a whole request was there, and what is left in the buffer.
parseHttpRequest(buf) ==
  LET n == parseRequestHeader(buf)
  IN IF parseRequestLine(buf) /\ n > 0
     THEN [flag |-> TRUE, rest |-> SubSeq(buf, n + 1, Len(buf))]
     ELSE [flag |-> FALSE, rest |-> SubSeq(buf, CompleteLines(buf) + 1, Len(buf))]

sendDir == <<"entry", "footer">>
sendFile(name) == IF name = "404.html" THEN <<"not found">> ELSE <<"block">>
\* prepareMsg: the head, then what sendDataFunc sends.
processHttpRequest(url) ==
  CASE url = "missing" -> <<"404">> \o sendFile("404.html")
    [] url = "dir"     -> <<"200">> \o sendDir
    [] url = "file"    -> <<"200">> \o sendFile(url)

(***************************************************************************)
(* Initial state: the main EventLoop exists, the workers do not.           *)
(***************************************************************************)
EventLoop(pc) == [pc |-> pc, wake |-> 0, taskQ |-> <<>>, channelMap |-> <<>>, watched |-> {},
                  ready |-> <<>>, conn |-> "none", chunks |-> <<>>]
ReactorInit ==
  /\ dispatcher \in Dispatchers
  /\ reactor = [l \in Loops |-> EventLoop(IF l = "main" THEN "spawn" ELSE "absent")]
  /\ nextWorker = 0 /\ backlog = <<>> /\ descriptor = <<>>
  /\ tcp = <<>>
  /\ browser = [b \in Browsers |-> [st |-> "new", left |-> Segments[b], got |-> <<>>, eof |-> FALSE]]

At(l, pc) == reactor[l].pc = pc
Become(l, fields) == reactor' = [reactor EXCEPT ![l] = fields @@ @]

\* ThreadPool::run and WorkerThread::run: each worker is started, and waited
\* for until its EventLoop is there; then the listening socket is watched.
threadPoolRun ==
  /\ At("main", "spawn")
  /\ LET starting == SelectSeq(SubThreads, LAMBDA w : At(w, "absent"))
         waited   == \E w \in ToSet(SubThreads) : At(w, "starting")
     IN /\ ~waited
        /\ reactor' = IF starting # <<>> THEN [reactor EXCEPT ![Head(starting)].pc = "starting"]
                      ELSE [reactor EXCEPT !["main"].pc = "dispatch", !["main"].watched = {Pair, Listen}]
  /\ UNCHANGED <<dispatcher, nextWorker, backlog, descriptor, tcp, browser>>
running(w) ==
  /\ At(w, "starting")
  /\ Become(w, [pc |-> "dispatch", watched |-> {Pair}])
  /\ UNCHANGED <<dispatcher, nextWorker, backlog, descriptor, tcp, browser>>

(***************************************************************************)
(* EventLoop::run: dispatch, then processTaskQ.                            *)
(***************************************************************************)
Readable(l, x) ==
  CASE x = Pair -> reactor[l].wake > 0
    [] x = Listen -> backlog # <<>>
    [] OTHER -> descriptor[x].inbox # <<>> \/ browser[descriptor[x].peer].st = "closed"
\* select goes through the descriptors in their order.
Reported(l) ==
  SetToSortSeq({x \in reactor[l].watched : Readable(l, x)}, <)
selectDispatch(l) == {Reported(l)}
\* poll goes through its table, in which the pair has the first place and a
\* socket whichever place was free.
pollDispatch(l) == {order \in SetToSeqs(ToSet(Reported(l))) :
                      \A i \in DOMAIN order : order[i] = Pair => i = 1}
\* epoll reports in the order in which descriptors became ready.  EPOLLERR and
\* EPOLLHUP are passed over: they come of a reset, which no browser here does; one
\* that closes is an end of file.
epollDispatch(l) == SetToSeqs(ToSet(Reported(l)))
AfterActive(rest) == IF rest = <<>> THEN "tasks" ELSE "active"
\* The 2 s timeout matters only when a task is there to be found.
dispatch(l) ==
  /\ At(l, "dispatch") /\ (Reported(l) # <<>> \/ reactor[l].taskQ # <<>>)
  /\ \E found \in CASE dispatcher = "select" -> selectDispatch(l)
                    [] dispatcher = "poll" -> pollDispatch(l)
                    [] dispatcher = "epoll" -> epollDispatch(l) :
       Become(l, [pc |-> AfterActive(found), ready |-> found])
  /\ UNCHANGED <<dispatcher, nextWorker, backlog, descriptor, tcp, browser>>

Active(l, x) == At(l, "active") /\ reactor[l].ready # <<>> /\ Head(reactor[l].ready) = x
readMessage(l) ==
  /\ Active(l, Pair)
  /\ Become(l, [pc |-> AfterActive(Tail(reactor[l].ready)), ready |-> Tail(reactor[l].ready), wake |-> Max({0, reactor[l].wake - PerRead})])
  /\ UNCHANGED <<dispatcher, nextWorker, backlog, descriptor, tcp, browser>>

takeWorkerEventLoop == SubThreads[nextWorker + 1]
\* accept takes the lowest free descriptor; the new TcpConnection queues its
\* ADD task; the wake-up (a write outside the lock) is a step of its own.
acceptConnection ==
  /\ Active("main", Listen)
  /\ LET b == Head(backlog)
         fd == Min((Listen + 1 .. Listen + Cardinality(Browsers)) \ DOMAIN descriptor)
         w == takeWorkerEventLoop
     IN /\ descriptor' = (fd :> [peer |-> b, inbox |-> <<>>]) @@ descriptor
        /\ tcp' = (b :> [fd |-> fd, readBuf |-> <<>>, writeBuf |-> <<>>, loop |-> w, alive |-> TRUE]) @@ tcp
        /\ reactor' = [reactor EXCEPT !["main"].pc = "wakeup", !["main"].conn = w,
                                      ![w].taskQ = Append(@, [type |-> "ADD", conn |-> b])]
        /\ nextWorker' = (nextWorker + 1) % Workers
        /\ backlog' = Tail(backlog)
  /\ UNCHANGED <<dispatcher, browser>>
taskWakeup ==
  /\ At("main", "wakeup")
  /\ reactor' = [reactor EXCEPT !["main"].pc = AfterActive(Tail(reactor["main"].ready)), !["main"].conn = "none",
                                !["main"].ready = Tail(@), ![reactor["main"].conn].wake = @ + 1]
  /\ UNCHANGED <<dispatcher, nextWorker, backlog, descriptor, tcp, browser>>

\* One read of what has come, and the parser on the buffer.
processRead(l) ==
  /\ At(l, "active") /\ reactor[l].ready # <<>> /\ Head(reactor[l].ready) \notin {Pair, Listen}
  /\ LET fd == Head(reactor[l].ready)
         c == reactor[l].channelMap[fd]
         read == descriptor[fd].inbox
         parsed == parseHttpRequest(tcp[c].readBuf \o read)
     IN /\ descriptor' = [descriptor EXCEPT ![fd].inbox = <<>>]
        /\ IF read = <<>> THEN Become(l, [pc |-> "remove", conn |-> c]) /\ UNCHANGED tcp
           ELSE IF parsed.flag
                THEN /\ Become(l, [pc |-> "send", conn |-> c, chunks |-> processHttpRequest(Url[c])])
                     /\ tcp' = [tcp EXCEPT ![c].readBuf = parsed.rest]
                ELSE /\ Become(l, [pc |-> "remove", conn |-> c])
                     /\ tcp' = [tcp EXCEPT ![c].readBuf = parsed.rest, ![c].writeBuf = Append(@, "400")]
  /\ UNCHANGED <<dispatcher, nextWorker, backlog, browser>>

\* appendString and sendData: the socket blocks, so all of the buffer goes
\* out, or nothing once the browser has closed.
sendData(l) ==
  /\ At(l, "send")
  /\ LET c == reactor[l].conn
         buf == Append(tcp[c].writeBuf, Head(reactor[l].chunks))
         open == browser[c].st # "closed"
     IN /\ tcp' = [tcp EXCEPT ![c].writeBuf = IF open THEN <<>> ELSE buf]
        /\ browser' = IF open THEN [browser EXCEPT ![c].got = @ \o buf] ELSE browser
        /\ Become(l, [chunks |-> Tail(reactor[l].chunks),
                      pc |-> IF Len(reactor[l].chunks) = 1 THEN "remove" ELSE "send"])
  /\ UNCHANGED <<dispatcher, nextWorker, backlog, descriptor>>

\* The loop's own thread queues a task and works off the queue at once.
addOwnTask(l) ==
  /\ At(l, "remove")
  /\ Become(l, [pc |-> "nested", conn |-> "none", ready |-> Tail(reactor[l].ready),
                taskQ |-> Append(reactor[l].taskQ, [type |-> "DELETE", conn |-> reactor[l].conn])])
  /\ UNCHANGED <<dispatcher, nextWorker, backlog, descriptor, tcp, browser>>

\* The dispatchers' sets; descriptors stay below their limit of 1024.
setFdSet(fds, fd) == fds \cup {fd}
clearFdSet(fds, fd) == fds \ {fd}
add(q, c) ==
  LET fd == tcp[c].fd
  IN IF fd \in DOMAIN q.channelMap THEN q
     ELSE [q EXCEPT !.channelMap = (fd :> c) @@ @, !.watched = setFdSet(@, fd)]
\* EventLoop::remove: the dispatcher forgets the descriptor and destroys the
\* connection; freeChannel runs only when both buffers are empty.
Drained(c) == tcp[c].readBuf = <<>> /\ tcp[c].writeBuf = <<>>
freeChannel(q, c) == [q EXCEPT !.channelMap = Restrict(@, DOMAIN @ \ {tcp[c].fd})]
Closes(c) == Drained(c)
remove(q, c) ==
  LET unwatched == [q EXCEPT !.watched = clearFdSet(@, tcp[c].fd)]
  IN IF Drained(c) THEN freeChannel(unwatched, c) ELSE unwatched

\* One round of the loop of processTaskQ: front() and pop() in the lock.
runTask(l, next) ==
  LET t == Head(reactor[l].taskQ)
      popped == [reactor[l] EXCEPT !.taskQ = Tail(@), !.pc = next]
      fd == tcp[t.conn].fd
  IN IF t.type = "ADD"
     THEN Become(l, add(popped, t.conn)) /\ UNCHANGED <<descriptor, tcp, browser>>
     ELSE /\ Become(l, remove(popped, t.conn))
          /\ tcp' = [tcp EXCEPT ![t.conn].alive = FALSE]
          /\ IF Closes(t.conn)
             THEN /\ descriptor' = Restrict(descriptor, DOMAIN descriptor \ {fd})
                  /\ browser' = [browser EXCEPT ![t.conn].eof = TRUE]
             ELSE UNCHANGED <<descriptor, browser>>
TasksDone(l) == IF At(l, "tasks") THEN "dispatch" ELSE AfterActive(reactor[l].ready)
\* MUTANT: one task is taken for one wake-up.
processTaskQOnce(l) ==
  /\ reactor[l].pc \in {"tasks", "nested"}
  /\ IF reactor[l].taskQ = <<>>
     THEN Become(l, [pc |-> TasksDone(l)]) /\ UNCHANGED <<descriptor, tcp, browser>>
     ELSE runTask(l, TasksDone(l))
  /\ UNCHANGED <<dispatcher, nextWorker, backlog>>
processTaskQ(l) ==
  /\ reactor[l].pc \in {"tasks", "nested"}
  /\ IF reactor[l].taskQ = <<>>
     THEN Become(l, [pc |-> TasksDone(l)]) /\ UNCHANGED <<descriptor, tcp, browser>>
     ELSE runTask(l, reactor[l].pc)
  /\ UNCHANGED <<dispatcher, nextWorker, backlog>>

(***************************************************************************)
(* The browsers.                                                           *)
(***************************************************************************)
Connect(b) ==
  /\ browser[b].st = "new"
  /\ browser' = [browser EXCEPT ![b].st = "connected"]
  /\ backlog' = Append(backlog, b)
  /\ UNCHANGED <<dispatcher, reactor, nextWorker, descriptor, tcp>>
Accepted(b) == b \in DOMAIN tcp /\ tcp[b].fd \in DOMAIN descriptor /\ descriptor[tcp[b].fd].peer = b
SendSegment(b) ==
  /\ browser[b].st = "connected" /\ browser[b].left # <<>> /\ Accepted(b)
  /\ browser' = [browser EXCEPT ![b].left = Tail(@)]
  /\ descriptor' = [descriptor EXCEPT ![tcp[b].fd].inbox = @ \o Head(browser[b].left)]
  /\ UNCHANGED <<dispatcher, reactor, nextWorker, backlog, tcp>>
CloseBrowser(b) ==
  /\ browser[b].st = "connected" /\ b \in Impatient /\ ~browser[b].eof
  /\ browser' = [browser EXCEPT ![b].st = "closed"]
  /\ UNCHANGED <<dispatcher, reactor, nextWorker, backlog, descriptor, tcp>>

LoopStep(l) == \/ dispatch(l) \/ readMessage(l) \/ processRead(l)
               \/ sendData(l) \/ addOwnTask(l) \/ processTaskQ(l)
MainStep == threadPoolRun \/ acceptConnection \/ taskWakeup
ReactorNext == \/ MainStep
               \/ \E l \in Loops : LoopStep(l)
               \/ \E w \in ToSet(SubThreads) : running(w)
               \/ \E b \in Browsers : Connect(b) \/ SendSegment(b) \/ CloseBrowser(b)
ReactorFairness == /\ WF_reactorVars(MainStep)
                   /\ \A l \in Loops : WF_reactorVars(LoopStep(l))
                   /\ \A w \in ToSet(SubThreads) : WF_reactorVars(running(w))
                   /\ \A b \in Browsers : WF_reactorVars(SendSegment(b))
ReactorSpec == ReactorInit /\ [][ReactorNext]_reactorVars /\ ReactorFairness

(***************************************************************************)
(* Properties.                                                             *)
(***************************************************************************)
\* A task handed to a loop is never slept over: a loop that waits in its
\* dispatcher with tasks queued has a wake-up message to read, or the main
\* thread is about to write it.
SleepsOnlyWithoutTasks == \A l \in Loops :
  At(l, "dispatch") /\ reactor[l].taskQ # <<>> =>
    reactor[l].wake > 0 \/ (At("main", "wakeup") /\ reactor["main"].conn = l)

\* What the assertion of eventActive needs, over the reuse of descriptors and
\* the connections that are destroyed with bytes left: a socket a loop watches
\* is open, in that loop's map, and the connection of the map is alive and
\* talks to the peer of that socket; and an ADD task finds its place free.
WatchedIsServed == \A l \in Loops :
  /\ \A fd \in reactor[l].watched \ {Pair, Listen} :
       /\ fd \in DOMAIN descriptor /\ fd \in DOMAIN reactor[l].channelMap
       /\ LET c == reactor[l].channelMap[fd]
          IN tcp[c].alive /\ tcp[c].fd = fd /\ tcp[c].loop = l /\ descriptor[fd].peer = c
  /\ \A t \in ToSet(reactor[l].taskQ) :
       t.type = "ADD" => tcp[t.conn].fd \notin DOMAIN reactor[l].channelMap

\* So every loop wakes for its tasks and serves only what it owns.
ReactorIsSafe == SleepsOnlyWithoutTasks /\ WatchedIsServed
=============================================================================
