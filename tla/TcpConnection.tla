--------------------------- MODULE TcpConnection ----------------------------
(***************************************************************************)
(* mymuduo: one TcpConnection from TcpServer::newConnection to its last    *)
(* reference, with the channel of PollerOps, the functors its loop runs,   *)
(* the base loop that owns the server's map, the peer, and threads other   *)
(* than the loop's that call send and shutdown.                            *)
(*                                                                         *)
(* EventLoop.tla shows that a loop runs functors in the order queued; here *)
(* ioQ and baseQ are those orders.  The record c holds what the loop       *)
(* thread works on, so that handlers compose as they do in the code.       *)
(***************************************************************************)
EXTENDS PollerOps, Sequences

CONSTANTS Users,          \* threads other than the loop's
          Deployments,    \* the programs considered, see below
          highWaterMark_,
          MaxBytes,       \* bound: bytes ever passed to send
          MaxPeerMsgs     \* bound: messages the peer sends

\* A deployment is a record.  users: the threads that hold the TcpConnectionPtr;
\* ops: what they call; sameLoop: the connection lives in the base loop
\* (setThreadNum(0)); serverMayDie: ~TcpServer may run (modelled when sameLoop).

VARIABLES conf,      \* the deployment, which never changes
          c,         \* the connection and the two functor queues
          todo,      \* callbacks the current handleEvent has still to make
          peer,      \* "open", "closed", "reset", "gone" (reset was read)
          peerMsgs,  \* messages the peer has sent and handleRead not read
          sent,      \* bytes passed to send so far; byte n is the number n
          msgs,      \* messages the peer has sent so far
          upc        \* per user thread: where it is in its call

vars == <<conf, c, todo, peer, peerMsgs, sent, msgs, upc>>

Shared == {"established", "destroyed", "writeComplete", "highWater"}
                        \* functors bound to a TcpConnectionPtr, the others to this

Init ==
    /\ conf \in Deployments
    /\ c = [state_ |-> "none", chan |-> NewChannel, out |-> <<>>, wire |-> <<>>,
            fin |-> FALSE, ioQ |-> <<>>, baseQ |-> 0, inMap |-> FALSE,
            up |-> 0, down |-> 0, accepted |-> <<>>]
    /\ todo = {}
    /\ peer = "open" /\ peerMsgs = 0 /\ msgs = 0 /\ sent = 0
    /\ upc = [u \in conf.users |-> "idle"]

\* Someone still holds a TcpConnectionPtr; handleEvent holds one through tie_.
Alive ==
    \/ c.inMap \/ c.baseQ > 0 \/ todo # {}
    \/ c.state_ # "none" /\ conf.users # {}
    \/ \E i \in DOMAIN c.ioQ : c.ioQ[i].op \in Shared

Queue(x, f) == [x EXCEPT !.ioQ = Append(@, [op |-> f, data |-> <<>>])]

-----------------------------------------------------------------------------
\* The connection's own functions, all run by its loop.

ShutdownInLoop(x) == IF IsWriting(x.chan) THEN x ELSE [x EXCEPT !.fin = TRUE]

\* write(2): fails for good once the write end is shut or the peer has reset.
Broken(x) == x.fin \/ peer \in {"reset", "gone"}

\* Direct write of the first k bytes; only when nothing is queued before them.
Direct(x) == ~IsWriting(x.chan) /\ x.out = <<>>

\* The bytes that were not written are buffered and EPOLLOUT is asked for.
AppendOutput(x, rest) ==
    LET y == IF Len(x.out) + Len(rest) >= highWaterMark_ /\ Len(x.out) < highWaterMark_
             THEN Queue(x, "highWater") ELSE x
        z == [y EXCEPT !.out = @ \o rest]
    IN  IF IsWriting(z.chan) THEN z ELSE [z EXCEPT !.chan = Enable(@, "write")]

\* Mutant: does not look whether earlier bytes wait in the output buffer.
SendInLoopOvertakes(x, m, k) ==
    IF x.state_ = "kDisconnected" \/ Broken(x) THEN x
    ELSE LET y == [x EXCEPT !.wire = @ \o SubSeq(m, 1, k), !.accepted = @ \o m]
         IN  IF k = Len(m) THEN y ELSE AppendOutput(y, SubSeq(m, k + 1, Len(m)))

SendInLoop(x, m, k) ==
    IF x.state_ = "kDisconnected" THEN x
    ELSE IF ~Direct(x) THEN AppendOutput([x EXCEPT !.accepted = @ \o m], m)
    ELSE IF Broken(x) THEN x
    ELSE LET y == [x EXCEPT !.wire = @ \o SubSeq(m, 1, k), !.accepted = @ \o m]
         IN  IF k = Len(m) THEN Queue(y, "writeComplete")
                           ELSE AppendOutput(y, SubSeq(m, k + 1, Len(m)))

HandleWrite(x, k) ==
    IF ~IsWriting(x.chan) \/ Broken(x) THEN x
    ELSE LET y == [x EXCEPT !.wire = @ \o SubSeq(x.out, 1, k),
                            !.out = SubSeq(@, k + 1, Len(@))]
             z == Queue([y EXCEPT !.chan = Disable(@, "write")], "writeComplete")
         IN  IF y.out # <<>> THEN y
             ELSE IF z.state_ = "kDisconnecting" THEN ShutdownInLoop(z) ELSE z

ConnectEstablished(x) ==
    [x EXCEPT !.state_ = "kConnected", !.chan = Enable(@, "read"), !.up = @ + 1]

ConnectDestroyed(x) ==
    IF x.state_ = "kConnected"
    THEN [x EXCEPT !.state_ = "kDisconnected", !.down = @ + 1,
                   !.chan = RemoveChannel(DisableAll(@))]
    ELSE [x EXCEPT !.chan = RemoveChannel(@)]

\* TcpServer::removeConnectionInLoop, and removeConnection's runInLoop.
RemoveConnectionInLoop(x) == Queue([x EXCEPT !.inMap = FALSE], "destroyed")

RemoveConnection(x) ==
    IF conf.sameLoop THEN RemoveConnectionInLoop(x) ELSE [x EXCEPT !.baseQ = @ + 1]

\* Mutant: closeCallback_ is not called.
HandleCloseNoCallback(x) ==
    [x EXCEPT !.state_ = "kDisconnected", !.chan = DisableAll(@), !.down = @ + 1]

HandleClose(x) ==
    RemoveConnection([x EXCEPT !.state_ = "kDisconnected",
                               !.chan = DisableAll(@), !.down = @ + 1])

-----------------------------------------------------------------------------
\* The loop thread.

NewConnection ==
    /\ c.state_ = "none"
    /\ LET x == [c EXCEPT !.state_ = "kConnecting", !.inMap = TRUE]
       IN  c' = IF conf.sameLoop THEN ConnectEstablished(x) ELSE Queue(x, "established")
    /\ UNCHANGED <<conf, todo, peer, peerMsgs, sent, msgs, upc>>

\* What epoll reports for the fd; HUP and ERR come whatever the mask is.
Hup == peer \in {"reset", "gone"} \/ (peer = "closed" /\ c.fin)

Revents ==
    {e \in {"close", "read", "write"} :
        /\ c.chan.kernel # NotPolled
        /\ e = "read" => "read" \in c.chan.kernel /\ (peer # "open" \/ peerMsgs > 0)
        /\ e = "write" => "write" \in c.chan.kernel
        /\ e = "close" => "read" \notin c.chan.kernel /\ Hup}

\* Channel::handleEvent: the callbacks run in the order close, read, write.
Poll ==
    /\ todo = {} /\ Revents # {} /\ Alive
    /\ todo' = Revents
    /\ UNCHANGED <<conf, c, peer, peerMsgs, sent, msgs, upc>>

CloseCallback ==
    /\ "close" \in todo
    /\ c' = HandleClose(c)
    /\ todo' = todo \ {"close"}
    /\ UNCHANGED <<conf, peer, peerMsgs, sent, msgs, upc>>

\* handleRead: data for messageCallback_ (what the user does there is LoopSend
\* and LoopShutdown), end of file, or an error that is only logged.
HandleRead ==
    /\ "read" \in todo /\ "close" \notin todo
    /\ todo' = todo \ {"read"}
    /\ \/ peerMsgs > 0 /\ peer # "reset" /\ peerMsgs' = 0 /\ UNCHANGED <<c, peer>>
       \/ peerMsgs = 0 /\ peer \in {"closed", "gone"} /\ c' = HandleClose(c)
          /\ UNCHANGED <<peer, peerMsgs>>
       \/ peer = "reset" /\ peer' = "gone" /\ peerMsgs' = 0 /\ UNCHANGED c
    /\ UNCHANGED <<conf, sent, msgs, upc>>

WriteCallback ==
    /\ todo = {"write"}
    /\ \E k \in 1..(IF c.out = <<>> THEN 1 ELSE Len(c.out)) : c' = HandleWrite(c, k)
    /\ todo' = {}
    /\ UNCHANGED <<conf, peer, peerMsgs, sent, msgs, upc>>

\* One functor of the loop.
RunFunctor ==
    /\ todo = {} /\ c.ioQ # <<>>
    /\ LET f == Head(c.ioQ)
           x == [c EXCEPT !.ioQ = Tail(@)]
       IN  \/ f.op = "established" /\ c' = ConnectEstablished(x)
           \/ f.op = "destroyed" /\ c' = ConnectDestroyed(x)
           \/ f.op = "shutdown" /\ c' = ShutdownInLoop(x)
           \/ f.op \in {"writeComplete", "highWater"} /\ c' = x
           \/ f.op = "send" /\ \E k \in 0..Len(f.data) :
                 c' = SendInLoop(x, f.data, k)
    /\ UNCHANGED <<conf, todo, peer, peerMsgs, sent, msgs, upc>>

\* The next n bytes of the application.
Message(n) == [i \in 1..n |-> sent + i]

\* User code in the loop thread: send and shutdown in a callback.
LoopSend(n) ==
    /\ todo = {} /\ c.up > 0 /\ Alive /\ c.state_ = "kConnected"
    /\ sent + n <= MaxBytes
    /\ sent' = sent + n
    /\ \E k \in 0..n : c' = SendInLoop(c, Message(n), k)
    /\ UNCHANGED <<conf, todo, peer, peerMsgs, msgs, upc>>

LoopShutdown ==
    /\ todo = {} /\ c.up > 0 /\ Alive /\ c.state_ = "kConnected"
    /\ c' = ShutdownInLoop([c EXCEPT !.state_ = "kDisconnecting"])
    /\ UNCHANGED <<conf, todo, peer, peerMsgs, sent, msgs, upc>>

\* ~TcpServer, when its loop is the connection's own.
ServerDtor ==
    /\ conf.serverMayDie /\ conf.sameLoop /\ todo = {} /\ c.inMap
    /\ c' = ConnectDestroyed([c EXCEPT !.inMap = FALSE])
    /\ UNCHANGED <<conf, todo, peer, peerMsgs, sent, msgs, upc>>

\* The base loop runs removeConnectionInLoop.
BaseLoop ==
    /\ c.baseQ > 0
    /\ c' = RemoveConnectionInLoop([c EXCEPT !.baseQ = @ - 1])
    /\ UNCHANGED <<conf, todo, peer, peerMsgs, sent, msgs, upc>>

-----------------------------------------------------------------------------
\* Other threads: state_ is read, then (shutdown) written, then the functor is
\* queued, each a step of its own.

UserCheck(u) ==
    /\ upc[u] = "idle" /\ c.up > 0
    /\ IF c.state_ = "kConnected"
       THEN \/ "send" \in conf.ops /\ upc' = [upc EXCEPT ![u] = "send"]
            \/ "shutdown" \in conf.ops /\ upc' = [upc EXCEPT ![u] = "checked"]
       ELSE upc' = [upc EXCEPT ![u] = "done"]
    /\ UNCHANGED <<conf, c, todo, peer, peerMsgs, sent, msgs>>

UserSend(u, n) ==
    /\ upc[u] = "send" /\ sent + n <= MaxBytes
    /\ c' = [c EXCEPT !.ioQ = Append(@, [op |-> "send", data |-> Message(n)])]
    /\ sent' = sent + n
    /\ upc' = [upc EXCEPT ![u] = "done"]
    /\ UNCHANGED <<conf, todo, peer, peerMsgs, msgs>>

UserSetState(u) ==
    /\ upc[u] = "checked"
    /\ c' = [c EXCEPT !.state_ = "kDisconnecting"]
    /\ upc' = [upc EXCEPT ![u] = "marked"]
    /\ UNCHANGED <<conf, todo, peer, peerMsgs, sent, msgs>>

UserShutdown(u) ==
    /\ upc[u] = "marked"
    /\ c' = Queue(c, "shutdown")
    /\ upc' = [upc EXCEPT ![u] = "done"]
    /\ UNCHANGED <<conf, todo, peer, peerMsgs, sent, msgs>>

\* External: the peer sends, closes or resets.
PeerSend ==
    /\ peer = "open" /\ c.state_ # "none" /\ msgs < MaxPeerMsgs
    /\ peerMsgs' = peerMsgs + 1 /\ msgs' = msgs + 1
    /\ UNCHANGED <<conf, c, todo, peer, sent, upc>>

PeerEnds ==
    /\ peer = "open" /\ c.state_ # "none"
    /\ peer' \in {"closed", "reset"}
    /\ UNCHANGED <<conf, c, todo, peerMsgs, sent, msgs, upc>>

LoopStep == Poll \/ CloseCallback \/ HandleRead \/ WriteCallback \/ RunFunctor

UserStep(u) ==
    UserCheck(u) \/ UserSetState(u) \/ UserShutdown(u) \/ \E n \in 1..2 : UserSend(u, n)

Next ==
    \/ NewConnection \/ LoopStep \/ BaseLoop
    \/ LoopShutdown \/ ServerDtor
    \/ \E n \in 1..2 : LoopSend(n)
    \/ \E u \in conf.users : UserStep(u)
    \/ PeerSend \/ PeerEnds

Spec == Init /\ [][Next]_vars

\* Every thread keeps running: each round of the loop polls and then runs the
\* functors queued (so neither can starve the other), the base loop runs its
\* own, a thread inside a call finishes it.
FairSpec == /\ Spec
            /\ WF_vars(LoopStep) /\ SF_vars(Poll) /\ SF_vars(RunFunctor)
            /\ WF_vars(BaseLoop) /\ WF_vars(NewConnection)
            /\ \A u \in Users : WF_vars(u \in conf.users /\ (UserSetState(u) \/ UserShutdown(u)))

-----------------------------------------------------------------------------
\* What the socket took followed by what the output buffer holds is what
\* sendInLoop accepted: partial writes, EPOLLOUT rounds and sends from several
\* threads lose, repeat and reorder nothing.
BytesInOrder == c.wire \o c.out = c.accepted

\* A connection that is still polled asks for EPOLLOUT exactly when bytes wait:
\* otherwise the bytes would be stuck or the loop would spin.
WritingIffPending ==
    "read" \in c.chan.events_ => (IsWriting(c.chan) <=> c.out # <<>>)

\* The write end is shut only once every accepted byte has gone to the socket,
\* as long as the connection has not been closed meanwhile (shutdownInLoop).
FinAfterData ==
    [][c'.fin /\ ~c.fin /\ "read" \in c.chan.events_ => c'.out = <<>>]_vars

\* connectionCallback_ reports up once and then down: at most once as long as no
\* other thread calls shutdown() (which may overwrite kDisconnected), and at least
\* once before the last holder is gone unless ~TcpServer met a connection that
\* was already disconnecting.
UpThenDownOnce ==
    /\ c.up <= 1
    /\ "shutdown" \notin conf.ops => c.down <= c.up
    /\ c.state_ # "none" /\ ~Alive /\ ~conf.serverMayDie => c.down >= c.up

\* When the last TcpConnectionPtr is gone the poller no longer holds the raw
\* Channel pointer, and no epoll_ctl call has failed on the way.
NoDanglingChannel ==
    /\ ~c.chan.failed
    /\ ~Alive => c.chan.index_ = "kNew" /\ c.chan.kernel = NotPolled

\* The peer has ended the connection, or the server has let go of it.
Ended == peer # "open" \/ c.down > 0 \/ ~c.inMap

\* So a connection neither garbles its bytes nor outlives its registration.
ConnectionIsSound == [](BytesInOrder /\ WritingIffPending /\ UpThenDownOnce /\ NoDanglingChannel) /\ FinAfterData
=============================================================================
