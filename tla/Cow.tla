-------------------------------- MODULE Cow --------------------------------
(***************************************************************************)
(* boost_project/cow: "cow start" forks a daemon that serves echo users on *)
(* a TCP port and commands on a Unix socket; the other cow commands find   *)
(* the daemon through a PID file and that socket.  A daemon runs all its   *)
(* handlers on one thread, so a handler is one step.  Daemons, commands,   *)
(* users and signals interleave; a daemon may be killed and leave its      *)
(* files behind.                                                           *)
(***************************************************************************)
EXTENDS Integers, Sequences, FiniteSets

CONSTANTS Starts,     \* the "cow start" commands; a daemon is named by its number
          PortOf,
          CowUsers, MaxSays,
          Commands,   \* the other commands, [verb, id]
          MaxKills

VARIABLES pidFile, sockFile, daemon, server, user, command, kills,
          crossed     \* history: the daemons whose life overlapped another's
cowVars == <<pidFile, sockFile, daemon, server, user, command, kills, crossed>>

None == 0
NoServer == [users |-> {}, closers |-> {}, nextId |-> 1, total |-> 0]
NoSession == [at |-> None, id |-> 0, pc |-> "away", socket |-> "none", says |-> 0, input |-> FALSE]
CowInit ==
  /\ pidFile = None /\ sockFile = None /\ kills = 0 /\ crossed = {}
  /\ daemon = [d \in Starts |-> "none"]
  /\ server = [d \in Starts |-> NoServer]
  /\ user = [u \in CowUsers |-> NoSession]
  /\ command = [k \in DOMAIN Commands |-> [pc |-> "idle", at |-> None]]

Alive(d) == d \in Starts /\ daemon[d] \in {"writePid", "construct", "running", "stopping", "cleanup", "unlink"}
Serves(d) == d \in Starts /\ daemon[d] \in {"running", "stopping"}
\* getPid: the file, and kill(pid, 0).
getPid == IF pidFile # None /\ Alive(pidFile) THEN pidFile ELSE None
Becomes(d, pc) == daemon' = [daemon EXCEPT ![d] = pc]
\* Two forks: the process that goes on has written nothing yet.
daemonize(d) == Becomes(d, "writePid")

(***************************************************************************)
(* The life of a daemon.                                                   *)
(***************************************************************************)
\* start: the check and the fork; the command returns at once.  A daemon that
\* has not written its PID yet, or has removed it, is not seen.
start(d) ==
  /\ daemon[d] = "none" /\ getPid = None
  /\ daemonize(d)
  /\ LET others == {e \in Starts : Alive(e)}
     IN crossed' = IF others = {} THEN crossed ELSE crossed \cup others \cup {d}
  /\ UNCHANGED <<pidFile, sockFile, server, user, command, kills>>
\* A daemon that cannot open the file ends without a word.
writePid(d) ==
  /\ daemon[d] = "writePid"
  /\ \/ pidFile' = d /\ Becomes(d, "construct")
     \/ pidFile' = pidFile /\ Becomes(d, "dead")
  /\ UNCHANGED <<sockFile, server, user, command, kills, crossed>>
\* The acceptors bind in the constructor of Server, first the port, then the
\* socket file, which must not exist; if one throws, the daemon cleans up.
constructServer(d) ==
  /\ daemon[d] = "construct"
  /\ IF sockFile # None \/ \E e \in Starts : Serves(e) /\ PortOf[e] = PortOf[d]
     THEN Becomes(d, "cleanup") /\ UNCHANGED <<sockFile, server>>
     ELSE /\ Becomes(d, "running") /\ sockFile' = d
          /\ server' = [server EXCEPT ![d] = NoServer]
  /\ UNCHANGED <<pidFile, user, command, kills, crossed>>
\* The process ends: its sockets are closed.
Gone(d) ==
  /\ Becomes(d, "dead")
  /\ server' = [server EXCEPT ![d] = NoServer]
  /\ user' = [u \in CowUsers |-> IF user[u].at = d THEN [user[u] EXCEPT !.pc = "gone", !.at = None, !.input = FALSE] ELSE user[u]]
  /\ command' = [k \in DOMAIN Commands |-> IF command[k].at = d THEN [pc |-> "ended", at |-> None] ELSE command[k]]
\* cleanup unlinks both files, one after the other and whosever they are.
cleanup(d) ==
  /\ \/ /\ daemon[d] = "cleanup" /\ Becomes(d, "unlink")
        /\ pidFile' = None /\ UNCHANGED <<sockFile, server, user, command>>
     \/ /\ daemon[d] = "unlink" /\ Gone(d)
        /\ sockFile' = None /\ UNCHANGED pidFile
  /\ UNCHANGED <<kills, crossed>>
killed(d) ==
  /\ Serves(d) /\ kills < MaxKills /\ kills' = kills + 1
  /\ Gone(d) /\ UNCHANGED <<pidFile, sockFile, crossed>>
\* The timer of STOP has run 200 ms: stop() and ioc_.stop().
stopTimer(d) ==
  /\ daemon[d] = "stopping" /\ Becomes(d, "cleanup")
  /\ UNCHANGED <<pidFile, sockFile, server, user, command, kills, crossed>>

(***************************************************************************)
(* Users.                                                                  *)
(***************************************************************************)
addUser(s, id) == [s EXCEPT !.users = @ \cup {id}, !.closers = @ \cup {id}, !.total = @ + 1]
\* MUTANT: the closer stays.
removeUserKeepsCloser(s, id) == [s EXCEPT !.users = @ \ {id}]
removeUser(s, id) == [s EXCEPT !.users = @ \ {id}, !.closers = @ \ {id}]

\* startTcpAccept and UserSession::start; the welcome is being written.
acceptUser(u, d) ==
  /\ user[u].pc = "away" /\ Serves(d)
  /\ LET id == server[d].nextId
     IN /\ server' = [server EXCEPT ![d] = addUser([@ EXCEPT !.nextId = id + 1], id)]
        /\ user' = [user EXCEPT ![u] = [@ EXCEPT !.at = d, !.id = id, !.pc = "welcome", !.socket = "open"]]
  /\ UNCHANGED <<pidFile, sockFile, daemon, command, kills, crossed>>
InSession(u) == user[u].pc \in {"welcome", "read", "echo"}
disconnect(u) ==
  /\ server' = [server EXCEPT ![user[u].at] = removeUser(@, user[u].id)]
  /\ user' = [user EXCEPT ![u] = [@ EXCEPT !.pc = "gone", !.at = None, !.input = FALSE]]
\* A write has completed: with an error when the socket was closed or the
\* peer is gone; otherwise the next read starts.
onWritten(u) ==
  /\ user[u].pc \in {"welcome", "echo"} /\ Serves(user[u].at)
  /\ \/ user[u].socket # "open" /\ disconnect(u)
     \/ user[u].socket # "shut" /\ user' = [user EXCEPT ![u].pc = "read"] /\ UNCHANGED server
  /\ UNCHANGED <<pidFile, sockFile, daemon, command, kills, crossed>>
doRead(u) ==
  /\ user[u].pc = "read" /\ Serves(user[u].at)
  /\ \/ user[u].socket # "open" /\ disconnect(u)
     \/ /\ user[u].socket = "open" /\ user[u].input
        /\ user' = [user EXCEPT ![u].pc = "echo", ![u].input = FALSE] /\ UNCHANGED server
  /\ UNCHANGED <<pidFile, sockFile, daemon, command, kills, crossed>>
\* The user types, or goes.
Says(u) ==
  /\ InSession(u) /\ user[u].socket = "open" /\ ~user[u].input /\ user[u].says < MaxSays
  /\ user' = [user EXCEPT ![u].input = TRUE, ![u].says = @ + 1]
  /\ UNCHANGED <<pidFile, sockFile, daemon, server, command, kills, crossed>>
HangsUp(u) ==
  /\ InSession(u) /\ user[u].socket = "open" /\ user' = [user EXCEPT ![u].socket = "left"]
  /\ UNCHANGED <<pidFile, sockFile, daemon, server, command, kills, crossed>>

(***************************************************************************)
(* Commands.                                                               *)
(***************************************************************************)
\* IpcClient connects and sends the line; "cow stop" looks for the daemon
\* first and, if it cannot connect, sends it SIGTERM.
\* A daemon that has not installed its handler yet is ended by the signal.
sendStop == \/ daemon' = [daemon EXCEPT ![getPid] = "cleanup"]
            \/ daemon[getPid] = "construct" /\ daemon' = [daemon EXCEPT ![getPid] = "dead"]
sendCommand(k) ==
  /\ command[k].pc = "idle"
  /\ IF Serves(sockFile) /\ (Commands[k].verb = "STOP" => getPid # None)
     THEN command' = [command EXCEPT ![k] = [pc |-> "sent", at |-> sockFile]] /\ UNCHANGED daemon
     ELSE /\ command' = [command EXCEPT ![k].pc = "ended"]
          /\ IF Commands[k].verb = "STOP" /\ getPid # None THEN sendStop ELSE UNCHANGED daemon
  /\ UNCHANGED <<pidFile, sockFile, server, user, kills, crossed>>
\* Shut and closed: the read or write in progress completes with an error.
forceClose(session) == [session EXCEPT !.socket = "shut"]
cmdKick(d, id) ==
  user' = [u \in CowUsers |-> IF id \in server[d].closers /\ user[u].at = d /\ user[u].id = id /\ InSession(u)
                              THEN forceClose(user[u]) ELSE user[u]]
\* cmdList, cmdLog and cmdStats only read the server.
Report == UNCHANGED <<user, daemon>>
\* IpcSession: one line, its answer, and the end of the connection.
doWrite(k) == command' = [command EXCEPT ![k] = [pc |-> "ended", at |-> None]]
handleCommand(k) ==
  LET d == command[k].at
      verb == Commands[k].verb
  IN /\ command[k].pc = "sent" /\ Serves(d) /\ doWrite(k)
     /\ CASE verb = "KICK" -> cmdKick(d, Commands[k].id) /\ UNCHANGED daemon
          [] verb = "STOP" -> Becomes(d, "stopping") /\ UNCHANGED user
          [] OTHER -> Report
     /\ UNCHANGED <<pidFile, sockFile, server, kills, crossed>>

Daemon(d) == writePid(d) \/ constructServer(d) \/ cleanup(d) \/ stopTimer(d)
Handler == \/ \E u \in CowUsers : onWritten(u) \/ doRead(u)
           \/ \E k \in DOMAIN Commands : handleCommand(k)
CowNext == \/ \E d \in Starts : start(d) \/ Daemon(d) \/ killed(d) \/ \E u \in CowUsers : acceptUser(u, d)
           \/ Handler \/ \E u \in CowUsers : Says(u) \/ HangsUp(u)
           \/ \E k \in DOMAIN Commands : sendCommand(k)
\* io_context runs every ready handler in turn.
CowFairness == /\ \A d \in Starts : WF_cowVars(Daemon(d))
               /\ \A u \in CowUsers : WF_cowVars(onWritten(u)) /\ WF_cowVars(doRead(u))
               /\ \A k \in DOMAIN Commands : WF_cowVars(handleCommand(k))
CowSpec == CowInit /\ [][CowNext]_cowVars /\ CowFairness

(***************************************************************************)
(* Properties.                                                             *)
(***************************************************************************)
\* What "cow list" shows and what "cow kick" can reach are the same users,
\* and they are exactly the sessions that are open or being wound up.
UsersAreSessions == \A d \in Starts : Serves(d) =>
  LET here == {u \in CowUsers : user[u].at = d /\ InSession(u)}
  IN /\ server[d].users = {user[u].id : u \in here} /\ server[d].closers = server[d].users
     /\ Cardinality(server[d].users) = Cardinality(here) /\ server[d].total = server[d].nextId - 1

\* A daemon that serves can be found: the PID file names it and the socket file is
\* its own, whatever a daemon before it has left behind.  The exception is a daemon
\* whose life overlapped another's: start tests and forks in two steps, and the
\* loser's cleanup removes the winner's files.
RunningIsFound == \A d \in Starts \ crossed : Serves(d) => getPid = d /\ sockFile = d

\* So the daemon knows its users and the commands find the daemon.
DaemonIsConsistent == UsersAreSessions /\ RunningIsFound
=============================================================================
