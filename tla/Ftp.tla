-------------------------------- MODULE Ftp --------------------------------
(***************************************************************************)
(* StdFtp: FTPServer, Session and SessionManager on one side, the          *)
(* interactive FTPClient on the other, the control connection between them *)
(* and the passive data connection of a transfer.                          *)
(*                                                                         *)
(* Both programs read the control connection with one recv() per command   *)
(* or reply: what has arrived by then is one command, or one reply.  A     *)
(* reply carries, beside its code, the number of the command it answers,   *)
(* which no program looks at.  Files are sequences of buffers, one send()  *)
(* or recv() each.  A path is the sequence of its names under the root.    *)
(***************************************************************************)
EXTENDS Integers, Sequences, FiniteSets, SequencesExt

CONSTANTS FtpClients,   \* the interactive clients
          UserOps,      \* what each user types, menu or raw commands: [op, arg]
          MaxOps,       \* how many of them
          FileBuffers   \* how many buffers a local file fills

VARIABLES ftpd,     \* the server process: run loop, session list, the session
          fs,       \* the tree under the FTP root
          ftpc,     \* the client processes
          toServer, toClient, \* the control connections
          data      \* the data connection of each client
ftpVars == <<ftpd, fs, ftpc, toServer, toClient, data>>

NoArg == [abs |-> FALSE, at |-> <<>>]
Nobody == "nobody"

(***************************************************************************)
(* The session.                                                            *)
(***************************************************************************)
Session(c) == [of |-> c, user |-> FALSE, auth |-> FALSE, state |-> "CONNECTED",
               running |-> TRUE, cwd |-> <<>>, from |-> {}, mode |-> "NONE",
               listener |-> 0, at |-> "welcome", path |-> <<>>, left |-> <<>>,
               kind |-> "none", n |-> 0]

getAbsolutePath(s, a) ==
  IF a.abs THEN a.at ELSE s.cwd \o a.at

isPathValid(p) == \A i \in DOMAIN p : p[i] # ".."
isFileExists(p) == p \in DOMAIN fs
isDirectory(p) == isFileExists(p) /\ fs[p].dir
InDirectory(p) == p # <<>> /\ isDirectory(Front(p))
Entries(p) == {q \in DOMAIN fs : Len(q) > Len(p) /\ IsPrefix(p, q)}
\* short: the disk refused the end of the file, which nobody noticed.
File(bytes) == [dir |-> FALSE, bytes |-> bytes, short |-> FALSE]
Directory == [dir |-> TRUE, bytes |-> <<>>, short |-> FALSE]

\* What a handler leaves behind: the session, the tree and the code it sends.
Reply(s, f, code) == [s |-> s, f |-> f, code |-> code]

handleUSER(s, a) ==
  Reply([s EXCEPT !.user = a # NoArg, !.state = "AUTHENTICATING"], fs, 331)

handlePASS(s) ==
  IF ~s.user THEN Reply(s, fs, 503)
  ELSE Reply([s EXCEPT !.auth = TRUE, !.state = "AUTHENTICATED"], fs, 230)

handleQUIT(s) ==
  Reply([s EXCEPT !.running = FALSE, !.state = "DISCONNECTED"], fs, 221)

handlePWD(s) == Reply(s, fs, 257)

handleCWD(s, a) ==
  LET p == getAbsolutePath(s, a)
  IN IF isPathValid(p) /\ isDirectory(p) THEN Reply([s EXCEPT !.cwd = p], fs, 250)
     ELSE Reply(s, fs, 550)

handleCDUP(s) == handleCWD(s, [abs |-> FALSE, at |-> <<"..">>])

handleMKD(s, a) ==
  LET p == getAbsolutePath(s, a)
  IN IF isPathValid(p) /\ ~isFileExists(p) /\ InDirectory(p)
     THEN Reply(s, [q \in DOMAIN fs \cup {p} |-> IF q = p THEN Directory ELSE fs[q]], 257)
     ELSE Reply(s, fs, 550)

Without(paths) == [q \in DOMAIN fs \ paths |-> fs[q]]

handleRMD(s, a) ==
  LET p == getAbsolutePath(s, a)
  IN IF isPathValid(p) /\ isDirectory(p) /\ p # <<>> /\ Entries(p) = {}
     THEN Reply(s, Without({p}), 250)
     ELSE Reply(s, fs, 550)

handleDELE(s, a) ==
  LET p == getAbsolutePath(s, a)
  IN IF isPathValid(p) /\ isFileExists(p) /\ ~isDirectory(p)
     THEN Reply(s, Without({p}), 250)
     ELSE Reply(s, fs, 550)

\* 'A' and 'I' are the types the client sends; nothing reads transferType_
\* except the text of STAT.
handleTYPE(s) == Reply(s, fs, 200)

\* bind() to port 0: the system picks a free port.
EphemeralPort(n) == 32768 + n
\* The two numbers of the 227 reply that stand for the port.
generatePasvResponse(port) == <<port \div 256, port % 256>>

\* createPassiveListener closes the old listener, if any, and opens another.
handlePASV(s) ==
  Reply([s EXCEPT !.listener = EphemeralPort(s.n), !.mode = "PASSIVE"], fs, 227)

closeDataConnection(s) == [s EXCEPT !.listener = 0, !.mode = "NONE"]

\* Six numbers below 256 separated by commas.
parsePortCommand(a) == a.at = <<"h1,h2,h3,h4,p1,p2">>

\* dataMode_ is set to ACTIVE before closeDataConnection() sets it to NONE.
handlePORT(s, a) ==
  IF parsePortCommand(a) THEN Reply(closeDataConnection([s EXCEPT !.mode = "ACTIVE"]), fs, 200)
  ELSE Reply(s, fs, 501)

Opening(s, kind, p) == Reply([s EXCEPT !.at = "open", !.kind = kind, !.path = p], fs, 150)

handleLIST(s, a) ==
  LET p == getAbsolutePath(s, a)
  IN IF isPathValid(p) /\ isDirectory(p) THEN Opening(s, "list", p)
     ELSE Reply(s, fs, 550)

handleNLST(s, a) ==
  LET p == getAbsolutePath(s, a)
  IN IF isPathValid(p) /\ isDirectory(p) THEN Opening(s, "list", p)
     ELSE Reply(s, fs, 550)

handleRETR(s, a) ==
  LET p == getAbsolutePath(s, a)
  IN IF isPathValid(p) /\ isFileExists(p) /\ ~isDirectory(p) THEN Opening(s, "retr", p)
     ELSE Reply(s, fs, 550)

handleSTOR(s, a) ==
  LET p == getAbsolutePath(s, a)
  IN IF isPathValid(p) THEN Opening(s, "stor", p) ELSE Reply(s, fs, 550)

handleAPPE(s, a) ==
  LET p == getAbsolutePath(s, a)
  IN IF isPathValid(p) THEN Opening(s, "appe", p) ELSE Reply(s, fs, 550)

handleRNFR(s, a) ==
  LET p == getAbsolutePath(s, a)
  IN IF isPathValid(p) /\ isFileExists(p) THEN Reply([s EXCEPT !.from = {p}], fs, 350)
     ELSE Reply(s, fs, 550)

\* rename(2): a directory takes its entries along and replaces only an empty
\* directory, a file replaces only a file, nothing moves beneath itself.
CanRename(old, new) ==
  /\ old # <<>> /\ isFileExists(old) /\ InDirectory(new)
  /\ ~(IsPrefix(old, new) /\ old # new)
  /\ isFileExists(new) /\ old # new =>
       fs[old].dir = fs[new].dir /\ Entries(new) = {}
Renamed(old, new) ==
  LET moved == {old} \cup Entries(old)
      To(q) == new \o SubSeq(q, Len(old) + 1, Len(q))
      stays == DOMAIN fs \ (moved \cup {new})
  IN [q \in stays \cup {To(m) : m \in moved} |->
        IF q \in stays THEN fs[q] ELSE fs[CHOOSE m \in moved : To(m) = q]]

handleRNTO(s, a) ==
  LET p == getAbsolutePath(s, a)
      done == [s EXCEPT !.from = {}]
      old == CHOOSE q \in s.from : TRUE
  IN IF s.from = {} THEN Reply(s, fs, 503)
     ELSE IF isPathValid(p) /\ CanRename(old, p) THEN Reply(done, Renamed(old, p), 250)
     ELSE Reply(done, fs, 550)

handleSIZE(s, a) ==
  LET p == getAbsolutePath(s, a)
  IN Reply(s, fs, IF isPathValid(p) /\ isFileExists(p) /\ ~isDirectory(p) THEN 213 ELSE 550)

handleMDTM(s, a) == handleSIZE(s, a)

\* HELP, SYST, STAT, NOOP and FEAT answer and change nothing.
handleInformation(s, cmd) ==
  Reply(s, fs, CASE cmd = "HELP" -> 214 [] cmd = "SYST" -> 215 [] cmd = "NOOP" -> 200
                 [] OTHER -> 211)

handleCommand(s, cmd, a) ==
  CASE ~s.auth /\ cmd \notin {"USER", "PASS", "QUIT", "SYST", "FEAT"} -> Reply(s, fs, 530)
    [] cmd = "USER" -> handleUSER(s, a) [] cmd = "PASS" -> handlePASS(s)
    [] cmd = "QUIT" -> handleQUIT(s)    [] cmd = "PWD" -> handlePWD(s)
    [] cmd = "CWD" -> handleCWD(s, a)   [] cmd = "CDUP" -> handleCDUP(s)
    [] cmd = "MKD" -> handleMKD(s, a)   [] cmd = "RMD" -> handleRMD(s, a)
    [] cmd = "DELE" -> handleDELE(s, a) [] cmd = "RNFR" -> handleRNFR(s, a)
    [] cmd = "RNTO" -> handleRNTO(s, a) [] cmd = "SIZE" -> handleSIZE(s, a)
    [] cmd = "MDTM" -> handleMDTM(s, a) [] cmd = "TYPE" -> handleTYPE(s)
    [] cmd = "PORT" -> handlePORT(s, a) [] cmd = "PASV" -> handlePASV(s)
    [] cmd = "LIST" -> handleLIST(s, a) [] cmd = "NLST" -> handleNLST(s, a)
    [] cmd = "RETR" -> handleRETR(s, a) [] cmd = "STOR" -> handleSTOR(s, a)
    [] cmd = "APPE" -> handleAPPE(s, a)
    [] cmd \in {"HELP", "SYST", "STAT", "NOOP", "FEAT"} -> handleInformation(s, cmd)
    [] OTHER -> Reply(s, fs, 502)

\* The listing of a directory fits one buffer.
formatFileList(p) == <<"listing">>

(***************************************************************************)
(* The server process.  sess is the session of the client being served.    *)
(***************************************************************************)
sess == ftpd.sess
sendResponse(c, code) ==
  toClient' = [toClient EXCEPT ![c] = Append(@, [code |-> code, n |-> sess.n, port |-> <<>>])]
NoData == [at |-> "none", client |-> FALSE, server |-> FALSE, reset |-> FALSE,
           up |-> <<>>, down |-> <<>>]

\* Closing a listener resets the connection still waiting in its backlog.
ListenerClosed(d) == IF d.at = "queued" THEN [d EXCEPT !.reset = TRUE] ELSE d
Connected(s) == [ftpd EXCEPT !.sess = s]

\* handleClient() joins every joinable thread, the one it has just started
\* included: the accept loop goes on when that client's session is over.
accept ==
  /\ ftpd.up /\ ftpd.running /\ ftpd.serving = Nobody /\ ftpd.pending # <<>>
  /\ LET c == Head(ftpd.pending)
     IN ftpd' = [ftpd EXCEPT !.pending = Tail(@), !.serving = c, !.sess = Session(c),
                             !.sessions = @ \cup {c}]
  /\ UNCHANGED <<fs, ftpc, toServer, toClient, data>>

Bare == {"PASV", "PWD", "QUIT", "CDUP", "HELP", "SYST", "STAT", "NOOP", "FEAT"}

\* What recv() returns is one command: with two in the buffer the second is
\* part of the first one's argument, or of its name.
parseCommand(line) ==
  CASE Len(line) = 1 -> [cmd |-> line[1].cmd, arg |-> line[1].arg]
    [] line[1].cmd \in Bare -> [cmd |-> "unknown", arg |-> NoArg]
    [] OTHER -> [cmd |-> line[1].cmd,
                 arg |-> [line[1].arg EXCEPT !.at = Append(@, "garbled")]]

Welcome ==
  /\ ftpd.up /\ ftpd.serving # Nobody /\ sess.at = "welcome"
  /\ sendResponse(sess.of, 220)
  /\ ftpd' = Connected([sess EXCEPT !.at = "test"])
  /\ UNCHANGED <<fs, ftpc, toServer, data>>

\* The condition of the loop of sessionLoop.
LoopTest ==
  /\ ftpd.up /\ ftpd.serving # Nobody /\ sess.at = "test"
  /\ ftpd' = Connected(IF sess.running /\ sess.state # "DISCONNECTED"
                       THEN [sess EXCEPT !.at = "recv"]
                       ELSE [sess EXCEPT !.at = "over", !.state = "DISCONNECTED"])
  /\ UNCHANGED <<fs, ftpc, toServer, toClient, data>>

\* A session that waits in recv() when it is stopped serves one more command.
sessionLoop ==
  /\ ftpd.up /\ ftpd.serving # Nobody /\ sess.at = "recv"
  /\ LET c == sess.of
         line == parseCommand(toServer[c])
         s == [sess EXCEPT !.n = toServer[c][1].n, !.at = "test"]
         h == handleCommand(s, line.cmd, line.arg)
     IN /\ toServer[c] # <<>>
        /\ ftpd' = Connected(h.s)
        /\ fs' = h.f
        /\ toServer' = [toServer EXCEPT ![c] = <<>>]
        /\ toClient' = [toClient EXCEPT ![c] = Append(@, [code |-> h.code, n |-> s.n,
                           port |-> IF h.code = 227 THEN generatePasvResponse(h.s.listener) ELSE <<>>])]
        /\ data' = [data EXCEPT ![c] =
                      IF line.cmd \in {"PASV", "PORT"} /\ h.code \in {227, 200} THEN ListenerClosed(@) ELSE @]
  /\ UNCHANGED ftpc

\* recv() finds the connection closed.
SessionOver ==
  /\ ftpd.up /\ ftpd.serving # Nobody /\ sess.at = "recv"
  /\ toServer[sess.of] = <<>> /\ ~ftpc[sess.of].socket
  /\ ftpd' = Connected([sess EXCEPT !.at = "over", !.state = "DISCONNECTED"])
  /\ UNCHANGED <<fs, ftpc, toServer, toClient, data>>

Finished(s, code) ==
  /\ sendResponse(s.of, code)
  /\ ftpd' = Connected([closeDataConnection(s) EXCEPT
                          !.at = "test", !.kind = "none", !.path = <<>>, !.left = <<>>])
  /\ data' = [data EXCEPT ![s.of] = [@ EXCEPT !.server = FALSE]]

\* Without a data mode the handler answers 425 and leaves everything as it is;
\* in passive mode accept() waits for the client's connection.
openDataConnection ==
  /\ ftpd.up /\ ftpd.serving # Nobody /\ sess.at = "open"
  /\ \/ /\ sess.mode = "NONE"
        /\ sendResponse(sess.of, 425)
        /\ ftpd' = Connected([sess EXCEPT !.at = "test", !.kind = "none", !.path = <<>>])
        /\ UNCHANGED data
     \/ /\ sess.mode = "PASSIVE"
        /\ data[sess.of].at = "queued" /\ ~data[sess.of].reset
        /\ data' = [data EXCEPT ![sess.of] = [@ EXCEPT !.at = "open", !.server = TRUE]]
        /\ ftpd' = Connected([sess EXCEPT !.at = "begin"])
        /\ UNCHANGED toClient
  /\ UNCHANGED <<fs, ftpc, toServer>>

\* sendData/sendFile read what they send; receiveFile opens the file, which
\* empties it unless it appends.
BeginTransfer ==
  /\ ftpd.up /\ ftpd.serving # Nobody /\ sess.at = "begin"
  /\ LET p == sess.path
         empty == [q \in DOMAIN fs \cup {p} |-> IF q = p THEN File(<<>>) ELSE fs[q]]
     IN CASE sess.kind = "list" ->
               /\ ftpd' = Connected([sess EXCEPT !.at = "send", !.left = formatFileList(p)])
               /\ UNCHANGED <<fs, toClient, data>>
          [] sess.kind = "retr" /\ isFileExists(p) ->
               /\ ftpd' = Connected([sess EXCEPT !.at = "send", !.left = fs[p].bytes])
               /\ UNCHANGED <<fs, toClient, data>>
          [] sess.kind \in {"stor", "appe"} /\ ~isDirectory(p) /\ InDirectory(p) ->
               /\ ftpd' = Connected([sess EXCEPT !.at = "receive"])
               /\ fs' = IF sess.kind = "appe" /\ isFileExists(p) THEN fs ELSE empty
               /\ UNCHANGED <<toClient, data>>
          [] OTHER -> Finished(sess, 426) /\ UNCHANGED fs
  /\ UNCHANGED <<ftpc, toServer>>

\* A process that writes to a connection the peer has closed is killed by
\* SIGPIPE; the kernel closes what it had open.
ServerKilled ==
  /\ ftpd' = [ftpd EXCEPT !.up = FALSE, !.serving = Nobody, !.pending = <<>>]
  /\ data' = [c \in FtpClients |-> [data[c] EXCEPT !.server = FALSE, !.reset = TRUE]]
  /\ UNCHANGED toClient

sendFile ==
  /\ ftpd.up /\ ftpd.serving # Nobody /\ sess.at = "send"
  /\ LET d == data[sess.of]
         sent == Connected([sess EXCEPT !.left = Tail(@)])
     IN \/ /\ sess.left = <<>>
           /\ Finished(sess, 226)
        \/ /\ sess.left # <<>> /\ d.client /\ ~d.reset
           /\ ftpd' = sent
           /\ data' = [data EXCEPT ![sess.of].down = Append(@, Head(sess.left))]
           /\ UNCHANGED toClient
        \/ /\ sess.left # <<>> /\ ~d.client
           /\ ftpd' = sent /\ UNCHANGED <<data, toClient>>
        \/ /\ sess.left # <<>> /\ (~d.client \/ d.reset)
           /\ Finished(sess, 426)
        \/ /\ sess.left # <<>> /\ ~d.client
           /\ ServerKilled
  /\ UNCHANGED <<fs, ftpc, toServer>>

\* The disk may refuse a buffer while the file is written, which is answered
\* 426, or what the stream still holds when it is closed, which is not looked at.
receiveFile ==
  /\ ftpd.up /\ ftpd.serving # Nobody /\ sess.at = "receive"
  /\ LET d == data[sess.of]
         f == fs[sess.path]
     IN \/ /\ d.up # <<>>
           /\ fs' = [fs EXCEPT ![sess.path].bytes = Append(@, Head(d.up))]
           /\ data' = [data EXCEPT ![sess.of].up = Tail(@)]
           /\ UNCHANGED <<ftpd, toClient>>
        \/ /\ d.up # <<>> /\ Finished(sess, 426) /\ UNCHANGED fs
        \/ /\ d.up = <<>> /\ ~d.client /\ ~d.reset
           /\ Finished(sess, 226)
           /\ \/ UNCHANGED fs
              \/ /\ f.bytes # <<>>
                 /\ fs' = [fs EXCEPT ![sess.path] = [@ EXCEPT !.bytes = Front(@), !.short = TRUE]]
        \/ /\ d.reset
           /\ Finished(sess, 426) /\ UNCHANGED fs
  /\ UNCHANGED <<ftpc, toServer>>

\* The thread of handleClient() sees the session end, or the server stopping,
\* and takes it off the list; ~Session then joins the session's thread.
removeSession ==
  /\ ftpd.up /\ ftpd.serving \in ftpd.sessions
  /\ sess.state = "DISCONNECTED" \/ ~ftpd.running
  /\ ftpd' = [ftpd EXCEPT !.sessions = @ \ {ftpd.serving}, !.sess.running = FALSE]
  /\ UNCHANGED <<fs, ftpc, toServer, toClient, data>>

SessionDestroyed ==
  /\ ftpd.up /\ ftpd.serving # Nobody /\ ftpd.serving \notin ftpd.sessions
  /\ sess.at = "over"
  /\ ftpd' = [ftpd EXCEPT !.serving = Nobody, !.sess = Session(Nobody)]
  /\ data' = [data EXCEPT ![sess.of] = [ListenerClosed(@) EXCEPT !.server = FALSE]]
  /\ UNCHANGED <<fs, ftpc, toServer, toClient>>

signalHandler ==
  /\ ftpd.up /\ ftpd.running
  /\ ftpd' = [ftpd EXCEPT !.running = FALSE]
  /\ UNCHANGED <<fs, ftpc, toServer, toClient, data>>

stop ==
  /\ ftpd.up /\ ~ftpd.running /\ ftpd.serving = Nobody
  /\ ftpd' = [ftpd EXCEPT !.up = FALSE, !.pending = <<>>]
  /\ UNCHANGED <<fs, ftpc, toServer, toClient, data>>

\* The network resets a transfer under way.
DataReset(c) ==
  /\ data[c].client /\ data[c].server /\ ~data[c].reset
  /\ data' = [data EXCEPT ![c].reset = TRUE]
  /\ UNCHANGED <<ftpd, fs, ftpc, toServer, toClient>>

Server == \/ accept \/ Welcome \/ LoopTest \/ sessionLoop \/ SessionOver \/ openDataConnection
          \/ BeginTransfer \/ sendFile \/ receiveFile \/ removeSession
          \/ SessionDestroyed \/ signalHandler \/ stop

(***************************************************************************)
(* The client: each method of FTPClient as the command it sends at a step, *)
(* given the code it has just read, or "data", "ok" or "fail".             *)
(***************************************************************************)
login(step, code) ==
  CASE step = 0 -> "USER"
    [] step = 1 -> IF code \in {331, 230} THEN "PASS" ELSE "fail"
    [] step = 2 -> IF code = 230 THEN "PWD" ELSE "fail"
    [] OTHER -> "ok"

pwd(step, code) == IF step = 0 THEN "PWD" ELSE "ok"

cd(step, code) ==
  CASE step = 0 -> "CWD"
    [] step = 1 -> IF code = 250 THEN "PWD" ELSE "fail"
    [] OTHER -> "ok"

Only(cmd, good, step, code) ==
  IF step = 0 THEN cmd ELSE IF code = good THEN "ok" ELSE "fail"
mkdir(step, code) == Only("MKD", 257, step, code)
rmdir(step, code) == Only("RMD", 250, step, code)
deleteFile(step, code) == Only("DELE", 250, step, code)
setType(step, code) == Only("TYPE", 200, step, code)

list(step, code) ==
  CASE step = 0 -> "PASV"
    [] step = 1 -> IF code = 227 THEN "LIST" ELSE "fail"
    [] step = 2 -> IF code \in {150, 125} THEN "data" ELSE "fail"
    [] OTHER -> IF code = 226 THEN "ok" ELSE "fail"

\* get and put do not look at what setType returns.
get(step, code) ==
  CASE step = 0 -> "TYPE"
    [] step = 1 -> "PASV"
    [] step = 2 -> IF code = 227 THEN "RETR" ELSE "fail"
    [] step = 3 -> IF code \in {150, 125} THEN "data" ELSE "fail"
    [] OTHER -> IF code = 226 THEN "ok" ELSE "fail"

put(step, code) ==
  CASE step = 0 -> "TYPE"
    [] step = 1 -> "PASV"
    [] step = 2 -> IF code = 227 THEN "STOR" ELSE "fail"
    [] step = 3 -> IF code \in {150, 125} THEN "data" ELSE "fail"
    [] OTHER -> IF code = 226 THEN "ok" ELSE "fail"

executeCommand(cmd, step, code) ==
  IF step = 0 THEN cmd ELSE IF code < 400 THEN "ok" ELSE "fail"

disconnect(step, code) == IF step = 0 THEN "QUIT" ELSE "ok"

ThenDo(op, step, code) ==
  CASE op = "open" -> "ok"                    [] op = "login" -> login(step, code)
    [] op = "pwd" -> pwd(step, code)          [] op = "cd" -> cd(step, code)
    [] op = "mkdir" -> mkdir(step, code)      [] op = "rmdir" -> rmdir(step, code)
    [] op = "delete" -> deleteFile(step, code) [] op = "binary" -> setType(step, code)
    [] op = "ls" -> list(step, code)          [] op = "get" -> get(step, code)
    [] op = "put" -> put(step, code)          [] op = "close" -> disconnect(step, code)
    [] OTHER -> executeCommand(op, step, code)

FTPClient == [socket |-> FALSE, connected |-> FALSE, loggedIn |-> FALSE, pc |-> "new",
              op |-> "none", arg |-> NoArg, step |-> 0, left |-> <<>>, got |-> <<>>,
              ok |-> FALSE, n |-> 0, ops |-> 0, answered |-> TRUE, clean |-> TRUE, cut |-> FALSE]

LocalFile(c) == [i \in 1..FileBuffers |-> <<c, i>>]
Transfers == {"LIST", "NLST", "RETR", "STOR", "APPE"}

\* The server's end of the control connection is closed.
Hangup(c) == /\ ftpc[c].socket /\ ftpd.serving # c
             /\ \A i \in DOMAIN ftpd.pending : ftpd.pending[i] # c

sendCommand(c, cmd, arg, n) ==
  toServer' = IF Hangup(c) THEN toServer
              ELSE [toServer EXCEPT ![c] = Append(@, [cmd |-> cmd, arg |-> arg, n |-> n])]

\* MUTANT: connect() returns without reading the greeting.
connectUngreeted(c) ==
  /\ ftpc[c].pc = "new" /\ ftpd.up
  /\ ftpd' = [ftpd EXCEPT !.pending = Append(@, c)]
  /\ ftpc' = [ftpc EXCEPT ![c] = [@ EXCEPT !.socket = TRUE, !.connected = TRUE, !.pc = "idle"]]
  /\ UNCHANGED <<fs, toServer, toClient, data>>

connect(c) ==
  /\ ftpc[c].pc = "new" /\ ftpd.up
  /\ ftpd' = [ftpd EXCEPT !.pending = Append(@, c)]
  /\ ftpc' = [ftpc EXCEPT ![c] = [@ EXCEPT !.socket = TRUE, !.connected = TRUE,
                                           !.pc = "reply", !.op = "open", !.step = 1]]
  /\ UNCHANGED <<fs, toServer, toClient, data>>

\* The prompt: a menu command, or anything else sent as it was typed.  A
\* transfer typed raw has two replies and executeCommand reads one.
Prompt(c) ==
  /\ ftpc[c].pc = "idle" /\ ftpc[c].ops < MaxOps[c]
  /\ \E u \in UserOps[c] :
       LET cmd == ThenDo(u.op, 0, 0)
       IN /\ u.op \notin {"login", "close"} => ftpc[c].loggedIn
          /\ sendCommand(c, cmd, IF cmd \in Bare THEN NoArg ELSE u.arg, ftpc[c].n + 1)
          /\ ftpc' = [ftpc EXCEPT ![c] =
               [@ EXCEPT !.pc = "reply", !.op = u.op, !.arg = u.arg, !.step = 1, !.n = @ + 1,
                         !.ops = @ + 1, !.clean = @ /\ u.op \notin Transfers]]
  /\ UNCHANGED <<ftpd, fs, toClient, data>>

ClosedData(c) == [data EXCEPT ![c] = [@ EXCEPT !.client = FALSE]]
Returns(c, ok) ==
  [ftpc EXCEPT ![c] = [@ EXCEPT !.pc = "returned", !.ok = ok]]

\* A reply is all that has arrived, "" once the server has hung up; the code
\* is the first one's.
receiveResponse(c) ==
  IF toClient[c] # <<>> THEN Head(toClient[c]) ELSE [code |-> -1, n |-> ftpc[c].n, port |-> <<>>]

enterPassiveMode(c, r) ==
  ftpd.up /\ ftpd.serving = c /\ sess.listener = r.port[1] * 256 + r.port[2]

readReply(c) ==
  /\ ftpc[c].pc = "reply" /\ (toClient[c] # <<>> \/ Hangup(c))
  /\ toClient' = [toClient EXCEPT ![c] = <<>>]
  /\ LET r == receiveResponse(c)
         me == [ftpc[c] EXCEPT !.answered = r.n = ftpc[c].n]
         next == ThenDo(me.op, me.step, r.code)
         onward == [me EXCEPT !.step = @ + 1, !.n = @ + 1,
                              !.loggedIn = @ \/ (me.op = "login" /\ next = "PWD")]
         refused == r.code = 227 /\ next \in Transfers /\ ~enterPassiveMode(c, r)
     IN \/ /\ next \notin {"ok", "fail", "data"} /\ ~refused
           /\ sendCommand(c, next, IF next \in Bare THEN NoArg ELSE me.arg, onward.n)
           /\ ftpc' = [ftpc EXCEPT ![c] = onward]
           /\ data' = IF r.code = 227 /\ next \in Transfers
                      THEN [data EXCEPT ![c] = [NoData EXCEPT !.at = "queued", !.client = TRUE]]
                      ELSE data
        \/ /\ refused
           /\ ftpc' = [Returns(c, FALSE) EXCEPT ![c].answered = me.answered]
           /\ UNCHANGED <<toServer, data>>
        \/ /\ next \in {"ok", "fail"}
           /\ ftpc' = [Returns(c, next = "ok") EXCEPT ![c].answered = me.answered]
           /\ data' = ClosedData(c)
           /\ UNCHANGED toServer
        \/ /\ next = "data"
           /\ ftpc' = [ftpc EXCEPT ![c] = [me EXCEPT !.pc = IF me.op = "put" THEN "upload" ELSE "download",
                                             !.left = IF me.op = "put" THEN LocalFile(c) ELSE <<>>]]
           /\ UNCHANGED <<toServer, data>>
        \/ \* the local file cannot be created, or read
           /\ next = "data" /\ me.op \in {"get", "put"}
           /\ ftpc' = [Returns(c, FALSE) EXCEPT ![c].answered = me.answered, ![c].clean = FALSE]
           /\ data' = ClosedData(c)
           /\ UNCHANGED toServer
  /\ UNCHANGED <<ftpd, fs>>

Awaits(me) == [me EXCEPT !.pc = "reply", !.step = @ + 1]

\* recv() on the data socket until it returns no byte, whatever the reason.
receiveData(c) ==
  /\ ftpc[c].pc = "download"
  /\ LET d == data[c]
     IN \/ /\ d.down # <<>>
           /\ ftpc' = [ftpc EXCEPT ![c].got = Append(@, Head(d.down))]
           /\ data' = [data EXCEPT ![c].down = Tail(@)]
        \/ /\ d.reset \/ (d.down = <<>> /\ d.at = "open" /\ ~d.server)
           /\ ftpc' = [ftpc EXCEPT ![c] = [Awaits(@) EXCEPT !.cut = d.reset]]
           /\ data' = ClosedData(c)
  /\ UNCHANGED <<ftpd, fs, toServer, toClient>>

Leaves(c) ==
  /\ ftpc' = [ftpc EXCEPT ![c] = [FTPClient EXCEPT !.pc = "left"]]
  /\ data' = ClosedData(c)

sendLocalFile(c) ==
  /\ ftpc[c].pc = "upload"
  /\ LET d == data[c]
         me == ftpc[c]
         deaf == d.reset \/ (d.at = "open" /\ ~d.server)
     IN \/ /\ me.left = <<>>
           /\ ftpc' = [ftpc EXCEPT ![c] = Awaits(@)]
           /\ data' = ClosedData(c)
        \/ /\ me.left # <<>>
           /\ ftpc' = [ftpc EXCEPT ![c].left = Tail(@)]
           /\ data' = IF deaf THEN data ELSE [data EXCEPT ![c].up = Append(@, Head(me.left))]
        \/ /\ me.left # <<>> /\ deaf
           /\ ftpc' = [Returns(c, FALSE) EXCEPT ![c].clean = FALSE]
           /\ data' = ClosedData(c)
        \/ /\ me.left # <<>> /\ deaf
           /\ Leaves(c)
  /\ UNCHANGED <<ftpd, fs, toServer, toClient>>

ToPrompt(c) ==
  /\ ftpc[c].pc = "returned"
  /\ \/ /\ ftpc[c].op # "close"
        /\ ftpc' = [ftpc EXCEPT ![c] = [@ EXCEPT !.pc = "idle", !.op = "none", !.arg = NoArg, !.step = 0,
                                                 !.left = <<>>, !.got = <<>>, !.ok = FALSE, !.cut = FALSE]]
        /\ UNCHANGED data
     \/ ftpc[c].op = "close" /\ Leaves(c)
  /\ UNCHANGED <<ftpd, fs, toServer, toClient>>

\* The client is killed: at its prompt, or by SIGPIPE once the server is gone.
Killed(c) ==
  /\ ftpc[c].pc = "idle" \/ (ftpc[c].pc = "reply" /\ Hangup(c))
  /\ Leaves(c)
  /\ UNCHANGED <<ftpd, fs, toServer, toClient>>

FtpInit ==
  /\ ftpd = [up |-> TRUE, running |-> TRUE, pending |-> <<>>, serving |-> Nobody,
             sessions |-> {}, sess |-> Session(Nobody)]
  /\ fs = [p \in {<<>>, <<"d">>, <<"f">>} |-> IF p = <<"f">> THEN File(<<"old">>) ELSE Directory]
  /\ ftpc = [c \in FtpClients |-> FTPClient]
  /\ toServer = [c \in FtpClients |-> <<>>]
  /\ toClient = [c \in FtpClients |-> <<>>]
  /\ data = [c \in FtpClients |-> NoData]

FtpNext ==
  \/ Server
  \/ \E c \in FtpClients : \/ connect(c) \/ Prompt(c) \/ readReply(c) \/ receiveData(c)
                           \/ sendLocalFile(c) \/ ToPrompt(c) \/ Killed(c) \/ DataReset(c)

FtpSpec == FtpInit /\ [][FtpNext]_ftpVars

(***************************************************************************)
(* Properties.                                                             *)
(***************************************************************************)
\* A transfer the client reports as successful is whole.  After put() prints
\* its success the server's file holds exactly the local one, also when the
\* network reset the data connection at any point or the disk refused a
\* write, except that the last write may be missing (receiveFile does not look
\* at what closing the file returns); after get() the local file holds exactly
\* the server's, as long as the data connection was not reset (the download
\* loop takes an error of recv() for the end of the file).
TransferIsWhole ==
  \A c \in FtpClients :
    LET p == getAbsolutePath(sess, ftpc[c].arg)
    IN ftpc[c].pc = "returned" /\ ftpc[c].ok /\ sess.of = c =>
         /\ ftpc[c].op = "put" => /\ isFileExists(p)
                                   /\ fs[p].bytes = IF fs[p].short THEN Front(LocalFile(c)) ELSE LocalFile(c)
         /\ ftpc[c].op = "get" /\ ~ftpc[c].cut => isFileExists(p) /\ fs[p].bytes = ftpc[c].got

\* The client and the server stay in step on the control connection: the
\* reply a method of FTPClient reads answers the command it has just sent.
\* Two things put them out of step and are left out: a transfer typed as a
\* raw command, and a get or put that gives up after the 150 reply.
RepliesInStep ==
  \A c \in FtpClients : ftpc[c].clean => ftpc[c].answered
\* So a client can believe what it prints about its commands.
SessionInStep == TransferIsWhole /\ RepliesInStep
=============================================================================
