------------------------------ MODULE ChatRoom ------------------------------
(***************************************************************************)
(* StdChatRoom: the chat server with one thread per connection (ChatServer, *)
(* UserManager, FileManager) and its command line clients (ChatClient, two  *)
(* threads each).                                                           *)
(*                                                                          *)
(* A handler thread keeps a list of the sends its message still asks for:   *)
(* the socket of a name is looked up under onlineUsersMutex in one step and *)
(* written to in a later one, so it can be closed, and its number used      *)
(* again, in between.  The server takes one recv() for one message: what    *)
(* arrives with it is lost, and a message longer than the buffer comes in   *)
(* two reads.  A topic says which commands the users of a behaviour give:   *)
(* in a "group" they stay and only send to all.                             *)
(***************************************************************************)
EXTENDS Integers, Sequences, FiniteSets, SequencesExt

CONSTANTS Processes,   \* client processes, in the order they are started
          Names,       \* user names
          Topics,      \* subset of {"talk", "group", "accounts", "files"}
          MaxInputs,   \* bound: commands each process gets, by topic and process
          MaxRestarts  \* bound: restarts of the server

VARIABLES topic, accounts, userFile, online, chatServer, sock, hnd, chat,
          up, down, files, shown

chatVars == <<topic, accounts, userFile, online, chatServer, sock, hnd, chat, up, down, files, shown>>

Nobody == "nobody"

Procs == ToSet(Processes)

(* The socket numbers: an accepted connection gets the least free one. *)
Fds == 1 .. Len(Processes)

NoSock == [fd |-> 0, open |-> FALSE, peer |-> FALSE, reset |-> FALSE, logins |-> 0]

(* The kernel closes the sockets of a process that ends. *)
AllClosed == [p \in Procs |-> [sock[p] EXCEPT !.open = FALSE]]

NoHandler == [pc |-> "none", todo |-> <<>>, fd |-> 0, m |-> Nobody]

NoClient == [main |-> "none", recv |-> "none", connected |-> FALSE, loggedIn |-> FALSE,
             user |-> Nobody, pending |-> 0, asked |-> Nobody, inputs |-> 0]

(* A message: its type, sender and receiver fields, and what stands for its content. *)
Message(type, sender, receiver, body) == [type |-> type, sender |-> sender, receiver |-> receiver, body |-> body]

(* Sends a handler still has to make: to its own client, or to names. *)
ToSelf(m) == [k |-> "self", names |-> {}, but |-> Nobody, m |-> m]
ToNames(names, m) == [k |-> "each", names |-> names, but |-> Nobody, m |-> m]
ToAll(but, m) == [k |-> "all", names |-> {}, but |-> but, m |-> m]

sendResponse(body) == ToSelf(Message("RESPONSE", "server", Nobody, body))

HolderOf(fd) == {p \in Procs : sock[p].fd = fd /\ sock[p].open}

(* A socket may have several names: the map is searched in no particular order. *)
getUsernameBySocket(fd) == {u \in DOMAIN online : online[u] = fd}

Without(f, x) == [y \in DOMAIN f \ {x} |-> f[y]]

ChatInit ==
    /\ topic \in Topics
    /\ accounts = IF topic = "accounts" THEN {} ELSE Names
    /\ userFile = [torn |-> FALSE, saved |-> TRUE, names |-> accounts]
    /\ online = <<>>
    /\ chatServer = [state |-> "up", restarts |-> 0]
    /\ sock = [p \in Procs |-> NoSock]
    /\ hnd = [p \in Procs |-> NoHandler]
    /\ chat = [p \in Procs |-> NoClient]
    /\ up = [p \in Procs |-> <<>>]
    /\ down = [p \in Procs |-> <<>>]
    /\ files = [next |-> 1, sessions |-> {}, uploads |-> {}, group |-> {}]
    /\ shown = [p \in Procs |-> <<>>]

(***************************************************************************)
(* ChatClient.                                                              *)
(***************************************************************************)
Earlier(p) == {Processes[i] : i \in {i \in 1 .. Len(Processes) : \E j \in i + 1 .. Len(Processes) : Processes[j] = p}}

(* acceptLoop: a handler thread for every connection. *)
acceptLoop(p) ==
    LET fd == CHOOSE f \in Fds : HolderOf(f) = {} /\ \A g \in 1 .. f - 1 : HolderOf(g) # {}
    IN  /\ sock' = [sock EXCEPT ![p] = [NoSock EXCEPT !.fd = fd, !.open = TRUE, !.peer = TRUE]]
        /\ hnd' = [hnd EXCEPT ![p] = [NoHandler EXCEPT !.pc = "recv"]]

connectToServer(p) ==
    /\ chat[p].main = "none"
    /\ \A q \in Earlier(p) : chat[q].main # "none"
    /\ chatServer.state = "up"
    /\ acceptLoop(p)
    /\ chat' = [chat EXCEPT ![p].main = "run", ![p].recv = "recv", ![p].connected = TRUE]
    /\ UNCHANGED <<topic, accounts, userFile, online, chatServer, up, down, files, shown>>

(* sendMessage of the client: a write to a connection the server has closed is lost. *)
Sends(p, m) ==
    up' = IF sock[p].open THEN [up EXCEPT ![p] = Append(@, m)] ELSE up

Input(p) ==
    /\ chat[p].main = "run" /\ chat[p].connected
    /\ chat[p].inputs < MaxInputs[topic][p]
    /\ UNCHANGED <<topic, accounts, userFile, online, chatServer, sock, hnd, down, files, shown>>

Counted(p) == [chat EXCEPT ![p].inputs = @ + 1]

registerUser(p, u) == Sends(p, Message("REGISTER", u, Nobody, 0)) /\ chat' = Counted(p)

(* currentUser is set before the server has answered. *)
loginUser(p, u, right) ==
    /\ Sends(p, Message("LOGIN", u, Nobody, right))
    /\ chat' = [Counted(p) EXCEPT ![p].user = u]

(* The menu; the password typed is right or wrong. *)
handleLoginRegister(p) ==
    /\ ~chat[p].loggedIn
    /\ Input(p)
    /\ \E u \in Names :
         \/ topic = "accounts" /\ registerUser(p, u)
         \/ topic # "accounts" /\ loginUser(p, u, TRUE)
         \/ topic = "accounts" /\ loginUser(p, u, FALSE)

(* sendPublicMessage, sendPrivateMessage and requestUserList. *)
Talk(p) ==
    /\ chat' = Counted(p)
    /\ \/ topic \in {"talk", "group"} /\ Sends(p, Message("CHAT_PUBLIC", chat[p].user, Nobody, <<p, chat[p].inputs>>))
       \/ \E u \in Names \ {chat[p].user} : topic = "talk" /\ Sends(p, Message("CHAT_PRIVATE", chat[p].user, u, <<p, chat[p].inputs>>))
       \/ topic = "talk" /\ Sends(p, Message("USER_LIST", chat[p].user, Nobody, 0))

(* uploadGroupFile: "long" when the message does not fit into one recv() of the server. *)
UploadCommand(p) ==
    \E length \in {"short", "long"} :
        Sends(p, Message("FILE_UPLOAD_GROUP", chat[p].user, Nobody, length)) /\ chat' = Counted(p)

DownloadCommand(p) ==
    \E f \in files.group : Sends(p, Message("FILE_DOWNLOAD_REQUEST", chat[p].user, Nobody, f.id)) /\ chat' = Counted(p)

SendFileCommand(p) ==
    \E u \in Names : Sends(p, Message("FILE_TRANSFER_REQUEST", chat[p].user, u, 0)) /\ chat' = Counted(p)

FileListCommand(p) == Sends(p, Message("FILE_LIST_REQUEST", chat[p].user, Nobody, 0)) /\ chat' = Counted(p)

(* While a request waits for an answer, input is the answer to the latest one. *)
AnswerCommand(p) ==
    \E type \in {"FILE_TRANSFER_ACCEPT", "FILE_TRANSFER_REJECT"} :
        /\ Sends(p, Message(type, chat[p].user, chat[p].asked, chat[p].pending))
        /\ chat' = [Counted(p) EXCEPT ![p].pending = 0, ![p].asked = Nobody]

handleChatInput(p) ==
    /\ chat[p].loggedIn
    /\ Input(p)
    /\ IF chat[p].pending # 0
       THEN AnswerCommand(p)
       ELSE \/ Talk(p)
            \/ topic = "files" /\ (UploadCommand(p) \/ DownloadCommand(p) \/ SendFileCommand(p) \/ FileListCommand(p))

(* /logout: the flags are cleared at once, the server answers by closing. *)
logoutUser(p) ==
    /\ topic # "group"
    /\ chat[p].loggedIn /\ chat[p].pending = 0
    /\ Input(p)
    /\ Sends(p, Message("LOGOUT", chat[p].user, Nobody, 0))
    /\ chat' = [Counted(p) EXCEPT ![p].loggedIn = FALSE, ![p].user = Nobody]

(* /quit: the socket lives on while the receiver is inside recv(), and join() waits for it; *)
(* a receiver between two calls sees connected at once.                                       *)
disconnect(p) ==
    /\ topic # "group"
    /\ chat[p].main = "run" /\ chat[p].connected
    /\ \E r \in {"recv", "done"} :
         chat' = [chat EXCEPT ![p].main = "join", ![p].recv = r, ![p].connected = FALSE, ![p].loggedIn = FALSE]
    /\ UNCHANGED <<topic, accounts, userFile, online, chatServer, sock, hnd, up, down, files, shown>>

(* run() ends: after join(), or, when the server went first, in the destructor of a thread *)
(* nobody joined (std::terminate).  The process is gone either way.                         *)
run(p) ==
    /\ \/ chat[p].main = "join" /\ chat[p].recv = "done"
       \/ chat[p].main = "run" /\ ~chat[p].connected
    /\ chat' = [chat EXCEPT ![p] = [NoClient EXCEPT !.main = "gone"]]
    /\ sock' = [sock EXCEPT ![p].peer = FALSE]
    /\ down' = [down EXCEPT ![p] = <<>>]
    /\ shown' = [shown EXCEPT ![p] = <<>>]
    /\ UNCHANGED <<topic, accounts, userFile, online, chatServer, hnd, up, files>>

(* What a received message does to the client. *)
handleReceivedMessage(cl, m) ==
    CASE m.type = "RESPONSE" /\ m.body = "login_ok" -> [cl EXCEPT !.loggedIn = TRUE]
      [] m.type = "FILE_TRANSFER_REQUEST" -> [cl EXCEPT !.pending = m.receiver, !.asked = m.sender]
      [] OTHER -> cl

(* receiveMessages: one complete line of the buffer, in the order of arrival. *)
receiveMessages(p) ==
    /\ chat[p].recv = "recv" /\ down[p] # <<>>
    /\ LET m == Head(down[p])
       IN  /\ chat' = [chat EXCEPT ![p] = [handleReceivedMessage(@, m) EXCEPT !.recv = IF chat[p].connected THEN "recv" ELSE "done"]]
           /\ shown' = IF m.type = "CHAT_PUBLIC" THEN [shown EXCEPT ![p] = Append(@, m.body)] ELSE shown
    /\ down' = [down EXCEPT ![p] = Tail(@)]
    /\ UNCHANGED <<topic, accounts, userFile, online, chatServer, sock, hnd, up, files>>

(* recv() returns 0 or fails: the server has closed the connection. *)
ConnectionLost(p) ==
    /\ chat[p].recv = "recv" /\ down[p] = <<>> /\ ~sock[p].open
    /\ chat' = [chat EXCEPT ![p].recv = "done", ![p].connected = FALSE, ![p].loggedIn = FALSE]
    /\ UNCHANGED <<topic, accounts, userFile, online, chatServer, sock, hnd, up, down, files, shown>>

(***************************************************************************)
(* ChatServer: a handler thread reads, asks the managers, and sends.        *)
(***************************************************************************)
Running(p, pc) == chatServer.state \in {"up", "stopping"} /\ hnd[p].pc = pc

(* usersMutex is held across saveToFile. *)
UsersFree == \A p \in Procs : hnd[p].pc # "save"

Works(p, todo) == hnd' = [hnd EXCEPT ![p].pc = IF todo = <<>> THEN "recv" ELSE "work", ![p].todo = todo]

handleLogin(p, m) ==
    /\ UsersFree
    /\ IF m.sender \in accounts /\ m.body /\ m.sender \notin DOMAIN online
       THEN /\ online' = [u \in DOMAIN online \cup {m.sender} |-> IF u = m.sender THEN sock[p].fd ELSE online[u]]
            /\ sock' = [sock EXCEPT ![p].logins = @ + 1]
            /\ Works(p, <<sendResponse("login_ok"), ToAll(m.sender, Message("RESPONSE", "system", Nobody, "notice"))>>)
       ELSE Works(p, <<sendResponse("no")>>) /\ UNCHANGED <<online, sock>>
    /\ UNCHANGED <<accounts, userFile, files>>

(* registerUser: saveToFile opens the file with trunc, or cannot open it and leaves it as it is. *)
(* registerUser ignores which, and the client is told that it is registered.                      *)
handleRegister(p, m) ==
    LET answer == <<sendResponse("registered")>>
    IN  /\ UsersFree
        /\ IF m.sender \in accounts
           THEN Works(p, <<sendResponse("no")>>) /\ UNCHANGED <<accounts, userFile>>
           ELSE /\ accounts' = accounts \cup {m.sender}
                /\ \/ /\ userFile' = [torn |-> TRUE, saved |-> FALSE, names |-> {}]
                      /\ hnd' = [hnd EXCEPT ![p].pc = "save", ![p].todo = answer]
                   \/ userFile' = [userFile EXCEPT !.saved = FALSE] /\ Works(p, answer)
        /\ UNCHANGED <<online, sock, files>>

(* ... and then writes every account; a write that fails is not noticed and leaves some of them. *)
UserFilesOf(all) == {f \in [torn : {FALSE}, saved : BOOLEAN, names : SUBSET all] : f.saved => f.names = all}

saveToFile(p) ==
    /\ Running(p, "save")
    /\ userFile' \in UserFilesOf(accounts)
    /\ hnd' = [hnd EXCEPT ![p].pc = "work"]
    /\ UNCHANGED <<topic, accounts, online, chatServer, sock, chat, up, down, files, shown>>

(* Every other handler starts with the name of its socket, and refuses without one. *)
UserOf(p) == IF getUsernameBySocket(sock[p].fd) = {} THEN {Nobody} ELSE getUsernameBySocket(sock[p].fd)
AsUser(p, u, handled) ==
    /\ UNCHANGED <<accounts, userFile, online, sock>>
    /\ IF u = Nobody THEN Works(p, <<sendResponse("no")>>) /\ UNCHANGED files ELSE handled

handlePublicChat(p, m) ==
    \E u \in UserOf(p) : AsUser(p, u, Works(p, <<ToAll(Nobody, Message("CHAT_PUBLIC", u, Nobody, m.body))>>) /\ UNCHANGED files)

handlePrivateChat(p, m) ==
    \E u \in UserOf(p) : AsUser(p, u,
        /\ UNCHANGED files
        /\ IF m.receiver \in DOMAIN online
           THEN Works(p, <<ToNames({m.receiver}, Message("CHAT_PRIVATE", u, m.receiver, m.body)), sendResponse("sent")>>)
           ELSE Works(p, <<sendResponse("no")>>))

handleUserListRequest(p, m) ==
    /\ Works(p, <<sendResponse("list")>>)
    /\ UNCHANGED <<accounts, userFile, online, sock, files>>

(* The session is created once the receiver's socket is known: see Resolve. *)
handleFileTransferRequest(p, m) ==
    \E u \in UserOf(p) : AsUser(p, u,
        /\ UNCHANGED files
        /\ IF m.receiver \in DOMAIN online
           THEN Works(p, <<ToNames({m.receiver}, Message("FILE_TRANSFER_REQUEST", u, 0, 0)), sendResponse("sent")>>)
           ELSE Works(p, <<sendResponse("no")>>))

handleFileTransferResponse(p, m) ==
    \E u \in UserOf(p) : AsUser(p, u,
        /\ UNCHANGED files
        /\ IF m.receiver \in DOMAIN online
           THEN Works(p, <<ToNames({m.receiver}, Message(m.type, u, m.receiver, m.body)), sendResponse("done")>>)
           ELSE Works(p, <<sendResponse("no")>>))

(* The content goes to temp_files/upload_<name> first.  Of a long message only the part  *)
(* in the buffer is seen: the size does not match.                                       *)
handleGroupFileUpload(p, m) ==
    \E u \in UserOf(p) : AsUser(p, u,
        IF m.body = "long"
        THEN Works(p, <<sendResponse("no")>>) /\ UNCHANGED files
        ELSE /\ files' = [files EXCEPT !.uploads = @ \cup {p}]
             /\ hnd' = [hnd EXCEPT ![p].pc = "upload", ![p].m = u])

(* FileManager::uploadGroupFile, then the response, the notification and the unlink. *)
uploadGroupFile(p) ==
    /\ Running(p, "upload")
    /\ files' = [files EXCEPT !.group = @ \cup {[id |-> files.next, by |-> hnd[p].m]}, !.next = @ + 1,
                              !.uploads = @ \ {p}]
    /\ hnd' = [hnd EXCEPT ![p] = [NoHandler EXCEPT !.pc = "work", !.todo = <<sendResponse("stored"), ToAll(hnd[p].m, Message("RESPONSE", "system", Nobody, "notice"))>>]]
    /\ UNCHANGED <<topic, accounts, userFile, online, chatServer, sock, chat, up, down, shown>>

handleFileListRequest(p, m) ==
    \E u \in UserOf(p) : AsUser(p, u, Works(p, <<sendResponse("files")>>) /\ UNCHANGED files)

handleFileDownloadRequest(p, m) ==
    \E u \in UserOf(p) : AsUser(p, u,
        /\ UNCHANGED files
        /\ IF \E f \in files.group : f.id = m.body
           THEN Works(p, <<ToSelf(Message("FILE_DATA", "server", u, m.body)), sendResponse("done")>>)
           ELSE Works(p, <<sendResponse("no")>>))

handleMessage(p, m) ==
    CASE m.type = "LOGIN" -> handleLogin(p, m)
      [] m.type = "REGISTER" -> handleRegister(p, m)
      [] m.type = "CHAT_PUBLIC" -> handlePublicChat(p, m)
      [] m.type = "CHAT_PRIVATE" -> handlePrivateChat(p, m)
      [] m.type = "USER_LIST" -> handleUserListRequest(p, m)
      [] m.type = "FILE_TRANSFER_REQUEST" -> handleFileTransferRequest(p, m)
      [] m.type \in {"FILE_TRANSFER_ACCEPT", "FILE_TRANSFER_REJECT"} -> handleFileTransferResponse(p, m)
      [] m.type = "FILE_UPLOAD_GROUP" -> handleGroupFileUpload(p, m)
      [] m.type = "FILE_LIST_REQUEST" -> handleFileListRequest(p, m)
      [] m.type = "FILE_DOWNLOAD_REQUEST" -> handleFileDownloadRequest(p, m)

(* receiveMessage: the first message of what one recv() returns; a long one leaves its tail. *)
Rests(p) ==
    IF Head(up[p]).type = "FILE_UPLOAD_GROUP" /\ Head(up[p]).body = "long"
    THEN {<<Message("TAIL", Nobody, Nobody, 0)>> \o Tail(up[p])}
    ELSE {SubSeq(up[p], k + 1, Len(up[p])) : k \in 1 .. Len(up[p])}

receiveMessage(p) ==
    /\ Running(p, "recv") /\ chatServer.state = "up"
    /\ up[p] # <<>> /\ Head(up[p]).type \notin {"LOGOUT", "TAIL"}
    /\ \E rest \in Rests(p) : up' = [up EXCEPT ![p] = rest]
    /\ handleMessage(p, Head(up[p]))
    /\ UNCHANGED <<topic, chatServer, chat, down, shown>>

(* handleClient leaves its loop: stop(), a closed peer, LOGOUT, or a message it cannot parse. *)
handleClient(p) ==
    /\ Running(p, "recv")
    /\ \/ chatServer.state = "stopping" /\ (up[p] # <<>> \/ ~sock[p].peer)
       \/ up[p] = <<>> /\ ~sock[p].peer
       \/ up[p] # <<>> /\ Head(up[p]).type \in {"LOGOUT", "TAIL"}
    /\ hnd' = [hnd EXCEPT ![p].pc = "logout"]
    /\ UNCHANGED <<topic, accounts, userFile, online, chatServer, sock, chat, up, down, files, shown>>

cleanupClosesFirst(p) ==
    /\ UsersFree
    /\ \/ /\ Running(p, "logout")
          /\ sock' = [sock EXCEPT ![p].open = FALSE]
          /\ hnd' = [hnd EXCEPT ![p].pc = "close"] /\ UNCHANGED online
       \/ /\ Running(p, "close")
          /\ IF getUsernameBySocket(sock[p].fd) = {} THEN UNCHANGED online
             ELSE \E u \in getUsernameBySocket(sock[p].fd) : online' = Without(online, u)
          /\ hnd' = [hnd EXCEPT ![p].pc = "done"] /\ UNCHANGED sock
    /\ UNCHANGED <<topic, accounts, userFile, chatServer, chat, up, down, files, shown>>

(* cleanupClient: logoutUser(fd) removes one name of the socket, then the socket is closed. *)
cleanupClient(p) ==
    /\ \/ /\ Running(p, "logout") /\ UsersFree
          /\ IF getUsernameBySocket(sock[p].fd) = {} THEN UNCHANGED online
             ELSE \E u \in getUsernameBySocket(sock[p].fd) : online' = Without(online, u)
          /\ hnd' = [hnd EXCEPT ![p].pc = "close"] /\ UNCHANGED sock
       \/ /\ Running(p, "close")
          /\ sock' = [sock EXCEPT ![p].open = FALSE]
          /\ hnd' = [hnd EXCEPT ![p].pc = "done"] /\ UNCHANGED online
    /\ UNCHANGED <<topic, accounts, userFile, chatServer, chat, up, down, files, shown>>

(***************************************************************************)
(* Sending.                                                                 *)
(***************************************************************************)
(* The handler with its first item reduced to the names that are left. *)
Left(h, names) ==
    LET todo == IF names = {} THEN Tail(h.todo) ELSE <<[h.todo[1] EXCEPT !.k = "each", !.names = names]>> \o Tail(h.todo)
    IN  [h EXCEPT !.todo = todo, !.pc = IF todo = <<>> THEN "recv" ELSE "work"]

Sending(h, fd, m) == [h EXCEPT !.pc = "send", !.fd = fd, !.m = m]

(* createTransferSession, once the receiver's socket is known. *)
createTransferSession(p, u, m) ==
    /\ files' = [files EXCEPT !.sessions = @ \cup {[id |-> files.next, accepted |-> FALSE]}, !.next = @ + 1]
    /\ hnd' = [hnd EXCEPT ![p] = Sending(Left(@, {}), online[u], [m EXCEPT !.receiver = files.next])]

(* acceptFileTransfer and rejectFileTransfer: the file follows the accept, the session stays; *)
(* a reject removes session and temporary file.                                                *)
AnswerTransfer(p, u, m) ==
    LET S == {s \in files.sessions : s.id = m.body}
        yes == m.type = "FILE_TRANSFER_ACCEPT"
        data == IF yes THEN <<ToSelf(Message("FILE_DATA", "server", m.sender, m.body))>> ELSE <<>>
    IN  IF S = {}
        THEN hnd' = [hnd EXCEPT ![p] = Left(@, {})] /\ UNCHANGED files
        ELSE /\ files' = [files EXCEPT !.sessions = (@ \ S) \cup {[s EXCEPT !.accepted = TRUE] : s \in {s \in S : yes}}]
             /\ hnd' = [hnd EXCEPT ![p] = Sending([Left(@, {}) EXCEPT !.todo = data \o @], online[u], m)]

(* broadcastMessage takes the list of names, then looks up the socket of each; a name gone is skipped. *)
Resolve(p) ==
    /\ Running(p, "work")
    /\ LET item == Head(hnd[p].todo)
       IN  \/ /\ item.k = "all"
              /\ hnd' = [hnd EXCEPT ![p] = Left(@, DOMAIN online \ {item.but})]
              /\ UNCHANGED files
           \/ /\ item.k = "each"
              /\ \E u \in item.names :
                   CASE u \notin DOMAIN online -> hnd' = [hnd EXCEPT ![p] = Left(@, item.names \ {u})] /\ UNCHANGED files
                     [] u \in DOMAIN online /\ item.m.type = "FILE_TRANSFER_REQUEST" -> createTransferSession(p, u, item.m)
                     [] u \in DOMAIN online /\ item.m.type \in {"FILE_TRANSFER_ACCEPT", "FILE_TRANSFER_REJECT"} ->
                          AnswerTransfer(p, u, item.m)
                     [] OTHER -> /\ hnd' = [hnd EXCEPT ![p] = Sending(Left(@, item.names \ {u}), online[u], item.m)]
                                 /\ UNCHANGED files
    /\ UNCHANGED <<topic, accounts, userFile, online, chatServer, sock, chat, up, down, shown>>

(* sendMessage: whoever has the number now gets it.  After the peer's reset, SIGPIPE ends *)
(* the server, which does not ignore it.  Only what acts on a client is kept.             *)
sendMessage(p) ==
    LET own == Running(p, "work") /\ Head(hnd[p].todo).k = "self"
        fd == IF own THEN sock[p].fd ELSE hnd[p].fd
        m == IF own THEN Head(hnd[p].todo).m ELSE hnd[p].m
    IN  /\ own \/ Running(p, "send")
        /\ hnd' = [hnd EXCEPT ![p] = IF own THEN Left(@, {})
                                     ELSE [@ EXCEPT !.fd = 0, !.m = Nobody, !.pc = IF hnd[p].todo = <<>> THEN "recv" ELSE "work"]]
        /\ \/ HolderOf(fd) = {} /\ UNCHANGED <<down, sock, chatServer>>
           \/ \E q \in HolderOf(fd) :
                CASE sock[q].peer ->
                       /\ down' = IF m.type = "RESPONSE" /\ m.body # "login_ok" THEN down ELSE [down EXCEPT ![q] = Append(@, m)]
                       /\ UNCHANGED <<sock, chatServer>>
                  [] ~sock[q].peer /\ ~sock[q].reset -> sock' = [sock EXCEPT ![q].reset = TRUE] /\ UNCHANGED <<down, chatServer>>
                  [] OTHER -> chatServer' = [chatServer EXCEPT !.state = "killed"] /\ sock' = AllClosed /\ UNCHANGED down
        /\ UNCHANGED <<topic, accounts, userFile, online, chat, up, files, shown>>

(***************************************************************************)
(* The server's life.                                                       *)
(***************************************************************************)
stop ==
    /\ topic = "accounts" /\ chatServer.state = "up"
    /\ chatServer' = [chatServer EXCEPT !.state = "stopping"]
    /\ UNCHANGED <<topic, accounts, userFile, online, sock, hnd, chat, up, down, files, shown>>

(* cleanupThreads has joined every handler; exit() runs ~UserManager, which saves or cannot, *)
(* and ~FileManager.                                                                          *)
cleanupThreads ==
    /\ chatServer.state = "stopping"
    /\ \A p \in Procs : hnd[p].pc \in {"none", "done"}
    /\ chatServer' = [chatServer EXCEPT !.state = "down"]
    /\ userFile' \in UserFilesOf(accounts) \cup {[userFile EXCEPT !.saved = FALSE]}
    /\ files' = [files EXCEPT !.sessions = {}, !.uploads = {}]
    /\ UNCHANGED <<topic, accounts, online, sock, hnd, chat, up, down, shown>>

(* A power failure or a kill: the kernel closes every socket. *)
Crash ==
    /\ topic = "accounts" /\ chatServer.state \in {"up", "stopping"}
    /\ chatServer' = [chatServer EXCEPT !.state = "killed"]
    /\ sock' = AllClosed
    /\ UNCHANGED <<topic, accounts, userFile, online, hnd, chat, up, down, files, shown>>

(* The constructors of a new server load users.dat and files.dat. *)
start ==
    /\ chatServer.state \in {"down", "killed"} /\ chatServer.restarts < MaxRestarts
    /\ chatServer' = [state |-> "up", restarts |-> chatServer.restarts + 1]
    /\ accounts' = userFile.names
    /\ userFile' = [torn |-> FALSE, saved |-> TRUE, names |-> userFile.names]
    /\ online' = <<>>
    /\ hnd' = [p \in Procs |-> IF hnd[p].pc = "none" THEN hnd[p] ELSE [NoHandler EXCEPT !.pc = "done"]]
    /\ up' = [p \in Procs |-> <<>>]
    /\ files' = [files EXCEPT !.sessions = {}]
    /\ UNCHANGED <<topic, sock, chat, down, shown>>

ClientNext ==
    \E p \in Procs :
        \/ connectToServer(p) \/ handleLoginRegister(p) \/ handleChatInput(p) \/ logoutUser(p)
        \/ disconnect(p) \/ run(p) \/ receiveMessages(p) \/ ConnectionLost(p)

HandlerNext(p) ==
    \/ receiveMessage(p) \/ handleClient(p) \/ cleanupClient(p) \/ saveToFile(p)
    \/ uploadGroupFile(p) \/ Resolve(p) \/ sendMessage(p)

ChatNext == ClientNext \/ (\E p \in Procs : HandlerNext(p)) \/ stop \/ cleanupThreads \/ Crash \/ start

ChatSpec == ChatInit /\ [][ChatNext]_chatVars

(***************************************************************************)
(* Properties.                                                              *)
(***************************************************************************)
(* A name is online on a connection whose handler thread still serves it, although numbers *)
(* are used again: cleanupClient forgets the name before it closes the socket.  (A          *)
(* connection that logs in twice keeps a name: logoutUser(fd) removes one.)                  *)
OnlineIsServed ==
    (chatServer.state = "up" /\ \A p \in Procs : sock[p].logins <= 1) =>
        \A u \in DOMAIN online : \E p \in HolderOf(online[u]) : sock[p].logins = 1 /\ hnd[p].pc \notin {"none", "close", "done"}

(* Group messages of one sender appear at every client in the order they were sent, though *)
(* handlers of several senders broadcast at once and a recv() of the server may drop some.   *)
SenderOrder ==
    \A p \in Procs : \A i, j \in DOMAIN shown[p] :
        (i < j /\ shown[p][i][1] = shown[p][j][1]) => shown[p][i][2] <= shown[p][j][2]

(* Between two saves users.dat never knows an account that the server does not, and after a   *)
(* save that succeeded it has every account, so an orderly stop and a crash lose none.  After   *)
(* one that failed, which registerUser does not tell the client, the new account is in memory   *)
(* only.                                                                                        *)
RegisteredIsOnDisk ==
    (chatServer.state \in {"up", "stopping"} /\ ~userFile.torn) =>
        userFile.names \subseteq accounts /\ (userFile.saved => userFile.names = accounts)

(* So what the server knows of its users survives races, drops and restarts. *)
ChatIsConsistent == OnlineIsServed /\ SenderOrder /\ RegisteredIsOnDisk
=============================================================================
