----------------------------- MODULE VideoRoom -----------------------------
(***************************************************************************)
(* StdVideoChatRoom: RoomManager under its global lock, used by the one    *)
(* WebSocket thread (WebSocketHandler) and by the HTTPS threads that take  *)
(* uploads, downloads and lists (ChatServer).                              *)
(*                                                                         *)
(* The WebSocket thread runs one handler at a time; what it sends to a     *)
(* connection arrives in order, so the effect of a message on the page is  *)
(* modelled when it is sent.  A page leaves by leave_room followed by the  *)
(* end of the connection.  Enter pressed twice makes it join twice on one  *)
(* connection, and then joinRoom calls leaveRoom, which locks the same     *)
(* mutex: the WebSocket thread is stuck, and so is whoever needs a room.   *)
(***************************************************************************)
EXTENDS Integers, Sequences, FiniteSets, SequencesExt

CONSTANTS VConns,       \* WebSocket connections, one per page
          VRooms, UserIds, \* room names; the numbers 1000..9999
          HttpThreads,  \* workers of the HTTPS server
          Uploads,      \* how many uploads are attempted
          MaxTexts,     \* how many text messages are sent,
          TextsAndFiles,\* and how many in a behaviour with an upload
          HistoryKept,  \* 100 in the code
          HistorySent   \* 20 in the code

VARIABLES rooms,      \* rooms_: room -> users, messages, typingUsers, files
          connRoom,   \* connectionToRoom_
          fileRoom,   \* fileToRoom_
          uploads,    \* the files under uploads/: <<room, file>>
          conn,       \* connection_map_ and what the page has done
          ws,         \* the handler the WebSocket thread is in
          http,       \* the HTTPS threads
          page,       \* what each page has been told
          collided,   \* two users have drawn the same id
          remade,     \* a room has gone while a file was being uploaded to it
          texts, nextFile
videoVars == <<rooms, connRoom, fileRoom, uploads, conn, ws, http, page, collided, remade, texts, nextFile>>

Drop(f, k) == [x \in DOMAIN f \ {k} |-> f[x]]
Put(f, k, v) == [x \in DOMAIN f \cup {k} |-> IF x = k THEN v ELSE f[x]]

Idle == [at |-> "idle", c |-> "none", r |-> "none"]
Resting == [at |-> "rest", r |-> "none", user |-> "none", file |-> 0]
NoPage == [user |-> "none", room |-> "none", others |-> {}, called |-> {}, heard |-> <<>>,
           files |-> {}, signals |-> 0]
RoomInfo == [users |-> <<>>, messages |-> <<>>, typingUsers |-> {}, files |-> {}]

VideoInit ==
  /\ rooms = <<>> /\ connRoom = <<>> /\ fileRoom = <<>> /\ uploads = {}
  /\ conn = [c \in VConns |-> "closed"]
  /\ ws = Idle
  /\ http = [h \in HttpThreads |-> Resting]
  /\ page = [c \in VConns |-> NoPage]
  /\ collided = FALSE /\ remade = FALSE /\ texts = 0 /\ nextFile = 1

(***************************************************************************)
(* RoomManager.                                                            *)
(***************************************************************************)
getRoomUsers(r) == IF r \in DOMAIN rooms THEN rooms[r].users ELSE <<>>
Members(r) == DOMAIN getRoomUsers(r)
findRoomByConnection(c) == IF c \in DOMAIN connRoom THEN connRoom[c] ELSE "none"

\* For a connection that is in no room.
joinRoom(r, user, c) ==
  LET room == IF r \in DOMAIN rooms THEN rooms[r] ELSE RoomInfo
  IN /\ rooms' = Put(rooms, r, [room EXCEPT !.users = Put(@, user, c)])
     /\ connRoom' = Put(connRoom, c, r)

Uploading(r) == \E h \in HttpThreads : http[h].at \in {"save", "add"} /\ http[h].r = r

\* The last user's leaving destroys the room, its entries in fileToRoom_ and
\* its upload directory.
leaveRoom(r, user) ==
  LET left == [rooms[r] EXCEPT !.users = Drop(@, user)]
  IN /\ user \in Members(r)
     /\ connRoom' = Drop(connRoom, rooms[r].users[user])
     /\ IF DOMAIN left.users = {}
        THEN /\ rooms' = Drop(rooms, r)
             /\ fileRoom' = [f \in DOMAIN fileRoom \ left.files |-> fileRoom[f]]
             /\ uploads' = {f \in uploads : f[1] # r}
             /\ remade' = (remade \/ Uploading(r))
        ELSE rooms' = [rooms EXCEPT ![r] = left] /\ UNCHANGED <<fileRoom, uploads, remade>>

addMessage(r, m) ==
  LET all == Append(rooms[r].messages, m)
  IN rooms' = [rooms EXCEPT ![r].messages = IF Len(all) > HistoryKept THEN Tail(all) ELSE all]

getMessages(r, limit) ==
  LET all == rooms[r].messages
  IN SubSeq(all, IF Len(all) > limit THEN Len(all) - limit + 1 ELSE 1, Len(all))

setUserTyping(r, user, typing) ==
  rooms' = [rooms EXCEPT ![r].typingUsers = IF typing THEN @ \cup {user} ELSE @ \ {user}]

addFile(r, f) ==
  /\ rooms' = [rooms EXCEPT ![r].files = @ \cup {f}]
  /\ fileRoom' = Put(fileRoom, f, r)

getFiles(r) == IF r \in DOMAIN rooms THEN rooms[r].files ELSE {}
getFileById(f) == f \in DOMAIN fileRoom /\ f \in getFiles(fileRoom[f])
hasFilePermission(f, c) ==
  c \in DOMAIN connRoom /\ f \in DOMAIN fileRoom /\ connRoom[c] = fileRoom[f]

(***************************************************************************)
(* WebSocketHandler.                                                       *)
(***************************************************************************)
\* told[c] is what the page of c, if it is in the room and not the excepted one,
\* makes of the message; a connection no longer in connection_map_ gets nothing.
broadcastToRoom(r, except, told) ==
  [c \in VConns |-> IF conn[c] = "open" /\ c # except
                       /\ \E u \in Members(r) : rooms[r].users[u] = c
                    THEN told[c] ELSE page[c]]

\* A connection handle is used again only when nothing refers to it.
on_open(c) ==
  /\ ws.at = "idle" /\ conn[c] = "closed" /\ c \notin DOMAIN connRoom
  /\ \E r \in VRooms :
       /\ conn' = [conn EXCEPT ![c] = "open"]
       /\ page' = [page EXCEPT ![c].room = r]
  /\ UNCHANGED <<rooms, connRoom, fileRoom, uploads, ws, http, collided, remade, texts, nextFile>>

handleJoinRoom(c) ==
  /\ ws.at = "idle" /\ conn[c] = "open"
  /\ IF c \in DOMAIN connRoom
     THEN ws' = [Idle EXCEPT !.at = "stuck"] /\ UNCHANGED <<rooms, connRoom, collided, page>>
     ELSE \E user \in UserIds :
            /\ joinRoom(page[c].room, user, c)
            /\ collided' = (collided \/ user \in Members(page[c].room))
            /\ ws' = [at |-> "joined", c |-> c, r |-> page[c].room]
            /\ page' = [page EXCEPT ![c].user = user]
  /\ UNCHANGED <<fileRoom, uploads, conn, http, remade, texts, nextFile>>

\* ROOM_USERS (the page calls everyone listed), then message_history.
SendRoomUsers ==
  /\ ws.at = "joined"
  /\ LET others == Members(ws.r) \ {page[ws.c].user}
     IN page' = [page EXCEPT ![ws.c].others = others, ![ws.c].called = others,
                             ![ws.c].heard = getMessages(ws.r, HistorySent)]
  /\ ws' = [ws EXCEPT !.at = "listed"]
  /\ UNCHANGED <<rooms, connRoom, fileRoom, uploads, conn, http, collided, remade, texts, nextFile>>

\* MUTANT: a user that joins is not sent the list of files.
SendNoFileList ==
  /\ ws.at = "listed"
  /\ ws' = [ws EXCEPT !.at = "announce"]
  /\ UNCHANGED <<rooms, connRoom, fileRoom, uploads, conn, http, page, collided, remade, texts, nextFile>>

SendFileList ==
  /\ ws.at = "listed"
  /\ page' = [page EXCEPT ![ws.c].files = @ \cup getFiles(ws.r)]
  /\ ws' = [ws EXCEPT !.at = "announce"]
  /\ UNCHANGED <<rooms, connRoom, fileRoom, uploads, conn, http, collided, remade, texts, nextFile>>

AnnounceUser ==
  /\ ws.at = "announce"
  /\ LET user == page[ws.c].user
         told == [x \in VConns |-> [page[x] EXCEPT !.others = @ \cup {user}]]
     IN page' = broadcastToRoom(ws.r, ws.c, told)
  /\ ws' = Idle
  /\ UNCHANGED <<rooms, connRoom, fileRoom, uploads, conn, http, collided, remade, texts, nextFile>>

\* leaveRoom() first, then USER_LEFT to those that remain.
handleLeaveRoom(c) ==
  /\ ws.at = "idle" /\ conn[c] = "open" /\ page[c].user # "none"
  /\ conn' = [conn EXCEPT ![c] = "leaving"]
  /\ LET r == page[c].room
         user == page[c].user
         told == [x \in VConns |-> [page[x] EXCEPT !.others = @ \ {user}, !.called = @ \ {user}]]
     IN IF user \in Members(r)
        THEN leaveRoom(r, user) /\ page' = broadcastToRoom(r, c, told)
        ELSE UNCHANGED <<rooms, connRoom, fileRoom, uploads, remade, page>>
  /\ UNCHANGED <<ws, http, collided, texts, nextFile>>

\* The user is looked up by connection; USER_DISCONNECTED precedes leaveRoom().
on_close(c) ==
  /\ ws.at = "idle" /\ conn[c] \in {"open", "leaving"}
  /\ conn' = [conn EXCEPT ![c] = "closed"]
  /\ LET r == findRoomByConnection(c)
         mine == {u \in Members(r) : rooms[r].users[u] = c}
         told == [x \in VConns |-> [page[x] EXCEPT !.others = @ \ mine, !.called = @ \ mine]]
     IN IF mine # {}
        THEN /\ page' = [broadcastToRoom(r, c, told) EXCEPT ![c] = NoPage]
             /\ \E user \in mine : leaveRoom(r, user)
        ELSE /\ page' = [page EXCEPT ![c] = NoPage]
             /\ UNCHANGED <<rooms, connRoom, fileRoom, uploads, remade>>
  /\ UNCHANGED <<ws, http, collided, texts, nextFile>>

\* The sender must be in the room it names, and a user of that id too.
handleTextMessage(c) ==
  /\ ws.at = "idle" /\ conn[c] = "open" /\ page[c].user # "none"
  /\ texts < IF nextFile = 1 THEN MaxTexts ELSE TextsAndFiles
  /\ texts' = texts + 1
  /\ LET r == page[c].room
         m == <<page[c].user, texts>>
         told == [x \in VConns |-> [page[x] EXCEPT !.heard = Append(@, m)]]
     IN IF findRoomByConnection(c) = r /\ page[c].user \in Members(r)
        THEN addMessage(r, m) /\ page' = broadcastToRoom(r, "nobody", told)
        ELSE UNCHANGED <<rooms, page>>
  /\ UNCHANGED <<connRoom, fileRoom, uploads, conn, ws, http, collided, remade, nextFile>>

handleTypingStatus(c) ==
  /\ ws.at = "idle" /\ conn[c] = "open" /\ page[c].user # "none"
  /\ findRoomByConnection(c) = page[c].room /\ page[c].room \in DOMAIN rooms
  /\ \E typing \in BOOLEAN : setUserTyping(page[c].room, page[c].user, typing)
  /\ UNCHANGED <<connRoom, fileRoom, uploads, conn, ws, http, page, collided, remade, texts, nextFile>>

\* An offer, answer or candidate goes to the target if it is in the same room.
handleWebRTCSignaling(c) ==
  /\ ws.at = "idle" /\ conn[c] = "open"
  /\ LET r == findRoomByConnection(c)
     IN \E target \in page[c].called \cap Members(r) :
          LET t == rooms[r].users[target]
          IN /\ conn[t] = "open" /\ page[t].signals = 0
             /\ page' = [page EXCEPT ![t].signals = 1]
  /\ UNCHANGED <<rooms, connRoom, fileRoom, uploads, conn, ws, http, collided, remade, texts, nextFile>>

(***************************************************************************)
(* ChatServer: the HTTPS threads.                                          *)
(***************************************************************************)
\* Whoever holds globalMutex_ gives it back, but for the stuck WebSocket thread.
globalMutex_free == ws.at # "stuck"
validateUserPermission(r, user) == globalMutex_free /\ user \in Members(r)

\* The page posts a file; the room and the user are checked, and the checks
\* on name, size and type passed.
handleFileUpload(h) ==
  /\ http[h].at = "rest" /\ nextFile <= Uploads /\ texts <= TextsAndFiles
  /\ \E c \in VConns :
       /\ conn[c] = "open" /\ page[c].user # "none"
       /\ validateUserPermission(page[c].room, page[c].user)
       /\ http' = [http EXCEPT ![h] = [at |-> "save", r |-> page[c].room,
                                       user |-> page[c].user, file |-> nextFile]]
  /\ nextFile' = nextFile + 1
  /\ UNCHANGED <<rooms, connRoom, fileRoom, uploads, conn, ws, page, collided, remade, texts>>

\* create_directories, open, write, close.
SaveFile(h) ==
  /\ http[h].at = "save"
  /\ \/ /\ uploads' = uploads \cup {<<http[h].r, http[h].file>>}
        /\ http' = [http EXCEPT ![h].at = "add"]
     \/ \* the directory has been removed in between, or the disk is full
        http' = [http EXCEPT ![h] = Resting] /\ UNCHANGED uploads
  /\ UNCHANGED <<rooms, connRoom, fileRoom, conn, ws, page, collided, remade, texts, nextFile>>

AddFile(h) ==
  /\ http[h].at = "add" /\ globalMutex_free
  /\ LET r == http[h].r
         f == http[h].file
     IN IF r \in DOMAIN rooms
        THEN /\ addFile(r, f)
             /\ http' = [http EXCEPT ![h].at = "tell"]
             /\ UNCHANGED uploads
        ELSE /\ uploads' = uploads \ {<<r, f>>}
             /\ http' = [http EXCEPT ![h] = Resting]
             /\ UNCHANGED <<rooms, fileRoom>>
  /\ UNCHANGED <<connRoom, conn, ws, page, collided, remade, texts, nextFile>>

broadcastFileUpload(h) ==
  /\ http[h].at = "tell" /\ globalMutex_free
  /\ LET told == [x \in VConns |-> [page[x] EXCEPT !.files = @ \cup {http[h].file}]]
     IN page' = broadcastToRoom(http[h].r, "nobody", told)
  /\ http' = [http EXCEPT ![h] = Resting]
  /\ UNCHANGED <<rooms, connRoom, fileRoom, uploads, conn, ws, collided, remade, texts, nextFile>>

\* GET /api/files/<room>: the list replaces what the page shows; a file only
\* ever disappears with its room.
handleFileList(c) ==
  /\ conn[c] = "open" /\ page[c].user # "none"
  /\ validateUserPermission(page[c].room, page[c].user)
  /\ page' = [page EXCEPT ![c].files = @ \cup getFiles(page[c].room)]
  /\ UNCHANGED <<rooms, connRoom, fileRoom, uploads, conn, ws, http, collided, remade, texts, nextFile>>

\* GET /api/download/<file> answers 200 exactly when this holds: the permission
\* is asked for only if the request has an X-Connection-Id, and the page's has
\* none.
handleFileDownload(f, c, identified) ==
  /\ getFileById(f) /\ (identified => hasFilePermission(f, c))
  /\ <<fileRoom[f], f>> \in uploads

VideoNext ==
  \/ SendRoomUsers \/ SendFileList \/ AnnounceUser
  \/ \E c \in VConns : \/ on_open(c) \/ handleJoinRoom(c) \/ handleLeaveRoom(c) \/ on_close(c)
                       \/ handleTextMessage(c) \/ handleTypingStatus(c)
                       \/ handleWebRTCSignaling(c) \/ handleFileList(c)
  \/ \E h \in HttpThreads : \/ handleFileUpload(h) \/ SaveFile(h) \/ AddFile(h)
                            \/ broadcastFileUpload(h)

VideoSpec == VideoInit /\ [][VideoNext]_videoVars

(***************************************************************************)
(* Properties.                                                             *)
(***************************************************************************)
Seated(c) == conn[c] = "open" /\ page[c].user # "none"

\* The tables of RoomManager agree at every moment, also when two users draw
\* the same random id: no room is empty, a listed user's connection leads
\* back to its room, and a file is listed by a room exactly when fileToRoom_
\* names that room.
TablesAgree ==
  /\ \A r \in DOMAIN rooms :
       /\ Members(r) # {}
       /\ \A u \in Members(r) : findRoomByConnection(rooms[r].users[u]) = r
       /\ \A f \in rooms[r].files : f \in DOMAIN fileRoom /\ fileRoom[f] = r
  /\ \A f \in DOMAIN fileRoom : f \in getFiles(fileRoom[f])

\* Between two handlers, and while no two users have drawn the same id, all
\* pages of a room have the same picture: each lists exactly the others, of
\* any two exactly one has called the other, and what they have heard are
\* ends of one sequence of messages.
PagesAgree ==
  ws.at = "idle" /\ ~collided =>
    \A c \in VConns : Seated(c) =>
      /\ page[c].others = Members(page[c].room) \ {page[c].user}
      /\ \A d \in VConns \ {c} : Seated(d) /\ page[d].room = page[c].room =>
           /\ (page[c].user \in page[d].called) # (page[d].user \in page[c].called)
           /\ IsSuffix(page[c].heard, page[d].heard) \/ IsSuffix(page[d].heard, page[c].heard)

\* No upload is missed: once the handlers that could still tell it are done,
\* a page has been told of every file of its room, whether it joined before,
\* during or after the upload.  And it can download every file it is listed,
\* whether or not its request says which connection it is,
\* unless its room was destroyed and made again under the upload, which takes
\* the directory away and leaves the list.
FilesReachPages ==
  \A c \in VConns : Seated(c) /\ ~(ws.c = c /\ ws.at \in {"joined", "listed"}) =>
    \A f \in getFiles(page[c].room) :
      /\ \/ f \in page[c].files
         \/ \E h \in HttpThreads : http[h].at = "tell" /\ http[h].file = f
         \/ collided
      /\ (\A identified \in BOOLEAN : handleFileDownload(f, c, identified)) \/ remade \/ collided

\* So the tables of the server and the pages show the same rooms.
PagesShowTheRoom == TablesAgree /\ PagesAgree /\ FilesReachPages
=============================================================================
