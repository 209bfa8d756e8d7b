----------------------------- MODULE MCSessions -----------------------------
(***************************************************************************)
(* The programs that keep sessions with clients and peers, one of them at  *)
(* a time: the chat room, the video rooms, the FTP server and client, the  *)
(* HTTP message and chunk framing, the AMF's state machine and the PFCP    *)
(* client and receiver.  `member' says which one a behaviour is about.     *)
(***************************************************************************)
EXTENDS Naturals, Sequences, TLC

CONSTANT Names   \* user names of the chat room, which treats them alike
NamesAreAlike == Permutations(Names)

VARIABLES member,
          topic, accounts, userFile, online, chatServer, sock, hnd, chat, up, down, files, shown,
          rooms, connRoom, fileRoom, uploads, conn, ws, http, page, collided, remade, texts, nextFile,
          ftpd, fs, ftpc, toServer, toClient, data,
          mode, sent, wire, torn, reader, writer, left,
          currentState_, activeUeConnections, ueContext, managers, doing, creates,
          smf, g_sessions, requests, responses, duplicated, receiver, ue_sessions

\* Two users; how many commands each types depends on what the behaviour is about.
ChatInputs == [talk |-> [p1 |-> 2, p2 |-> 2], group |-> [p1 |-> 3, p2 |-> 2],
               accounts |-> [p1 |-> 1, p2 |-> 1], files |-> [p1 |-> 2, p2 |-> 2]]
Chat == INSTANCE ChatRoom WITH
          Processes <- <<"p1", "p2">>, Names <- Names, Topics <- {"talk", "group", "accounts", "files"},
          MaxInputs <- ChatInputs, MaxRestarts <- 1
Video == INSTANCE VideoRoom WITH
          VConns <- {"c1", "c2"}, VRooms <- {"r"}, UserIds <- {"1000", "1001"}, HttpThreads <- {"h1"},
          Uploads <- 1, MaxTexts <- 3, TextsAndFiles <- 0, HistoryKept <- 2, HistorySent <- 1

\* One user with every command of the menu and the raw ones, one who only connects.
Typed(ops, at) == {[op |-> o, arg |-> [abs |-> FALSE, at |-> at]] : o \in ops}
FtpOps ==
  [a |-> Typed({"put", "get", "delete", "RNFR", "SIZE", "MDTM", "APPE"}, <<"f">>)
         \cup Typed({"cd", "rmdir", "RNTO"}, <<"d">>) \cup Typed({"mkdir"}, <<"e">>) \cup Typed({"put"}, <<"..">>)
         \cup Typed({"RNTO"}, <<"g">>) \cup Typed({"login"}, <<"u">>)
         \cup Typed({"PORT"}, <<"p">>) \cup Typed({"PORT"}, <<"h1,h2,h3,h4,p1,p2">>)
         \cup Typed({"ls", "close", "pwd", "binary", "CDUP", "NLST", "STAT", "XYZ"}, <<>>),
   b |-> {}]
File == INSTANCE Ftp WITH
          FtpClients <- {"a", "b"}, UserOps <- FtpOps, MaxOps <- [a |-> 3, b |-> 0], FileBuffers <- 2
Stream == INSTANCE HttpStream WITH
          BodyBytes <- {"1", "CR", "LF"}, MaxBody <- 3, MaxMessages <- 2, ChunkSizes <- {1, 2}
Amf == INSTANCE AmfSm WITH Callers <- {"t1"}, MaxActive <- 4
Sessions == INSTANCE Pfcp WITH Smfs <- {"a", "b"}, Fixed <- {"b"}, MaxSessions <- 3

chatVars == <<topic, accounts, userFile, online, chatServer, sock, hnd, chat, up, down, files, shown>>
videoVars == <<rooms, connRoom, fileRoom, uploads, conn, ws, http, page, collided, remade, texts, nextFile>>
ftpVars == <<ftpd, fs, ftpc, toServer, toClient, data>>
streamVars == <<mode, sent, wire, torn, reader, writer, left>>
amfVars == <<currentState_, activeUeConnections, ueContext, managers, doing, creates>>
pfcpVars == <<smf, g_sessions, requests, responses, duplicated, receiver, ue_sessions>>

SessionsInit ==
  /\ member \in {"chat", "video", "ftp", "stream", "amf", "pfcp"}
  /\ Chat!ChatInit /\ (member # "chat" => topic = "talk")
  /\ Video!VideoInit /\ File!FtpInit
  /\ Stream!StreamInit /\ (member # "stream" => mode = "message")
  /\ Amf!AmfInit /\ (member # "amf" => managers)
  /\ Sessions!PfcpInit

SessionsNext ==
  /\ UNCHANGED member
  /\ \/ member = "chat" /\ Chat!ChatNext /\ UNCHANGED <<videoVars, ftpVars, streamVars, amfVars, pfcpVars>>
     \/ member = "video" /\ Video!VideoNext /\ UNCHANGED <<chatVars, ftpVars, streamVars, amfVars, pfcpVars>>
     \/ member = "ftp" /\ File!FtpNext /\ UNCHANGED <<chatVars, videoVars, streamVars, amfVars, pfcpVars>>
     \/ member = "stream" /\ Stream!StreamNext /\ UNCHANGED <<chatVars, videoVars, ftpVars, amfVars, pfcpVars>>
     \/ member = "amf" /\ Amf!AmfNext /\ UNCHANGED <<chatVars, videoVars, ftpVars, streamVars, pfcpVars>>
     \/ member = "pfcp" /\ Sessions!PfcpNext /\ UNCHANGED <<chatVars, videoVars, ftpVars, streamVars, amfVars>>

SessionsSpec ==
  SessionsInit /\ [][SessionsNext]_<<member, chatVars, videoVars, ftpVars, streamVars, amfVars, pfcpVars>>

\* The chat server's online list, its delivery order and users.dat stay true
\* while clients come, go and reuse socket numbers and the server restarts.
ChatIsConsistent == member = "chat" => Chat!ChatIsConsistent
\* RoomManager's tables agree with each other and with what the pages were told.
PagesShowTheRoom == member = "video" => Video!PagesShowTheRoom
\* An FTP transfer reported as successful is whole, and a reply answers the
\* command just sent.
SessionInStep == member = "ftp" => File!SessionInStep
\* HttpParser and ChunkedDecoder give back what HttpRequest::to_string and
\* StreamChunkedEncoder wrote.
FramingIsInverse == member = "stream" => Stream!FramingIsInverse
\* Between calls the AMF's state, UE context and connection count agree.
AmfIsConsistent == member = "amf" => Amf!AmfIsConsistent
\* A session an SMF takes for established is in the PFCP receiver's table, and
\* the repaired client's under its own SEID.
SessionsAgree == member = "pfcp" => Sessions!SessionsAgree
=============================================================================
