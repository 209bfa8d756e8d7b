------------------------------ MODULE AsioHttp ------------------------------
(***************************************************************************)
(* boost_project/asio: the HTTP client library (http_client) calling the   *)
(* file server (http_server).  Both run every handler on one thread of an  *)
(* io_context, so a completion handler is one step; what is interleaved is *)
(* the calls, and how the bytes of a connection arrive.                    *)
(*                                                                         *)
(* A header is one element of a stream, every body byte one more.  A read  *)
(* may take any part of what has arrived.  A TLS host is the same server   *)
(* behind a TLS end point.                                                 *)
(***************************************************************************)
EXTENDS Integers, Sequences, FiniteSets, SequencesExt, Functions

CONSTANTS Calls, Batches,  \* the sets of calls made at the same time
          UrlOf, MethodOf, BodyOf, SocketOf,
          Listening,    \* the <<host, port>> pairs with a server behind them
          Resolvable,   \* host names
          Resource,     \* what a path asks the server for
          ChunkSize, FirstChunk, MaxVirtual,  \* FirstChunk: what fits beside the header
          MaxBreaks

VARIABLES call, wire, session, breaks
asioVars == <<call, wire, session, breaks>>

(***************************************************************************)
(* UrlParser.  A URL is a sequence of words and of the characters : and /. *)
(***************************************************************************)
FirstOf(u, from, chars) ==
  LET at == {i \in from..Len(u) : u[i] \in chars} IN IF at = {} THEN Len(u) + 1 ELSE CHOOSE i \in at : \A j \in at : i <= j
SchemeEnd(u) ==
  LET at == {i \in 1..(Len(u) - 2) : SubSeq(u, i, i + 2) = <<":", "/", "/">>}
  IN IF at = {} THEN 0 ELSE CHOOSE i \in at : \A j \in at : i <= j
HostStart(u) == IF SchemeEnd(u) = 0 THEN 1 ELSE SchemeEnd(u) + 3
ExtractScheme(u) == IF SchemeEnd(u) = 0 THEN <<"http">> ELSE SubSeq(u, 1, SchemeEnd(u) - 1)
ExtractHost(u) == SubSeq(u, HostStart(u), FirstOf(u, HostStart(u), {":", "/"}) - 1)
Digits == {"80", "443", "8080"}
GetDefaultPort(https) == IF https THEN "443" ELSE "80"
ExtractPort(u, https) ==
  LET end == FirstOf(u, HostStart(u), {":", "/"})
  IN IF end + 1 <= Len(u) /\ u[end] = ":" /\ u[end + 1] \in Digits THEN u[end + 1] ELSE GetDefaultPort(https)
ExtractPath(u) ==
  LET from == FirstOf(u, HostStart(u), {"/"}) IN IF from <= Len(u) THEN SubSeq(u, from, Len(u)) ELSE <<"/">>
ParseUrl(u) ==
  LET https == ExtractScheme(u) = <<"https">>
  IN [https |-> https, host |-> ExtractHost(u), port |-> ExtractPort(u, https), path |-> ExtractPath(u)]

(***************************************************************************)
(* The client.                                                             *)
(***************************************************************************)
Bytes(n) == [i \in 1..n |-> i]
\* size bytes of which only the first ones are known to be what they should.
Padded(bytes, size) == [i \in 1..size |-> IF i <= Len(bytes) THEN bytes[i] ELSE 0]
NoAnswer == [status |-> 0, length |-> -1, body |-> <<>>, error |-> "none"]
NewWire == [up |-> <<>>, upEnd |-> FALSE, down |-> <<>>, downEnd |-> FALSE, reset |-> FALSE, cut |-> FALSE]
AsioInit ==
  /\ \E batch \in Batches : call = [c \in Calls |->
       [pc |-> IF c \in batch THEN "idle" ELSE "unused", request |-> ParseUrl(UrlOf[c]), got |-> <<>>, answer |-> NoAnswer]]
  /\ wire = [c \in Calls |-> NewWire]
  /\ session = [c \in Calls |-> [pc |-> "none", received |-> 0, sent |-> 0, what |-> "none", size |-> 0]]
  /\ breaks = 0

At(c, pc) == call[c].pc = pc
Goes(c, pc) == call' = [call EXCEPT ![c].pc = pc]
\* response_callback_ sets the promise; the connection is closed, either by
\* Close or by its destructor when the last handler is gone.
Done(c, answer) ==
  /\ call' = [call EXCEPT ![c].pc = "ready", ![c].answer = answer, ![c].got = <<>>]
  /\ wire' = [wire EXCEPT ![c].upEnd = TRUE]
Failed(c, why) == Done(c, [NoAnswer EXCEPT !.error = why])

\* Get, Post and SendRequest post to the io_context.
SendRequestWithMethod(c) == At(c, "idle") /\ Goes(c, "resolve") /\ UNCHANGED <<wire, session, breaks>>
DoResolveAndConnect(c) ==
  /\ At(c, "resolve")
  /\ IF call[c].request.host \in Resolvable THEN Goes(c, "connect") /\ UNCHANGED wire ELSE Failed(c, "resolve")
  /\ UNCHANGED <<session, breaks>>
\* DoSslHandshake is empty for a plain socket: the connection goes away, and
\* the promise with it.
OnConnect(c) ==
  LET r == call[c].request
  IN /\ At(c, "connect")
     /\ IF <<r.host, r.port>> \notin Listening \/ session[c].pc = "closed" THEN Failed(c, "connect") /\ UNCHANGED session
        ELSE /\ session' = [session EXCEPT ![c].pc = "backlog"]
             /\ IF ~r.https THEN Goes(c, "send") /\ UNCHANGED wire
                ELSE IF SocketOf[c] = "ssl" THEN Goes(c, "handshake") /\ UNCHANGED wire
                ELSE Failed(c, "broken promise")
     /\ UNCHANGED breaks
DoSslHandshake(c) ==
  /\ At(c, "handshake")
  /\ Failed(c, "handshake") \/ (Goes(c, "send") /\ UNCHANGED wire)
  /\ UNCHANGED <<session, breaks>>
BuildRequestHeader(c) == [method |-> MethodOf[c], path |-> call[c].request.path, length |-> BodyOf[c]]
\* The text is a local string: what the socket does not take at once, which is
\* only ever a part of a body, is read from it when it is gone.
SendHttpRequest(c) ==
  /\ At(c, "send")
  /\ IF wire[c].reset \/ (SocketOf[c] = "ssl" /\ ~call[c].request.https) THEN Failed(c, "send")
     ELSE /\ Goes(c, "readHeader")
          /\ \E atOnce \in 0..BodyOf[c] :
               wire' = [wire EXCEPT ![c].up = <<BuildRequestHeader(c)>> \o Padded(Bytes(atOnce), BodyOf[c])]
  /\ UNCHANGED <<session, breaks>>

\* The header, and whatever of the body has come with it.  At the end of the
\* stream there is no header, no status and no error.
OnResponseHeaderRead(c) ==
  LET w == wire[c]
  IN /\ At(c, "readHeader")
     /\ \/ /\ w.down # <<>>
           /\ \E k \in 0..(Len(w.down) - 1) :
                /\ wire' = [wire EXCEPT ![c].down = SubSeq(@, k + 2, Len(@))]
                /\ call' = [call EXCEPT ![c].pc = "body", ![c].got = SubSeq(w.down, 2, k + 1),
                                        ![c].answer = [NoAnswer EXCEPT !.status = Head(w.down).status,
                                                                       !.length = Head(w.down).length]]
        \/ /\ w.down = <<>> /\ w.reset /\ Failed(c, "read header")
        \/ /\ w.down = <<>> /\ w.downEnd /\ ~w.reset
           /\ call' = [call EXCEPT ![c].pc = "body", ![c].answer = NoAnswer]
           /\ UNCHANGED wire
     /\ UNCHANGED <<session, breaks>>

\* async_read is into a buffer of the missing size: what is not filled at the
\* end of the stream stays zero.
\* MUTANT: the bytes that came with the header are read a second time.
readContentAgain(c) ==
  LET w == wire[c]
      a == call[c].answer
      missing == a.length
  IN /\ At(c, "body") /\ a.length >= 0
     /\ \/ Len(w.down) >= missing /\ Done(c, [a EXCEPT !.body = call[c].got \o SubSeq(w.down, 1, missing)])
        \/ /\ Len(w.down) < missing /\ w.reset /\ Done(c, [a EXCEPT !.error = "read body"])
        \/ /\ Len(w.down) < missing /\ w.downEnd /\ ~w.reset
           /\ Done(c, [a EXCEPT !.body = call[c].got \o Padded(w.down, missing)])
     /\ UNCHANGED <<session, breaks>>
readContent(c) ==
  LET w == wire[c]
      a == call[c].answer
      missing == a.length - Len(call[c].got)
  IN /\ At(c, "body") /\ a.length >= 0
     /\ \/ missing <= 0 /\ Done(c, [a EXCEPT !.body = SubSeq(call[c].got, 1, a.length)])
        \/ /\ missing > 0 /\ Len(w.down) >= missing
           /\ Done(c, [a EXCEPT !.body = call[c].got \o SubSeq(w.down, 1, missing)])
        \/ /\ missing > 0 /\ Len(w.down) < missing /\ w.reset
           /\ Done(c, [a EXCEPT !.error = "read body"])
        \/ /\ missing > 0 /\ Len(w.down) < missing /\ w.downEnd /\ ~w.reset
           /\ Done(c, [a EXCEPT !.body = call[c].got \o Padded(w.down, missing)])
     /\ UNCHANGED <<session, breaks>>
\* Without a Content-Length the body is what is read after the header; what
\* came with the header is dropped.
OnResponseBodyRead(c) ==
  LET w == wire[c]
  IN /\ At(c, "body") /\ call[c].answer.length < 0 /\ (w.downEnd \/ w.reset)
     /\ Done(c, [call[c].answer EXCEPT !.body = w.down, !.error = IF w.reset THEN "read body" ELSE "none"])
     /\ UNCHANGED <<session, breaks>>

(***************************************************************************)
(* The server.                                                             *)
(***************************************************************************)
In(c, pc) == session[c].pc = pc
ServerGoes(c, pc) == session' = [session EXCEPT ![c].pc = pc]
\* The session object is destroyed, which closes its socket.
Destroyed(c) == /\ ServerGoes(c, "closed") /\ wire' = [wire EXCEPT ![c].downEnd = TRUE]
\* The process ends, by itself or because an exception has left a handler and with
\* it io_context::run: every connection is closed, and nobody accepts a new one.
ServerEnds ==
  /\ session' = [c \in Calls |-> [session[c] EXCEPT !.pc = "closed"]]
  /\ wire' = [c \in Calls |-> IF session[c].pc \in {"none", "closed"} THEN wire[c]
                              ELSE [wire[c] EXCEPT !.downEnd = TRUE, !.cut = TRUE]]
DoAccept(c) == In(c, "backlog") /\ ServerGoes(c, "header") /\ UNCHANGED <<call, wire, breaks>>
Respond(c, w, status, length, bytes) ==
  [w EXCEPT !.down = Append(@, [status |-> status, length |-> length]) \o bytes]
\* SendResponse writes a line without a Content-Length, shuts down the
\* sending side and waits for the client to close.
\* MUTANT: the connection is left open.
SendResponseKeepsOpen(c, w, status, bytes) ==
  /\ wire' = [wire EXCEPT ![c] = Respond(c, w, status, -1, bytes)]
  /\ ServerGoes(c, "drain")
SendResponse(c, w, status, bytes) ==
  /\ wire' = [wire EXCEPT ![c] = [Respond(c, w, status, -1, bytes) EXCEPT !.downEnd = TRUE]]
  /\ ServerGoes(c, "drain")

\* The header is written from a temporary string, which is safe as long as the
\* socket takes it whole at once: it is the first thing sent on the connection.
StartDownloadRealFile(c, w, file) ==
  IF file.size < 0 THEN SendResponse(c, w, 404, Bytes(1))
  ELSE /\ wire' = [wire EXCEPT ![c] = Respond(c, w, 200, file.size, <<>>)]
       /\ session' = [session EXCEPT ![c] = [@ EXCEPT !.pc = "sending", !.what = "file", !.size = file.size]]
\* The header goes out together with the first bytes.  A file that fits is
\* complete with them, and the session is destroyed.
StartDownloadVirtualFile(c, w, size) ==
  LET first == IF size < FirstChunk THEN size ELSE FirstChunk
  IN IF size > MaxVirtual THEN SendResponse(c, w, 413, <<>>)
     ELSE IF first = size
     THEN /\ wire' = [wire EXCEPT ![c] = [Respond(c, w, 200, size, Bytes(first)) EXCEPT !.downEnd = TRUE]]
          /\ ServerGoes(c, "closed")
     ELSE /\ wire' = [wire EXCEPT ![c] = Respond(c, w, 200, size, Bytes(first))]
          /\ session' = [session EXCEPT ![c] = [@ EXCEPT !.pc = "sending", !.what = "virtual", !.size = size, !.sent = first]]
HandleDownload(c, w, path) ==
  LET asked == Resource[path]
  IN CASE asked.kind = "file" -> StartDownloadRealFile(c, w, asked)
       [] asked.kind = "size" -> StartDownloadVirtualFile(c, w, asked.size)
       [] OTHER -> SendResponse(c, w, 400, <<>>)

\* A POST gets a session of its own, with a buffer of its own: body bytes
\* that came with the header stay in the buffer of the first session.
ReadRequestHeader(c) ==
  LET w == wire[c]
  IN /\ In(c, "header")
     /\ \/ /\ w.up # <<>> /\ ~w.reset
           /\ \E k \in 0..(Len(w.up) - 1) :
                LET r == Head(w.up)
                    rest == [w EXCEPT !.up = SubSeq(@, k + 2, Len(@))]
                IN CASE r.method = "POST" ->
                          /\ wire' = [wire EXCEPT ![c] = rest]
                          /\ session' = [session EXCEPT ![c] = [@ EXCEPT !.pc = "upload", !.size = r.length]]
                     [] r.method = "GET" -> HandleDownload(c, rest, r.path)
                     [] OTHER -> SendResponse(c, rest, 405, <<>>)
        \/ /\ w.reset \/ (w.up = <<>> /\ w.upEnd)
           /\ Destroyed(c)
     /\ UNCHANGED <<call, breaks>>

\* ReadBody: some bytes at a time, until there are as many as announced.
ReadBody(c) ==
  LET w == wire[c]
  IN /\ In(c, "upload")
     /\ \/ /\ w.up # <<>> /\ ~w.reset
           /\ \E k \in 1..Len(w.up) :
                LET rest == [w EXCEPT !.up = SubSeq(@, k + 1, Len(@))]
                IN IF session[c].received + k >= session[c].size
                   THEN SendResponse(c, rest, 200, Bytes(1))
                   ELSE /\ wire' = [wire EXCEPT ![c] = rest]
                        /\ session' = [session EXCEPT ![c].received = @ + k]
        \/ /\ w.reset \/ (w.up = <<>> /\ w.upEnd)
           /\ Destroyed(c)
     /\ UNCHANGED <<call, breaks>>

Part(c, n) == [i \in 1..n |-> session[c].sent + i]
\* SendFileChunk: the end of the file is only noticed by a read that comes up
\* short.  After a write error the shutdown, which throws, fails as well.
SendFileChunk(c) ==
  LET s == session[c]
      n == IF s.size - s.sent < ChunkSize THEN s.size - s.sent ELSE ChunkSize
  IN /\ In(c, "sending") /\ s.what = "file"
     /\ IF wire[c].reset THEN ServerEnds
        ELSE IF n < ChunkSize
        THEN /\ ServerGoes(c, "closed")
             /\ wire' = [wire EXCEPT ![c].down = @ \o Part(c, n), ![c].downEnd = TRUE]
        ELSE /\ session' = [session EXCEPT ![c].sent = @ + n]
             /\ wire' = [wire EXCEPT ![c].down = @ \o Part(c, n)]
     /\ UNCHANGED <<call, breaks>>
SendVirtualData(c) ==
  LET s == session[c]
      n == IF s.size - s.sent < ChunkSize THEN s.size - s.sent ELSE ChunkSize
      last == s.sent + n = s.size
  IN /\ In(c, "sending") /\ s.what = "virtual"
     /\ IF wire[c].reset THEN Destroyed(c)
        ELSE /\ session' = [session EXCEPT ![c].sent = @ + n, ![c].pc = IF last THEN "drain" ELSE @]
             /\ wire' = [wire EXCEPT ![c].down = @ \o Part(c, n), ![c].downEnd = last]
     /\ UNCHANGED <<call, breaks>>
\* GracefulShutdown reads, and drops, until the client has closed.
GracefulShutdown(c) ==
  /\ In(c, "drain") /\ (wire[c].upEnd \/ wire[c].reset)
  /\ Destroyed(c) /\ UNCHANGED <<call, breaks>>

\* The network fails, or the server process ends.
Break(c) ==
  /\ breaks < MaxBreaks /\ breaks' = breaks + 1
  /\ session[c].pc \notin {"none", "closed"} /\ ~wire[c].reset
  /\ \/ /\ wire' = [wire EXCEPT ![c].reset = TRUE, ![c].cut = TRUE] /\ UNCHANGED session
     \/ ServerEnds
  /\ UNCHANGED call

AsioClient(c) == \/ SendRequestWithMethod(c) \/ DoResolveAndConnect(c) \/ OnConnect(c) \/ DoSslHandshake(c)
                 \/ SendHttpRequest(c) \/ OnResponseHeaderRead(c) \/ readContent(c) \/ OnResponseBodyRead(c)
AsioServer(c) == \/ DoAccept(c) \/ ReadRequestHeader(c) \/ ReadBody(c) \/ SendFileChunk(c) \/ SendVirtualData(c)
                 \/ GracefulShutdown(c)
AsioNext == \E c \in Calls : AsioClient(c) \/ AsioServer(c) \/ Break(c)
AsioFairness == \A c \in Calls : WF_asioVars(AsioClient(c)) /\ WF_asioVars(AsioServer(c))
AsioSpec == AsioInit /\ [][AsioNext]_asioVars /\ AsioFairness

(***************************************************************************)
(* Properties.                                                             *)
(***************************************************************************)
\* A response with a Content-Length that the client returns without an error
\* has a body of that length, whatever part of it came with the header.  Where
\* neither this connection failed nor the server ended meanwhile (as a write error
\* of another call's file download makes it) the body is the file the URL names and
\* the status the server's for what was asked; else it may end in zeros.
AnswerIsWhole == \A c \in Calls : call[c].pc = "ready" /\ call[c].answer.error = "none" =>
  LET a == call[c].answer
      asked == Resource[call[c].request.path]
  IN /\ a.length >= 0 => Len(a.body) = a.length
     /\ a.length >= 0 /\ ~wire[c].cut => a.status = 200 /\ a.body = Bytes(asked.size)
     /\ a.length < 0 /\ ~wire[c].cut /\ MethodOf[c] = "GET" =>
          a.status = CASE asked.kind = "file" -> 404 [] asked.kind = "size" -> 413 [] OTHER -> 400

=============================================================================
