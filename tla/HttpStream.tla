----------------------------- MODULE HttpStream -----------------------------
(***************************************************************************)
(* StdHTTPS: what travels on an HTTP connection.  A message is written by  *)
(* HttpMessage::to_string and read by HttpParser; a stream of writes is    *)
(* chunked by StreamChunkedEncoder and read by ChunkedDecoder.  Between    *)
(* the two, TCP cuts the bytes into reads where it likes.                  *)
(*                                                                         *)
(* A byte is one of a few symbols: CR, LF, body bytes (one of them a hex   *)
(* digit), and one symbol for the text of a start line or of a header.     *)
(***************************************************************************)
EXTENDS Naturals, Sequences, FiniteSets, SequencesExt

CONSTANTS BodyBytes,     \* the symbols a body is made of
          MaxBody,       \* longest body
          MaxMessages,   \* messages on one connection
          ChunkSizes     \* sizes set_chunk_size is called with

VARIABLES mode,          \* "message" or "chunked": which pair is exercised
          sent,          \* the message, or the bytes written so far
          wire,          \* bytes not read yet
          torn,          \* some read ended where a line end, or a chunk, is cut
          reader,        \* the HttpParser, or the ChunkedDecoder
          writer,        \* the StreamChunkedEncoder
          left           \* messages still to come

streamVars == <<mode, sent, wire, torn, reader, writer, left>>

CRLF == <<"CR", "LF">>
Digit == [d \in {"0", "1", "2", "3"} |-> CASE d = "0" -> 0 [] d = "1" -> 1 [] d = "2" -> 2 [] d = "3" -> 3]
to_hex(n) == <<CHOOSE d \in DOMAIN Digit : Digit[d] = n>>

\* find_line_end: where the first CR LF starts, 0 when there is none.
find_line_end(data) ==
    LET at == {i \in 1..Len(data) - 1 : data[i] = "CR" /\ data[i + 1] = "LF"}
    IN  IF at = {} THEN 0 ELSE CHOOSE i \in at : \A j \in at : i <= j

Without(data, n) == SubSeq(data, n + 1, Len(data))

LineOfThisRead(r, data, e) == SubSeq(data, 1, e - 1)

\* The line that ends at e, with what earlier reads left in buffer_; one trailing
\* CR is dropped.
LineUpTo(r, data, e) ==
    LET line == r.buffer \o SubSeq(data, 1, e - 1)
    IN  IF line # <<>> /\ Last(line) = "CR" THEN Front(line) ELSE line

(***************************************************************************)
(* HttpMessage and HttpParser                                              *)
(***************************************************************************)
ContentLength == [h \in {"L0", "L1", "L2", "L3"} |-> CASE h = "L0" -> 0 [] h = "L1" -> 1 [] h = "L2" -> 2 [] h = "L3" -> 3]
Lengths == DOMAIN ContentLength

\* to_string: the start line, the headers, an empty line, the body.
to_string(m) ==
    <<"S">> \o CRLF \o FlattenSeq([i \in DOMAIN m.headers |-> <<m.headers[i]>> \o CRLF]) \o CRLF \o m.body

\* What a caller builds: set_body, the other headers, update_content_length.  A
\* request without a body may carry no length at all.
Messages ==
    {[headers |-> hs \o <<CHOOSE l \in Lengths : ContentLength[l] = Len(b)>>, body |-> b] :
        hs \in {<<>>, <<"H">>}, b \in SeqOf(BodyBytes, MaxBody)}
      \cup {[headers |-> hs, body |-> <<>>] : hs \in {<<>>, <<"H">>}}

NewParser == [state |-> "START_LINE", buffer |-> <<>>, headers |-> <<>>, body |-> <<>>, expected |-> 0]

\* A line is kept as it is.  A header's name ends at its colon, and the number in
\* its value at the first byte that is no digit: what follows does not matter.
get_content_length(p) ==
    LET at == {i \in DOMAIN p.headers : p.headers[i] # <<>> /\ p.headers[i][1] \in Lengths}
    IN  IF at = {} THEN 0 ELSE ContentLength[p.headers[CHOOSE i \in at : \A j \in at : i <= j][1]]

\* A read without a line end goes to buffer_ (size limits are far away here).
Keep(p, data) == [p EXCEPT !.buffer = @ \o data]

\* parse_start_line reads three words and ignores the rest of the line.
parse_start_line_state(p, line) ==
    IF \E i \in DOMAIN line : line[i] = "S" /\ \A j \in 1..i - 1 : line[j] \in {"CR", "LF"}
    THEN [p EXCEPT !.buffer = <<>>, !.state = "HEADER_NAME"]
    ELSE [p EXCEPT !.state = "ERROR"]

\* An empty line ends the headers.  chunked_encoding_ is never set by a header, so
\* the length alone decides what follows.
parse_header_name_state(p, line) ==
    IF line = <<>>
    THEN [p EXCEPT !.buffer = <<>>, !.expected = get_content_length(p),
                   !.state = IF get_content_length(p) > 0 THEN "BODY" ELSE "COMPLETE"]
    ELSE IF \E i \in DOMAIN line : line[i] \in Lengths \cup {"H"}
    THEN [p EXCEPT !.buffer = <<>>, !.headers = Append(@, line)]
    ELSE [p EXCEPT !.state = "ERROR"]

parse_body_state(p, data) ==
    LET n == IF Len(data) < p.expected - Len(p.body) THEN Len(data) ELSE p.expected - Len(p.body)
        b == p.body \o SubSeq(data, 1, n)
    IN  [rest |-> Without(data, n),
         p |-> [p EXCEPT !.body = b, !.state = IF Len(b) >= p.expected THEN "COMPLETE" ELSE "BODY"]]

\* parse: state by state until the read is used up or the message is complete;
\* what is left of the read is dropped with it.
RECURSIVE parse(_, _)
parse(p, data) ==
    IF data = <<>> \/ p.state \in {"COMPLETE", "ERROR"} THEN p
    ELSE IF p.state = "BODY"
    THEN LET r == parse_body_state(p, data) IN parse(r.p, r.rest)
    ELSE LET e == find_line_end(data) IN
         IF e = 0 THEN Keep(p, data)
         ELSE parse(IF p.state = "START_LINE"
                    THEN parse_start_line_state(p, LineUpTo(p, data, e))
                    ELSE parse_header_name_state(p, LineUpTo(p, data, e)),
                    Without(data, e + 1))

(***************************************************************************)
(* StreamChunkedEncoder and ChunkedDecoder                                 *)
(***************************************************************************)
encode_chunk(data) == to_hex(Len(data)) \o CRLF \o data \o CRLF
encode_final_chunk(trailers) == to_hex(0) \o CRLF \o FlattenSeq([i \in DOMAIN trailers |-> <<trailers[i]>> \o CRLF]) \o CRLF

NewEncoder(n) == [buffer |-> <<>>, chunk_size |-> n, finished |-> FALSE]
NewDecoder == [state |-> "CHUNK_SIZE", buffer |-> <<>>, decoded |-> <<>>, size |-> 0, read |-> 0, trailers |-> 0]

\* parse_hex_size, which throws on the empty string and on any other symbol.
IsHex(line) == line # <<>> /\ \A i \in DOMAIN line : line[i] \in DOMAIN Digit
parse_hex_size(line) == FoldLeft(LAMBDA n, c : n * 16 + Digit[c], 0, line)

decode_chunk_size_state(d, line) ==
    IF ~IsHex(line) THEN [d EXCEPT !.state = "ERROR"]
    ELSE [d EXCEPT !.buffer = <<>>, !.size = parse_hex_size(line), !.read = 0,
                   !.state = IF parse_hex_size(line) = 0 THEN "CHUNK_TRAILER" ELSE "CHUNK_DATA"]

\* The bytes of the chunk, and the CR LF after them when it is there: a lone CR is
\* kept for later, nothing at all goes on with the next size, anything else is an
\* error.  The chunk callback, which nobody here sets, is left out.
decode_chunk_data_state(d, data) ==
    LET n == IF Len(data) < d.size - d.read THEN Len(data) ELSE d.size - d.read
        got == [d EXCEPT !.decoded = @ \o SubSeq(data, 1, n), !.read = @ + n]
        more == Without(data, n)
    IN  IF got.read < d.size THEN [d |-> got, rest |-> more]
        ELSE IF more = <<>> THEN [d |-> [got EXCEPT !.state = "CHUNK_SIZE"], rest |-> <<>>]
        ELSE IF Len(more) >= 2 /\ SubSeq(more, 1, 2) = CRLF
        THEN [d |-> [got EXCEPT !.state = "CHUNK_SIZE"], rest |-> Without(more, 2)]
        ELSE IF more = <<"CR">>
        THEN [d |-> [got EXCEPT !.state = "CHUNK_SIZE", !.buffer = <<"CR">>], rest |-> <<>>]
        ELSE [d |-> [got EXCEPT !.state = "ERROR"], rest |-> <<>>]

\* A trailer line with a colon is kept, one without is skipped.
decode_chunk_trailer_state(d, line) ==
    IF line = <<>> THEN [d EXCEPT !.buffer = <<>>, !.state = "COMPLETE"]
    ELSE [d EXCEPT !.buffer = <<>>, !.trailers = IF \E i \in DOMAIN line : line[i] = "H" THEN @ + 1 ELSE @]

RECURSIVE decode(_, _)
decode(d, data) ==
    IF data = <<>> \/ d.state \in {"COMPLETE", "ERROR"} THEN d
    ELSE IF d.state = "CHUNK_DATA"
    THEN LET r == decode_chunk_data_state(d, data) IN decode(r.d, r.rest)
    ELSE LET e == find_line_end(data) IN
         IF e = 0 THEN [d EXCEPT !.buffer = @ \o data]
         ELSE decode(IF d.state = "CHUNK_SIZE"
                     THEN decode_chunk_size_state(d, LineUpTo(d, data, e))
                     ELSE decode_chunk_trailer_state(d, LineUpTo(d, data, e)),
                     Without(data, e + 1))

StreamInit ==
    /\ mode \in {"message", "chunked"}
    /\ sent = <<>>
    /\ wire = <<>>
    /\ torn = FALSE
    /\ writer = NewEncoder(CHOOSE n \in ChunkSizes : \A k \in ChunkSizes : k <= n)
    /\ reader = IF mode = "message" THEN NewParser ELSE NewDecoder
    /\ left = MaxMessages

\* The peer sends its next message once the last one is read; read_request starts
\* with request.reset().
SendMessage ==
    /\ mode = "message" /\ wire = <<>> /\ left > 0
    /\ reader.state = "COMPLETE" \/ sent = <<>>
    /\ \E m \in Messages : sent' = <<m>> /\ wire' = to_string(m)
    /\ reader' = NewParser
    /\ left' = left - 1
    /\ torn' = FALSE
    /\ UNCHANGED <<mode, writer>>

\* write: whole chunks leave as soon as the buffer holds one.
write(b) ==
    /\ mode = "chunked" /\ ~writer.finished /\ Len(sent) < MaxBody
    /\ sent' = Append(sent, b)
    /\ LET w == Append(writer.buffer, b) IN
       IF Len(w) >= writer.chunk_size
       THEN wire' = wire \o encode_chunk(w) /\ writer' = [writer EXCEPT !.buffer = <<>>]
       ELSE writer' = [writer EXCEPT !.buffer = w] /\ UNCHANGED wire
    /\ UNCHANGED <<mode, torn, reader, left>>

flush_buffer == IF writer.buffer = <<>> THEN <<>> ELSE encode_chunk(writer.buffer)

\* set_chunk_size: what is buffered leaves first, as a chunk of its own.
set_chunk_size(n) ==
    /\ mode = "chunked" /\ ~writer.finished /\ n # writer.chunk_size
    /\ wire' = wire \o flush_buffer
    /\ writer' = [writer EXCEPT !.buffer = <<>>, !.chunk_size = n]
    /\ UNCHANGED <<mode, sent, torn, reader, left>>

\* finish, or the destructor.
finish ==
    /\ mode = "chunked" /\ ~writer.finished
    /\ \E trailers \in {<<>>, <<"H">>} : wire' = wire \o flush_buffer \o encode_final_chunk(trailers)
    /\ writer' = [writer EXCEPT !.buffer = <<>>, !.finished = TRUE]
    /\ UNCHANGED <<mode, sent, torn, reader, left>>

\* A read that stops inside a line end, or between a chunk and its line end.
Torn(r, w) ==
    /\ w # <<>>
    /\ \/ Head(w) = "LF" /\ r.state \notin {"BODY", "CHUNK_DATA"}
       \/ mode = "chunked" /\ Head(w) = "CR" /\ r.state = "CHUNK_SIZE" /\ r.read > 0 /\ r.buffer = <<>>

\* One read of n bytes.  The decoder sees no difference between a stream that is
\* still growing and one that is finished, so it starts on a finished one.
Read(n) ==
    /\ n <= Len(wire) /\ mode = "chunked" => writer.finished
    /\ reader' = IF mode = "message" THEN parse(reader, SubSeq(wire, 1, n)) ELSE decode(reader, SubSeq(wire, 1, n))
    /\ wire' = Without(wire, n)
    /\ torn' = (torn \/ Torn(reader', wire'))
    /\ UNCHANGED <<mode, sent, writer, left>>

StreamNext ==
    \/ SendMessage
    \/ \E b \in BodyBytes : write(b)
    \/ \E n \in ChunkSizes : set_chunk_size(n)
    \/ finish
    \/ \E n \in 1..Len(wire) : Read(n)

StreamSpec == StreamInit /\ [][StreamNext]_streamVars

\* Wherever else the reads are cut, as long as none stops inside a line end (or
\* right before the one that ends a chunk), the parser and the decoder give back
\* exactly what was written, and not before all of it has arrived.
ReadAsWritten ==
    ~torn =>
        /\ reader.state # "ERROR"
        /\ mode = "message" /\ sent # <<>> =>
             /\ (reader.state = "COMPLETE") <=> (wire = <<>>)
             /\ wire = <<>> => /\ reader.body = sent[1].body
                               /\ reader.headers = [i \in DOMAIN sent[1].headers |-> <<sent[1].headers[i]>>]
        /\ mode = "chunked" =>
             (reader.state = "COMPLETE") <=> (writer.finished /\ wire = <<>>)

\* However the reads are cut, the chunk decoder never hands out a byte that was not
\* written at that place: it stops with an error, or waits, but never takes a size
\* line for data or data for a size line.
DecodedIsPrefix ==
    mode = "chunked" =>
        /\ IsPrefix(reader.decoded, sent)
        /\ reader.state = "COMPLETE" => reader.decoded = sent

\* So the two pairs of writer and reader are inverse to each other.
FramingIsInverse == ReadAsWritten /\ DecodedIsPrefix
=============================================================================
