--------------------------- MODULE RequestParser ----------------------------
(***************************************************************************)
(* ParsingRequest: how the bytes of a connection, in whatever pieces recv  *)
(* returns them, become requests, one after the other.  feed_data appends  *)
(* each piece to a buffer and carries the parser as far as it goes; when   *)
(* the response is sent, reset keeps what the request has not consumed.    *)
(* The chunk decoder is one for all connections (ChunkDecoder).            *)
(*                                                                         *)
(* A request is a record of what its text says, field by field of the      *)
(* header fields that are checked; see MCRequestParser for examples.       *)
(* While a response is due the connection is watched for EPOLLOUT only,    *)
(* so nothing is received (EventLoop has the exceptions).                  *)
(***************************************************************************)
EXTENDS ChunkDecoder, FiniteSets

CONSTANTS
    Conns,          \* connections
    Kinds,          \* requests that clients send
    MaxRequests,    \* requests a connection carries
    Pipelined,      \* those that they send before the last is answered
    Hangups,        \* clients may leave at any time
    MaxBuffer,      \* MAX_BUFFER_SIZE, in units
    MaxHeader       \* MAX_HEADER_SIZE, in units

ASSUME ParserAssumption ==
    /\ MaxRequests \in Nat /\ MaxBuffer \in Nat /\ MaxHeader \in Nat
    /\ Pipelined \subseteq Kinds /\ Hangups \in BOOLEAN

ASSUME KindsAssumption ==
    \A r \in Kinds : r.cl \in Int /\ r.body \in Nat /\ r.chunks \in Seq(Nat)

VARIABLES
    wire,       \* units sent and not received
    asked,      \* requests sent and not answered, oldest first
    count,      \* requests sent (bounded by MaxRequests)
    open,       \* the connection is open
    left,       \* what the request answered last may have left (history)
    parser,     \* its ParsingRequest
    decoder     \* the static variables of refactor_data

vars == <<wire, asked, count, open, left, parser, decoder>>

NoRequest == <<>>

Clean == [state |-> "line", buffer |-> <<>>, pos |-> 0, line |-> NoRequest,
          head |-> NoRequest, expected |-> 0, last |-> 0, acc |-> <<>>,
          body |-> <<>>, keep |-> TRUE, error |-> 0]

TypeOK ==
    /\ count \in [Conns -> 0..MaxRequests]
    /\ open \in [Conns -> BOOLEAN]
    /\ \A c \in Conns :
          /\ asked[c] \in Seq(Kinds)
          /\ parser[c].state \in {"line", "headers", "body", "complete", "error"}
          /\ parser[c].pos \in 0..Len(parser[c].buffer)
          /\ parser[c].error \in {0, 400, 413, 414, 415, 431, 501}
          /\ parser[c].keep \in BOOLEAN
    /\ decoder.head \in {"none", "chunked", "other"}

Init ==
    /\ wire = [c \in Conns |-> <<>>]
    /\ asked = [c \in Conns |-> <<>>]
    /\ count = [c \in Conns |-> 0]
    /\ open = [c \in Conns |-> TRUE]
    /\ left = [c \in Conns |-> <<>>]
    /\ parser = [c \in Conns |-> Clean]
    /\ decoder = Fresh

-----------------------------------------------------------------------------
(* The checks: 0, or the status a request is refused with. *)

CheckMethod(r) ==
    CASE r.method \in {"GET", "POST", "DELETE"} -> 0
      [] r.method \in {"PUT", "PATCH", "OPTIONS", "TRACE", "CONNECT", "HEAD"} -> 501
      [] OTHER -> 400

CheckURI(r) ==
    CASE r.uri = "ok" -> 0
      [] r.uri = "long" -> 414
      [] OTHER -> 400           \* empty, relative, control characters, ".."

CheckVersion(r) == IF r.version = "HTTP/1.1" THEN 0 ELSE 400

CheckHost(r) == IF r.host = "ok" THEN 0 ELSE 400

CheckConnection(r) == IF r.connection \in {"none", "keep-alive", "close"} THEN 0 ELSE 400

CheckTransferEncoding(r) ==
    CASE r.te \in {"none", "chunked"} -> 0
      [] r.te \in {"gzip", "compress", "deflate", "identity"} -> 501
      [] OTHER -> 400

(* The value of Content-Length if it is an int; or why there is none.       *)
NoLength  == -1
BadLength == -2
CheckContentLength(r) == IF r.cl = BadLength THEN 400 ELSE 0

CheckLocation(r) == IF r.location \in {"none", "ok"} THEN 0 ELSE 400

CheckContentType(r) ==
    CASE r.ctype \in {"none", "ok"} -> 0
      [] r.ctype \in {"charset", "unknown"} -> 415
      [] OTHER -> 400           \* empty, or multipart without a boundary

HasLength(r) == r.cl >= 0

(* The first check that fails, in the order they are made. *)
FirstFailure(s) ==
    LET failing == {i \in 1..Len(s) : s[i] # 0}
    IN IF failing = {} THEN 0 ELSE s[Min(failing)]

CheckLine(r) == FirstFailure(<<CheckMethod(r), CheckURI(r), CheckVersion(r)>>)

CheckHeaders(r) ==
    FirstFailure(<<CheckHost(r), CheckConnection(r), CheckTransferEncoding(r),
                   CheckContentLength(r), CheckLocation(r), CheckContentType(r),
                   IF HasLength(r) /\ r.te # "none" THEN 400 ELSE 0>>)

-----------------------------------------------------------------------------
(* The stages of feed_data, each as the parser it leaves. *)

Fail(P, code) == [P EXCEPT !.state = "error", !.error = code]

ParseStartLine(P) ==
    LET eol  == FindCrlf(P.buffer, P.pos + 1)
        text == SubSeq(P.buffer, P.pos + 1, eol - 1)
        Q    == [P EXCEPT !.pos = eol]
        isLine == Len(text) = 1 /\ text[1][1] = "line"
    IN IF eol = 0 THEN P
       ELSE IF ~isLine THEN Fail(Q, 400)      \* no method reads like that
       ELSE IF CheckLine(text[1][2]) # 0 THEN Fail(Q, CheckLine(text[1][2]))
       ELSE [Q EXCEPT !.state = "headers", !.line = text[1][2]]

ParseHeaders(P) ==
    LET end    == FindBlank(P.buffer, P.pos + 1)
        fields == {i \in (P.pos + 1)..(end - 1) : P.buffer[i] # Crlf}
        Q      == [P EXCEPT !.pos = end + 1]
        r      == P.buffer[Min(fields)][2]
    IN IF end = 0
       THEN IF Len(P.buffer) > MaxHeader
            THEN Fail([P EXCEPT !.buffer = <<>>, !.pos = 0], 431) ELSE P
       ELSE IF fields = {} \/ \E i \in fields : P.buffer[i][1] # "head"
       THEN Fail(Q, 400)                     \* no Host, or a line without a colon
       ELSE IF CheckHeaders(r) # 0 THEN Fail(Q, CheckHeaders(r))
       ELSE [Q EXCEPT !.head = r, !.keep = (r.connection # "close"),
                      !.expected = IF HasLength(r) THEN r.cl ELSE 0,
                      !.state = IF P.line.method = "POST" \/ (HasLength(r) /\ r.cl > 0)
                                THEN "body" ELSE "complete"]

(* Mistakes: the body is taken as soon as some of it is there, or only when *)
(* something follows it.                                                    *)
TakeEarly(P) ==
    LET n == IF Len(P.buffer) - P.pos < P.expected THEN Len(P.buffer) - P.pos ELSE P.expected
    IN [P EXCEPT !.body = SubSeq(P.buffer, P.pos + 1, P.pos + n), !.pos = @ + n,
                 !.state = "complete"]

TakeLate(P) ==
    LET end == P.pos + P.expected
    IN IF Len(P.buffer) <= end THEN P
       ELSE [P EXCEPT !.body = SubSeq(P.buffer, P.pos + 1, end), !.pos = end,
                      !.state = "complete"]

(* A body of Content-Length bytes.  What follows must not look like more of *)
(* it, which it does when it starts with a lower-case letter.               *)
TakeBody(P) ==
    LET end == P.pos + P.expected
        Q   == [P EXCEPT !.body = SubSeq(P.buffer, P.pos + 1, end), !.pos = end]
    IN IF Len(P.buffer) < end THEN P
       ELSE IF Len(P.buffer) > end /\ P.buffer[end + 1][1] = "data" THEN Fail(Q, 400)
       ELSE [Q EXCEPT !.state = "complete"]

(* A chunked body: the decoder is given the buffer from its start on, with  *)
(* the header.                                                              *)
TakeChunks(P, D) ==
    LET res == RefactorData(D, P.acc, After(P.buffer, P.last))
    IN IF res.done
       THEN [P |-> [P EXCEPT !.state = "complete", !.body = res.body, !.acc = <<>>,
                             !.last = 0, !.pos = Len(P.buffer)],
             D |-> res.dec]
       ELSE [P |-> [P EXCEPT !.acc = res.body, !.last = Len(P.buffer)], D |-> res.dec]

ParseBody(P, D) ==
    IF P.line.method # "POST" THEN [P |-> [P EXCEPT !.state = "complete"], D |-> D]
    ELSE IF P.head.te = "chunked" THEN TakeChunks(P, D)
    ELSE IF HasLength(P.head) THEN [P |-> TakeBody(P), D |-> D]
    ELSE [P |-> [P EXCEPT !.state = "complete"], D |-> D]

FeedData(P, D, data) ==
    LET P0 == [P EXCEPT !.buffer = @ \o data]
        P1 == IF P0.state = "line" THEN ParseStartLine(P0) ELSE P0
        P2 == IF P1.state = "headers" THEN ParseHeaders(P1) ELSE P1
    IN IF Len(P0.buffer) > MaxBuffer
       THEN [P |-> Fail([P EXCEPT !.buffer = <<>>, !.pos = 0], 413), D |-> D]
       ELSE IF P2.state = "body" THEN ParseBody(P2, D) ELSE [P |-> P2, D |-> D]

(* Mistakes: what the request has not consumed is dropped with it; what it  *)
(* has consumed is forgotten, and how much that was is not.                 *)
ResetAll(P)   == Clean
ResetStale(P) == [Clean EXCEPT !.buffer = After(P.buffer, P.pos), !.pos = P.pos]

(* reset: what comes after the request stays in the buffer. *)
Reset(P) == [Clean EXCEPT !.buffer = After(P.buffer, P.pos)]

-----------------------------------------------------------------------------
(* Clients. *)

Repeat(u, n) == [i \in 1..n |-> u]

ChunkUnits(c, n, digits) == <<<<"size", n, digits>>, Crlf>> \o Repeat(<<"data", c>>, n) \o <<Crlf>>

BodyUnits(c, r) ==
    IF r.te = "chunked"
    THEN FlattenSeq([i \in 1..Len(r.chunks) |-> ChunkUnits(c, r.chunks[i], r.digits)])
         \o ChunkUnits(c, 0, "lower")
    ELSE Repeat(<<"data", c>>, r.body)

Wire(c, r) == <<<<"line", r>>, Crlf, <<"head", r>>, Crlf, Crlf>> \o BodyUnits(c, r)

(* What the body says, whatever its encoding. *)
Payload(c, r) ==
    IF r.te = "chunked"
    THEN FlattenSeq([i \in 1..Len(r.chunks) |-> Repeat(<<"data", c>>, r.chunks[i])])
    ELSE Repeat(<<"data", c>>, r.body)

Ask(c) ==
    /\ open[c] /\ count[c] < MaxRequests
    /\ \E r \in Kinds :
          /\ asked[c] # <<>> => {r} \cup ToSet(asked[c]) \subseteq Pipelined
          /\ asked' = [asked EXCEPT ![c] = Append(@, r)]
          /\ wire' = [wire EXCEPT ![c] = @ \o Wire(c, r)]
    /\ count' = [count EXCEPT ![c] = @ + 1]
    /\ UNCHANGED <<open, left, parser, decoder>>

-----------------------------------------------------------------------------
(* The event loop, as far as the parser is concerned. *)

Reading(c) == open[c] /\ parser[c].state \in {"line", "headers", "body"}

(* EPOLLIN: recv returns some of what was sent, and feed_data gets it. *)
Receive(c) ==
    /\ Reading(c) /\ wire[c] # <<>>
    /\ \E n \in 1..Len(wire[c]) :
          LET fed == FeedData(parser[c], decoder, SubSeq(wire[c], 1, n)) IN
          /\ wire' = [wire EXCEPT ![c] = After(@, n)]
          /\ parser' = [parser EXCEPT ![c] = fed.P]
          /\ decoder' = fed.D
    /\ UNCHANGED <<asked, count, open, left>>

(* What a request may leave in the stream: the body that only POST takes,   *)
(* the CRLF after the last chunk if it comes late.                          *)
Leaves(c, r) == IF r.method # "POST" THEN BodyUnits(c, r)
                ELSE IF r.te = "chunked" THEN <<Crlf>> ELSE <<>>

(* The response has been sent.  It closes a connection whose request was    *)
(* refused or asked for it; else reset clears the parser and the decoder.   *)
Respond(c) ==
    /\ open[c] /\ ~Reading(c)
    /\ IF parser[c].state = "error" \/ ~parser[c].keep
       THEN /\ open' = [open EXCEPT ![c] = FALSE]
            /\ wire' = [wire EXCEPT ![c] = <<>>]
            /\ asked' = [asked EXCEPT ![c] = <<>>]
            /\ parser' = [parser EXCEPT ![c] = Clean]
            /\ UNCHANGED <<left, decoder>>
       ELSE /\ asked' = [asked EXCEPT ![c] = Tail(@)]
            /\ left' = [left EXCEPT ![c] = Leaves(c, parser[c].head)]
            /\ parser' = [parser EXCEPT ![c] = Reset(@)]
            /\ decoder' = Fresh
            /\ UNCHANGED <<open, wire>>
    /\ UNCHANGED count

(* The client leaves: recv returns 0 and the parser is deleted. *)
Leave(c) ==
    /\ Hangups /\ Reading(c)
    /\ open' = [open EXCEPT ![c] = FALSE]
    /\ wire' = [wire EXCEPT ![c] = <<>>]
    /\ asked' = [asked EXCEPT ![c] = <<>>]
    /\ parser' = [parser EXCEPT ![c] = Clean]
    /\ UNCHANGED <<count, left, decoder>>

Next == \E c \in Conns : Ask(c) \/ Receive(c) \/ Respond(c) \/ Leave(c)

Spec == Init /\ [][Next]_vars

-----------------------------------------------------------------------------
(* What the parser hands on is the oldest request its client has sent and   *)
(* not been answered, line, header fields and body of the same request, and *)
(* the body as the client meant it: however the bytes were cut by recv,     *)
(* whatever was left in the buffer by the request before.  Only POST has a  *)
(* body.                                                                    *)
RequestIntact ==
    \A c \in Conns : parser[c].state = "complete" =>
        /\ asked[c] # <<>>
        /\ LET r == Head(asked[c]) IN
           /\ parser[c].line = r /\ parser[c].head = r
           /\ parser[c].body = IF r.method = "POST" THEN Payload(c, r) ELSE <<>>

Unanswered(c) == FlattenSeq([i \in 1..Len(asked[c]) |-> Wire(c, asked[c][i])])

(* What is taken for a request line begins with what the request before has *)
(* left.                                                                    *)
Leftover(c) ==
    /\ parser[c].error = 400 /\ parser[c].line = NoRequest
    /\ left[c] # <<>> /\ parser[c].buffer[1] = left[c][1]

(* A request is refused for its own faults only: with the status of its     *)
(* first failing check, 431 when its header is too long, or 413 when what   *)
(* the request before it may have left, with what its client has sent since *)
(* and not been answered, is longer than the buffer; and not for the        *)
(* request before it, but for what that may have left behind.               *)
RefusalDeserved ==
    \A c \in Conns : parser[c].state = "error" /\ ~Leftover(c) =>
        IF parser[c].error = 413 THEN Len(left[c] \o Unanswered(c)) > MaxBuffer
        ELSE /\ asked[c] # <<>>
             /\ LET r == Head(asked[c]) IN
                IF parser[c].error = 431 THEN FindBlank(Wire(c, r), 1) > MaxHeader
                ELSE parser[c].error = FirstFailure(<<CheckLine(r), CheckHeaders(r)>>)

(* When everything a client sent was received, the server is not waiting    *)
(* for more with a request unanswered; unless the client pipelined it, and  *)
(* it was in the buffer, whole or in part and behind what the request       *)
(* before has left, when reset put the parser back to its start: nobody     *)
(* then looks at it before more arrives.                                    *)
NothingStuck ==
    \A c \in Conns : Reading(c) /\ wire[c] = <<>> /\ asked[c] # <<>> =>
        /\ parser[c] = [Clean EXCEPT !.buffer = left[c] \o Unanswered(c)]
        /\ ToSet(asked[c]) \subseteq Pipelined

(* parsing_request.cpp:836 logs "Transfer completed! Final body size": the   *)
(* body then is what the client transferred.                                *)
TransferComplete ==
    \A c \in Conns :
        parser[c].state = "complete" /\ parser[c].head.te = "chunked"
            => parser[c].body = Payload(c, parser[c].head)

-----------------------------------------------------------------------------
(* What clients are taken to do where RequestParserProofs says so.          *)

Accepted(r) == CheckLine(r) = 0 /\ CheckHeaders(r) = 0

ChunkedPost(r) == Accepted(r) /\ r.method = "POST" /\ r.te = "chunked"

(* Clients say how long a body is, and spell chunks the way the decoder     *)
(* reads them.                                                              *)
Honest ==
    \A r \in Kinds : Accepted(r) /\ r.method = "POST" =>
        IF r.te = "chunked"
        THEN /\ r.spelled /\ r.digits # "upper"
             /\ \A i \in 1..Len(r.chunks) : r.chunks[i] > 0
        ELSE r.body = IF HasLength(r) THEN r.cl ELSE 0

(* The decoder, which is shared, has one user: bodies are chunked on a      *)
(* single connection only, which waits for the answer to such a request.    *)
OneDecoder ==
    \A r \in Kinds : ChunkedPost(r) =>
        r \notin Pipelined /\ \A c, d \in Conns : c = d
=============================================================================
