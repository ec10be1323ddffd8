-------------------------- MODULE MCRequestParser ---------------------------
(* Instances of RequestParser for TLC. *)
EXTENDS RequestParser
CONSTANTS c1, c2

OneConn  == {c1}
TwoConns == {c1, c2}
\* A request that every check accepts, to be varied.
G == [method |-> "GET", uri |-> "ok", version |-> "HTTP/1.1", host |-> "ok",
          connection |-> "none", te |-> "none", spelled |-> TRUE, digits |-> "lower",
          cl |-> NoLength, location |-> "none", ctype |-> "none", chunks |-> <<>>, body |-> 0]

Post(n)  == [G EXCEPT !.method = "POST", !.cl = n, !.body = n, !.ctype = "ok"]
Chunked(s) == [G EXCEPT !.method = "POST", !.te = "chunked", !.chunks = s]

Closing  == [G EXCEPT !.connection = "close"]
Unknown  == [G EXCEPT !.method = "HEAD"]
Relative == [G EXCEPT !.uri = "relative"]
TooLong  == [G EXCEPT !.uri = "long"]
Old      == [G EXCEPT !.version = "HTTP/1.0"]
NoHost   == [G EXCEPT !.host = "missing"]
Zipped   == [Post(1) EXCEPT !.te = "gzip"]
Both     == [Chunked(<<1>>) EXCEPT !.cl = 1]
BadType  == [Post(1) EXCEPT !.ctype = "unknown"]
NoBoundary == [Post(1) EXCEPT !.ctype = "noboundary"]
NoNumber   == [Post(1) EXCEPT !.cl = BadLength]
BadWhere   == [G EXCEPT !.location = "bad"]
BadWish    == [G EXCEPT !.connection = "upgrade", !.cl = BadLength]

Carrying   == [G EXCEPT !.cl = 2, !.body = 2]
Misled     == [Chunked(<<1>>) EXCEPT !.method = "GET"]
Large      == Post(22)

GoodKinds == {G, Post(0), Post(2), Closing, [G EXCEPT !.method = "DELETE"], Post(9), Large,
              Carrying, Misled}
BadKinds  == {Unknown, Relative, TooLong, Old, NoHost, Zipped, Both, BadType,
              NoBoundary, NoNumber, BadWhere, BadWish}
PlainKinds == GoodKinds \cup BadKinds
AllKinds  == PlainKinds \cup {Chunked(<<2, 1>>), Chunked(<<>>), Chunked(<<3>>),
                              Chunked(<<1, 2, 3>>)}
NoKinds   == {}
TwoChunk  == {Chunked(<<2>>)}

\* The hypotheses of the theorems of RequestParserProofs are met by the requests
\* of the runs; the second is not when two connections send chunked bodies.
ASSUME HonestClients == Honest
ASSUME SingleDecoder == Conns = {c1} => OneDecoder
=============================================================================
