------------------------ MODULE RequestParserProofs -------------------------
(***************************************************************************)
(* Proofs that the parser hands on what clients send, for every set of     *)
(* connections and requests, however recv cuts them, and for every limit;  *)
(* and that the loop of refactor_data ends on whatever bytes it is given.  *)
(***************************************************************************)
EXTENDS RequestParser, TLAPS, FiniteSetTheorems, SequenceTheorems, WellFoundedInduction

-----------------------------------------------------------------------------
(* The units there are. *)
Unit ==
    {<<"line", r>> : r \in Kinds} \cup {<<"head", r>> : r \in Kinds}
    \cup {<<"data", c>> : c \in Conns} \cup {Crlf}
    \cup {<<"size", n, s>> : n \in Nat, s \in {r.digits : r \in Kinds} \cup {"lower"}}

(* The units of the requests q of connection c. *)
Sent(c, q) == FlattenSeq([i \in 1..Len(q) |-> Wire(c, q[i])])

(* The chunks of r from the i-th on, and what the first n of them carry.    *)
Listed(c, r) == [i \in 1..Len(r.chunks) |-> ChunkUnits(c, r.chunks[i], r.digits)]
Carried(c, r) == [i \in 1..Len(r.chunks) |-> Repeat(<<"data", c>>, r.chunks[i])]

ChunksFrom(c, r, i) ==
    FlattenSeq(SubSeq(Listed(c, r), i, Len(r.chunks))) \o ChunkUnits(c, 0, "lower")

CarriedBy(c, r, n) == FlattenSeq(SubSeq(Carried(c, r), 1, n))

(* The sizes that the decoder reads. *)
Sizes == Nat \cup {Huge}

(* The decoder in the middle of a body. *)
Decoders == [head : {"chunked"}, buf : Seq(Unit), reading : BOOLEAN, size : Sizes]

(* What carries n bytes, and the CRLF after them. *)
Load(c, n) == Repeat(<<"data", c>>, n) \o <<Crlf>>

(* The i-th chunk of r is next, or its size has been read: x is the         *)
(* decoder, body what it has put out, w what it will be given.              *)
Decoding(c, r, x, body, w) ==
    /\ x.buf \in Seq(Unit)
    /\ \E i \in 1..(Len(r.chunks) + 1) :
          /\ body = CarriedBy(c, r, i - 1)
          /\ IF x.reading THEN x.buf \o w = ChunksFrom(c, r, i)
             ELSE /\ i <= Len(r.chunks) /\ x.size = r.chunks[i]
                  /\ x.buf \o w = Load(c, x.size) \o ChunksFrom(c, r, i + 1)

(* The parser P of connection c, the decoder D, the units w that are sent   *)
(* and not received, what the request before may have left, l, and the      *)
(* requests that are not answered, q, in each state of the parser.          *)

(* Waiting for a request line.  One that is there already is a pipelined    *)
(* request's, and reset has just put it at the start; or it is looked at    *)
(* when the next unit arrives.                                              *)
AtLine(c, P, D, w, l, q) ==
    /\ P = [Clean EXCEPT !.buffer = P.buffer]
    /\ D = Fresh
    /\ \/ /\ P.buffer \o w = l \o Sent(c, q)
          /\ FindCrlf(P.buffer, 1) = 0 \/ ToSet(q) \subseteq Pipelined \/ w # <<>>
       \/ /\ P.buffer \o w = Sent(c, q) /\ l = <<Crlf>>
          /\ FindCrlf(P.buffer, 1) = 0

(* Waiting for the end of the header fields of r. *)
HasLine(P, r) ==
    P = [Clean EXCEPT !.buffer = P.buffer, !.state = "headers", !.pos = 2, !.line = r]

AtHeaders(c, P, D, w, q) ==
    /\ q # <<>> /\ P.buffer \o w = Sent(c, q)
    /\ CheckLine(Head(q)) = 0 /\ HasLine(P, Head(q))
    /\ 2 <= Len(P.buffer) /\ FindBlank(P.buffer, 3) = 0
    /\ D = Fresh

(* Waiting for the rest of the body of r. *)
HasHead(P, r) ==
    P = [Clean EXCEPT !.buffer = P.buffer, !.state = "body", !.pos = 5, !.line = r,
                      !.head = r, !.keep = (r.connection # "close"),
                      !.expected = IF HasLength(r) THEN r.cl ELSE 0,
                      !.last = P.last, !.acc = P.acc]

AtBody(c, P, D, w, q) ==
    /\ q # <<>> /\ P.buffer \o w = Sent(c, q)
    /\ 5 <= Len(P.buffer)
    /\ LET r == Head(q) IN
       /\ Accepted(r) /\ r.method = "POST" /\ HasHead(P, r)
       /\ IF r.te = "chunked"
          THEN /\ q = <<r>> /\ P.last = Len(P.buffer) /\ w # <<>>
               /\ D \in Decoders /\ Decoding(c, r, D, P.acc, w)
          ELSE /\ HasLength(r) /\ Len(P.buffer) < 5 + r.cl
               /\ P.last = 0 /\ P.acc = <<>> /\ D = Fresh

(* A response is due. *)
Complete(c, P, D, w, q) ==
    /\ q # <<>> /\ D = Fresh
    /\ P.pos \in 0..Len(P.buffer)
    /\ LET r == Head(q) IN
       /\ Accepted(r) /\ P.line = r /\ P.head = r /\ P.error = 0
       /\ P.keep = (r.connection # "close")
       /\ P.body = IF r.method = "POST" THEN Payload(c, r) ELSE <<>>
       /\ IF ChunkedPost(r)
          THEN q = <<r>> /\ P.pos = Len(P.buffer) /\ w \in {<<>>, <<Crlf>>}
          ELSE /\ P.buffer \o w = Sent(c, q)
               /\ P.pos = 5 + IF r.method = "POST" THEN r.body ELSE 0

(* A refusal is due. *)
Undeserved(P, l) ==
    P.error = 400 /\ P.line = NoRequest /\ l # <<>> /\ P.buffer[1] = l[1]

Refused(c, P, l, q) ==
    /\ P.pos \in 0..Len(P.buffer) /\ P.keep \in BOOLEAN
    /\ P.error \in {400, 413, 414, 415, 431, 501}
    /\ \/ Undeserved(P, l)
       \/ P.error = 413 /\ Len(l \o Sent(c, q)) > MaxBuffer
       \/ /\ q # <<>>
          /\ \/ P.error = 431 /\ FindBlank(Wire(c, Head(q)), 1) > MaxHeader
             \/ /\ P.error \notin {413, 431}
                /\ P.error = FirstFailure(<<CheckLine(Head(q)), CheckHeaders(Head(q))>>)

Parsing(c, P, D, w, l, q) ==
    \/ P.state = "line" /\ AtLine(c, P, D, w, l, q)
    \/ P.state = "headers" /\ AtHeaders(c, P, D, w, q)
    \/ P.state = "body" /\ AtBody(c, P, D, w, q)
    \/ P.state = "complete" /\ Complete(c, P, D, w, q)
    \/ P.state = "error" /\ Refused(c, P, l, q)

(* The decoder is in the middle of a body only if there are chunked ones. *)
Quiet(D) == D = Fresh \/ (D \in Decoders /\ \E r \in Kinds : ChunkedPost(r))

(* No unit that a request leaves is a request line. *)
Rest(l) == l \in Seq(Unit) /\ (l # <<>> => l[1][1] # "line")

(* Who does not wait for an answer may pipeline all that is unanswered. *)
Alone(q) == Len(q) > 1 => ToSet(q) \subseteq Pipelined

ConnInv(c) ==
    /\ parser[c].buffer \in Seq(Unit) /\ Rest(left[c]) /\ Alone(asked[c])
    /\ IF open[c] THEN Parsing(c, parser[c], decoder, wire[c], left[c], asked[c])
       ELSE wire[c] = <<>> /\ asked[c] = <<>> /\ parser[c] = Clean

IInv ==
    /\ count \in [Conns -> 0..MaxRequests]
    /\ open \in [Conns -> BOOLEAN]
    /\ asked \in [Conns -> Seq(Kinds)]
    /\ wire \in [Conns -> Seq(Unit)]
    /\ left \in [Conns -> Seq(Unit)]
    /\ parser = [c \in Conns |-> parser[c]]
    /\ Quiet(decoder)
    /\ \A c \in Conns : ConnInv(c)

-----------------------------------------------------------------------------
(* Natural numbers: a set of them has a least element, and holds them all   *)
(* if it holds 0 and the successor of each.                                 *)
LEMMA LeastIsIn ==
  ASSUME NEW S \in SUBSET Nat, S # {}
  PROVE  Min(S) \in S /\ \A y \in S : Min(S) <= y
  <1> DEFINE Below == {ss \in Nat \X Nat : ss[1] < ss[2]}
  <1>1. IsWellFoundedOn(Below, Nat)
    BY NatLessThanWellFounded, Zenon DEF OpToRel
  <1>2. \A x, y \in Nat : y < x => <<y, x>> \in Below
    OBVIOUS
  <1> HIDE DEF Below
  <1>3. PICK x \in S : \A y \in S : ~(<<y, x>> \in Below)
    BY <1>1, WFMin
  <1>4. ASSUME NEW y \in S PROVE x <= y
    <2>1. ~(y < x)
      BY <1>2, <1>3
    <2> QED
      BY <2>1
  <1> QED
    BY <1>4 DEF Min

LEMMA AllNaturals ==
  ASSUME NEW S \in SUBSET Nat, 0 \in S, \A n \in S : n + 1 \in S
  PROVE  S = Nat
  <1> DEFINE B == Nat \ S
  <1>1. CASE B = {}
    BY <1>1
  <1>2. CASE B # {}
    <2>1. Min(B) \in B /\ \A y \in B : Min(B) <= y
      BY <1>2, LeastIsIn
    <2>2. Min(B) - 1 \in S
      BY <2>1
    <2> QED
      BY <2>1, <2>2
  <1> QED
    BY <1>1, <1>2

-----------------------------------------------------------------------------
(* FlattenSeq, by its recursive function. *)
JoinedUpTo(s) ==
    CHOOSE f : f = [i \in 1..Len(s) |-> IF i = 1 THEN s[i] ELSE f[i - 1] \o s[i]]

LEMMA PrefixesExist ==
  ASSUME NEW s, Len(s) \in Nat
  PROVE  JoinedUpTo(s) = [i \in 1..Len(s) |->
                           IF i = 1 THEN s[i] ELSE JoinedUpTo(s)[i - 1] \o s[i]]
  <1> DEFINE Upto(n) == \E f : f = [i \in 1..n |-> IF i = 1 THEN s[i] ELSE f[i - 1] \o s[i]]
             H == {n \in Nat : Upto(n)}
  <1>1. 0 \in H
    <2> DEFINE f == [i \in 1..0 |-> i]
    <2>1. f = [i \in 1..0 |-> IF i = 1 THEN s[i] ELSE f[i - 1] \o s[i]]
      OBVIOUS
    <2> QED
      BY <2>1
  <1>2. ASSUME NEW n \in H PROVE n + 1 \in H
    <2>1. PICK f : f = [i \in 1..n |-> IF i = 1 THEN s[i] ELSE f[i - 1] \o s[i]]
      OBVIOUS
    <2> DEFINE last == IF n + 1 = 1 THEN s[n + 1] ELSE f[n] \o s[n + 1]
               g == [i \in 1..(n + 1) |-> IF i = n + 1 THEN last ELSE f[i]]
    <2>2. ASSUME NEW i \in 1..(n + 1)
          PROVE  g[i] = IF i = 1 THEN s[i] ELSE g[i - 1] \o s[i]
      <3>1. CASE i = n + 1
        BY <3>1
      <3>2. CASE i # n + 1
        <4>1. i \in 1..n /\ (i # 1 => i - 1 \in 1..n)
          BY <3>2
        <4>2. f[i] = IF i = 1 THEN s[i] ELSE f[i - 1] \o s[i]
          BY <2>1, <4>1
        <4>3. g[i] = f[i] /\ (i # 1 => g[i - 1] = f[i - 1])
          BY <3>2, <4>1
        <4> QED
          BY <4>2, <4>3
      <3> QED
        BY <3>1, <3>2
    <2>3. g = [i \in 1..(n + 1) |-> IF i = 1 THEN s[i] ELSE g[i - 1] \o s[i]]
      BY <2>2
    <2> HIDE DEF g
    <2>4. Upto(n + 1)
      BY <2>3
    <2> HIDE DEF Upto
    <2> QED
      BY <2>4
  <1> HIDE DEF Upto
  <1>3. H = Nat
    BY <1>1, <1>2, AllNaturals
  <1>4. Upto(Len(s))
    BY <1>3
  <1> QED
    BY <1>4 DEF JoinedUpTo, Upto

LEMMA FlattenIsLast ==
  ASSUME NEW s, Len(s) \in Nat \ {0}
  PROVE  FlattenSeq(s) = JoinedUpTo(s)[Len(s)]
  BY DEF FlattenSeq, JoinedUpTo

LEMMA PrefixStep ==
  ASSUME NEW s, Len(s) \in Nat, NEW f, f = JoinedUpTo(s)
  PROVE  /\ 1 <= Len(s) => f[1] = s[1]
         /\ \A n \in Nat : n # 0 /\ n + 1 <= Len(s) => f[n + 1] = f[n] \o s[n + 1]
  <1> DEFINE k == Len(s)
  <1>1. f = [i \in 1..k |-> IF i = 1 THEN s[i] ELSE f[i - 1] \o s[i]]
    BY PrefixesExist, Zenon
  <1> HIDE DEF k
  <1>2. \A i \in 1..k : f[i] = IF i = 1 THEN s[i] ELSE f[i - 1] \o s[i]
    BY <1>1
  <1>3. k \in Nat
    BY DEF k
  <1>4. 1 <= k => f[1] = s[1]
    BY <1>2, <1>3
  <1>5. ASSUME NEW n \in Nat, n # 0, n + 1 <= k
        PROVE  f[n + 1] = f[n] \o s[n + 1]
    <2>1. n + 1 \in 1..k /\ n + 1 # 1 /\ (n + 1) - 1 = n
      BY <1>5, <1>3
    <2> QED
      BY <1>2, <2>1
  <1> QED
    BY <1>4, <1>5 DEF k

LEMMA PrefixIsSeq ==
  ASSUME NEW S, NEW s \in Seq(Seq(S)), NEW n \in 1..Len(s)
  PROVE  JoinedUpTo(s)[n] \in Seq(S)
  <1> DEFINE f == JoinedUpTo(s)
             H == {i \in Nat : i # 0 /\ i <= Len(s) => f[i] \in Seq(S)}
  <1>1. Len(s) \in Nat /\ \A i \in 1..Len(s) : s[i] \in Seq(S)
    BY LenProperties, ElementOfSeq
  <1>2. /\ 1 <= Len(s) => f[1] = s[1]
        /\ \A i \in Nat : i # 0 /\ i + 1 <= Len(s) => f[i + 1] = f[i] \o s[i + 1]
    BY <1>1, PrefixStep
  <1> HIDE DEF f
  <1>3. 0 \in H
    OBVIOUS
  <1>4. ASSUME NEW i \in H PROVE i + 1 \in H
    <2>1. SUFFICES ASSUME i + 1 <= Len(s) PROVE f[i + 1] \in Seq(S)
      OBVIOUS
    <2>2. CASE i = 0
      BY <1>1, <1>2, <2>1, <2>2
    <2>3. CASE i # 0
      <3>1. f[i] \in Seq(S) /\ s[i + 1] \in Seq(S)
        BY <1>1, <2>1, <2>3
      <3>2. f[i + 1] = f[i] \o s[i + 1]
        BY <1>2, <2>1, <2>3
      <3> QED
        BY <3>1, <3>2, ConcatProperties
    <2> QED
      BY <2>2, <2>3
  <1>5. H = Nat
    BY <1>3, <1>4, AllNaturals
  <1>6. n \in H
    BY <1>5
  <1> QED
    BY <1>6, <1>1 DEF f

(* What FlattenSeq returns, of nothing, of one sequence more at the end,    *)
(* and of the first and the others.                                         *)
LEMMA FlattenIsSeq ==
  ASSUME NEW S, NEW s \in Seq(Seq(S))
  PROVE  FlattenSeq(s) \in Seq(S)
  <1>1. Len(s) \in Nat
    BY LenProperties
  <1>2. CASE Len(s) = 0
    BY <1>2, EmptySeq DEF FlattenSeq
  <1>3. CASE Len(s) # 0
    BY <1>1, <1>3, FlattenIsLast, PrefixIsSeq
  <1> QED
    BY <1>2, <1>3

LEMMA FlattenNone == FlattenSeq(<<>>) = <<>>
  BY DEF FlattenSeq

LEMMA FlattenAppend ==
  ASSUME NEW S, NEW s \in Seq(Seq(S)), NEW x \in Seq(S)
  PROVE  FlattenSeq(Append(s, x)) = FlattenSeq(s) \o x
  <1> DEFINE t == Append(s, x)
             f == JoinedUpTo(s)
             g == JoinedUpTo(t)
             H == {i \in Nat : i # 0 /\ i <= Len(s) => g[i] = f[i]}
  <1>1. /\ Len(s) \in Nat /\ t \in Seq(Seq(S)) /\ Len(t) = Len(s) + 1
        /\ t[Len(s) + 1] = x /\ \A i \in 1..Len(s) : t[i] = s[i]
    BY LenProperties, AppendProperties
  <1> HIDE DEF t
  <1>2. /\ 1 <= Len(s) => f[1] = s[1]
        /\ \A i \in Nat : i # 0 /\ i + 1 <= Len(s) => f[i + 1] = f[i] \o s[i + 1]
    BY <1>1, PrefixStep
  <1>3. /\ 1 <= Len(t) => g[1] = t[1]
        /\ \A i \in Nat : i # 0 /\ i + 1 <= Len(t) => g[i + 1] = g[i] \o t[i + 1]
    <2>1. Len(t) \in Nat
      BY <1>1
    <2> QED
      BY <2>1, PrefixStep, Zenon
  <1>4. FlattenSeq(t) = g[Len(t)] /\ (Len(s) # 0 => FlattenSeq(s) = f[Len(s)])
    BY <1>1, FlattenIsLast
  <1> HIDE DEF f, g
  <1>5. CASE Len(s) = 0
    <2>1. FlattenSeq(t) = x
      BY <1>1, <1>3, <1>4, <1>5
    <2>2. s = <<>> /\ FlattenSeq(s) = <<>>
      BY <1>5, EmptySeq, FlattenNone
    <2> QED
      BY <2>1, <2>2, ConcatEmptySeq DEF t
  <1>6. CASE Len(s) # 0
    <2>1. 0 \in H
      OBVIOUS
    <2>2. ASSUME NEW i \in H PROVE i + 1 \in H
      <3>1. SUFFICES ASSUME i + 1 <= Len(s) PROVE g[i + 1] = f[i + 1]
        OBVIOUS
      <3>2. t[i + 1] = s[i + 1]
        BY <1>1, <3>1
      <3>3. CASE i = 0
        BY <1>1, <1>2, <1>3, <3>1, <3>2, <3>3
      <3>4. CASE i # 0
        <4>1. g[i] = f[i]
          BY <1>1, <3>1, <3>4
        <4>2. f[i + 1] = f[i] \o s[i + 1]
          BY <1>2, <3>1, <3>4
        <4>3. i + 1 <= Len(t)
          BY <1>1, <3>1
        <4>4. g[i + 1] = g[i] \o t[i + 1]
          BY <1>3, <3>4, <4>3
        <4> QED
          BY <3>2, <4>1, <4>2, <4>4
      <3> QED
        BY <3>3, <3>4
    <2>3. H = Nat
      BY <2>1, <2>2, AllNaturals
    <2>4. Len(s) \in H
      BY <1>1, <2>3
    <2>5. g[Len(s) + 1] = g[Len(s)] \o t[Len(s) + 1]
      <3>1. Len(s) + 1 <= Len(t)
        BY <1>1
      <3> QED
        BY <1>1, <1>3, <1>6, <3>1
    <2>6. g[Len(s)] = f[Len(s)]
      BY <1>1, <1>6, <2>4
    <2>7. FlattenSeq(t) = g[Len(s)] \o x
      BY <1>1, <1>4, <2>5
    <2> QED
      BY <1>4, <1>6, <2>6, <2>7 DEF t
  <1> QED
    BY <1>5, <1>6

LEMMA FlattenFirst ==
  ASSUME NEW S, NEW s \in Seq(Seq(S)), s # <<>>
  PROVE  FlattenSeq(s) = Head(s) \o FlattenSeq(Tail(s))
  <1> DEFINE t == Tail(s)
             f == JoinedUpTo(s)
             g == JoinedUpTo(t)
             Fits(i) == f[i + 1] = s[1] \o g[i]
             H == {i \in Nat : i # 0 /\ i <= Len(t) => Fits(i)}
  <1>1. /\ Len(s) \in Nat \ {0} /\ t \in Seq(Seq(S)) /\ Len(t) = Len(s) - 1
        /\ \A i \in 1..Len(t) : t[i] = s[i + 1]
        /\ Head(s) = s[1] /\ s[1] \in Seq(S)
    BY EmptySeq, HeadTailProperties, ElementOfSeq
  <1>2. \A i \in 1..Len(t) : t[i] \in Seq(S) /\ g[i] \in Seq(S)
    BY <1>1, ElementOfSeq, PrefixIsSeq
  <1> HIDE DEF t
  <1>3. /\ 1 <= Len(s) => f[1] = s[1]
        /\ \A i \in Nat : i # 0 /\ i + 1 <= Len(s) => f[i + 1] = f[i] \o s[i + 1]
    BY <1>1, PrefixStep
  <1>4. /\ 1 <= Len(t) => g[1] = t[1]
        /\ \A i \in Nat : i # 0 /\ i + 1 <= Len(t) => g[i + 1] = g[i] \o t[i + 1]
    <2>1. Len(t) \in Nat
      BY <1>1
    <2> QED
      BY <2>1, PrefixStep, Zenon
  <1>5. FlattenSeq(s) = f[Len(s)]
    BY <1>1, FlattenIsLast
  <1>6. Len(t) # 0 => FlattenSeq(t) = g[Len(t)]
    <2>1. Len(t) \in Nat
      BY <1>1
    <2> QED
      BY <2>1, FlattenIsLast
  <1> HIDE DEF f, g
  <1>7. CASE Len(t) = 0
    <2>1. Len(s) = 1
      BY <1>1, <1>7
    <2>2. FlattenSeq(s) = s[1]
      BY <1>3, <1>5, <2>1
    <2>3. FlattenSeq(t) = <<>>
      BY <1>1, <1>7, EmptySeq, FlattenNone
    <2> QED
      BY <1>1, <2>2, <2>3, ConcatEmptySeq DEF t
  <1>8. CASE Len(t) # 0
    <2>1. ASSUME NEW i \in Nat, i # 0 /\ i <= Len(t) => Fits(i), i + 1 <= Len(t)
          PROVE  Fits(i + 1)
      <3> DEFINE j == i + 1
      <3>1. /\ j \in Nat /\ j # 0 /\ j \in 1..Len(t) /\ j + 1 <= Len(s)
            /\ t[j] = s[j + 1] /\ t[j] \in Seq(S)
        BY <1>1, <1>2, <2>1
      <3>2. f[j + 1] = f[j] \o t[j]
        BY <1>3, <3>1
      <3>3. CASE i = 0
        <4>1. j = 1 /\ 1 <= Len(s) /\ 1 <= Len(t)
          BY <1>1, <2>1, <3>3
        <4> QED
          BY <1>3, <1>4, <3>2, <4>1
      <3>4. CASE i # 0
        <4>1. i \in 1..Len(t) /\ i <= Len(t)
          BY <1>1, <2>1, <3>4
        <4>2. f[j] = s[1] \o g[i] /\ g[i] \in Seq(S)
          BY <1>2, <2>1, <3>4, <4>1
        <4>3. g[j] = g[i] \o t[j]
          BY <1>4, <2>1, <3>4
        <4>4. (s[1] \o g[i]) \o t[j] = s[1] \o (g[i] \o t[j])
          <5>1. \A u, v, w \in Seq(S) : (u \o v) \o w = u \o (v \o w)
            BY ConcatAssociative
          <5>2. s[1] \in Seq(S) /\ g[i] \in Seq(S) /\ t[j] \in Seq(S)
            BY <1>1, <3>1, <4>2
          <5> HIDE DEF j
          <5> QED
            BY <5>1, <5>2, Zenon
        <4> QED
          BY <3>2, <4>2, <4>3, <4>4
      <3> QED
        BY <3>3, <3>4
    <2> HIDE DEF Fits
    <2>2. 0 \in H /\ \A i \in H : i + 1 \in H
      BY <2>1
    <2>3. H = Nat
      BY <2>2, AllNaturals
    <2>4. Fits(Len(t)) /\ Len(t) + 1 = Len(s)
      <3>1. Len(t) \in Nat
        BY <1>1
      <3>2. Len(t) \in H
        BY <2>3, <3>1, Zenon
      <3> QED
        BY <1>1, <1>8, <3>1, <3>2
    <2>5. f[Len(s)] = s[1] \o g[Len(t)]
      BY <2>4 DEF Fits
    <2> QED
      BY <1>1, <1>5, <1>6, <1>8, <2>5 DEF t
  <1> QED
    BY <1>7, <1>8

-----------------------------------------------------------------------------
(* What the searches and the checks return. *)
LEMMA FindCrlfIs ==
  ASSUME NEW s, Len(s) \in Nat, NEW i \in Nat \ {0}, NEW k, k = FindCrlf(s, i)
  PROVE  \/ k = 0 /\ \A j \in i..Len(s) : s[j] # Crlf
         \/ k \in i..Len(s) /\ s[k] = Crlf /\ \A j \in i..(k - 1) : s[j] # Crlf
  <1> DEFINE at == {j \in i..Len(s) : s[j] = Crlf}
  <1>1. k = IF at = {} THEN 0 ELSE Min(at)
    BY DEF FindCrlf
  <1>2. at \in SUBSET Nat
    OBVIOUS
  <1>3. CASE at = {}
    BY <1>1, <1>3
  <1>4. CASE at # {}
    <2>1. k \in at /\ \A j \in at : k <= j
      BY <1>1, <1>2, <1>4, LeastIsIn
    <2> QED
      BY <2>1
  <1> QED
    BY <1>3, <1>4

LEMMA FindBlankIs ==
  ASSUME NEW s, Len(s) \in Nat, NEW i \in Nat \ {0}, NEW k, k = FindBlank(s, i)
  PROVE  \/ /\ k = 0
            /\ \A j \in i..(Len(s) - 1) : ~(s[j] = Crlf /\ s[j + 1] = Crlf)
         \/ /\ k \in i..(Len(s) - 1) /\ s[k] = Crlf /\ s[k + 1] = Crlf
            /\ \A j \in i..(k - 1) : ~(s[j] = Crlf /\ s[j + 1] = Crlf)
  <1> DEFINE at == {j \in i..(Len(s) - 1) : s[j] = Crlf /\ s[j + 1] = Crlf}
  <1>1. k = IF at = {} THEN 0 ELSE Min(at)
    BY DEF FindBlank
  <1>2. at \in SUBSET Nat
    OBVIOUS
  <1>3. CASE at = {}
    BY <1>1, <1>3
  <1>4. CASE at # {}
    <2>1. k \in at /\ \A j \in at : k <= j
      BY <1>1, <1>2, <1>4, LeastIsIn
    <2>2. k \in i..(Len(s) - 1) /\ s[k] = Crlf /\ s[k + 1] = Crlf
      BY <2>1
    <2>3. ASSUME NEW j \in i..(k - 1), s[j] = Crlf, s[j + 1] = Crlf PROVE FALSE
      <3>1. j \in i..(Len(s) - 1)
        BY <2>2
      <3>2. j \in at
        BY <2>3, <3>1
      <3> QED
        BY <2>1, <2>2, <3>2
    <2> QED
      BY <2>2, <2>3
  <1> QED
    BY <1>3, <1>4

(* The first failure of a list is 0 or one of it. *)
LEMMA FirstFailureIs ==
  ASSUME NEW s, Len(s) \in Nat
  PROVE  \/ FirstFailure(s) = 0 /\ \A i \in 1..Len(s) : s[i] = 0
         \/ \E i \in 1..Len(s) : /\ FirstFailure(s) = s[i] /\ s[i] # 0
                                 /\ \A j \in 1..(i - 1) : s[j] = 0
  <1> DEFINE failing == {i \in 1..Len(s) : s[i] # 0}
  <1>1. CASE failing = {}
    BY <1>1 DEF FirstFailure
  <1>2. CASE failing # {}
    <2>1. failing \in SUBSET Nat
      OBVIOUS
    <2>2. Min(failing) \in failing /\ \A j \in failing : Min(failing) <= j
      BY <1>2, <2>1, LeastIsIn
    <2>3. FirstFailure(s) = s[Min(failing)]
      BY <1>2 DEF FirstFailure
    <2>4. PICK i \in failing : i = Min(failing)
      BY <2>2
    <2>5. \A j \in 1..(i - 1) : s[j] = 0
      BY <2>2, <2>4
    <2>6. i \in 1..Len(s) /\ s[i] # 0 /\ FirstFailure(s) = s[i]
      BY <2>3, <2>4
    <2> QED
      BY <2>5, <2>6
  <1> QED
    BY <1>1, <1>2

LEMMA FirstOfTwo ==
  ASSUME NEW a, NEW b
  PROVE  FirstFailure(<<a, b>>) = IF a # 0 THEN a ELSE b
  <1>1. Len(<<a, b>>) = 2 /\ <<a, b>>[1] = a /\ <<a, b>>[2] = b
    OBVIOUS
  <1>2. \/ FirstFailure(<<a, b>>) = 0 /\ \A i \in 1..2 : <<a, b>>[i] = 0
        \/ \E i \in 1..2 : /\ FirstFailure(<<a, b>>) = <<a, b>>[i] /\ <<a, b>>[i] # 0
                           /\ \A j \in 1..(i - 1) : <<a, b>>[j] = 0
    BY <1>1, FirstFailureIs
  <1> QED
    BY <1>1, <1>2

LEMMA LineStatus ==
  ASSUME NEW r
  PROVE  CheckLine(r) \in {0, 400, 414, 501}
  <1> DEFINE s == <<CheckMethod(r), CheckURI(r), CheckVersion(r)>>
  <1>1. Len(s) = 3 /\ \A i \in 1..3 : s[i] \in {0, 400, 414, 501}
    BY DEF CheckMethod, CheckURI, CheckVersion
  <1>2. CheckLine(r) = FirstFailure(s)
    BY DEF CheckLine
  <1> HIDE DEF s
  <1> QED
    BY <1>1, <1>2, FirstFailureIs

LEMMA HeadersStatus ==
  ASSUME NEW r
  PROVE  /\ CheckHeaders(r) \in {0, 400, 415, 501}
         /\ CheckHeaders(r) = 0 => /\ r.te \in {"none", "chunked"}
                                   /\ HasLength(r) => r.te = "none"
                                   /\ r.connection \in {"none", "keep-alive", "close"}
  <1> DEFINE s == <<CheckHost(r), CheckConnection(r), CheckTransferEncoding(r),
                    CheckContentLength(r), CheckLocation(r), CheckContentType(r),
                    IF HasLength(r) /\ r.te # "none" THEN 400 ELSE 0>>
  <1>1. Len(s) = 7 /\ \A i \in 1..7 : s[i] \in {0, 400, 415, 501}
    BY DEF CheckHost, CheckConnection, CheckTransferEncoding, CheckContentLength,
           CheckLocation, CheckContentType
  <1>2. s[2] = 0 => r.connection \in {"none", "keep-alive", "close"}
    BY DEF CheckConnection
  <1>3. s[3] = 0 => r.te \in {"none", "chunked"}
    BY DEF CheckTransferEncoding
  <1>4. s[7] = 0 => (HasLength(r) => r.te = "none")
    OBVIOUS
  <1>5. CheckHeaders(r) = FirstFailure(s)
    BY DEF CheckHeaders
  <1> HIDE DEF s
  <1> QED
    BY <1>1, <1>2, <1>3, <1>4, <1>5, FirstFailureIs

-----------------------------------------------------------------------------
(* Units: what tells them apart, and the texts of requests. *)
LEMMA Tags ==
  /\ Crlf[1] = "crlf" /\ Crlf \in Unit
  /\ \A r : <<"line", r>>[1] = "line" /\ <<"line", r>>[2] = r /\ <<"line", r>> # Crlf
  /\ \A r : <<"head", r>>[1] = "head" /\ <<"head", r>>[2] = r /\ <<"head", r>> # Crlf
  /\ \A c : <<"data", c>>[1] = "data" /\ <<"data", c>> # Crlf
  /\ \A n, d : <<"size", n, d>>[1] = "size" /\ <<"size", n, d>>[2] = n
               /\ <<"size", n, d>>[3] = d /\ <<"size", n, d>> # Crlf
  BY DEF Crlf, Unit

LEMMA FunIsSeq ==
  ASSUME NEW S, NEW n \in Nat, NEW f \in [1..n -> S]
  PROVE  f \in Seq(S) /\ Len(f) = n
  OBVIOUS

LEMMA Joined ==
  ASSUME NEW S, NEW a \in Seq(S), NEW b \in Seq(S), NEW t, t = a \o b
  PROVE  /\ t \in Seq(S) /\ Len(t) = Len(a) + Len(b)
         /\ Len(a) \in Nat /\ Len(b) \in Nat
         /\ \A i \in 1..Len(a) : t[i] = a[i]
         /\ \A i \in 1..Len(b) : t[Len(a) + i] = b[i]
  OBVIOUS

LEMMA RepeatIs ==
  ASSUME NEW u \in Unit, NEW n \in Nat
  PROVE  /\ Repeat(u, n) \in Seq(Unit) /\ Len(Repeat(u, n)) = n
         /\ \A i \in 1..n : Repeat(u, n)[i] = u
  BY DEF Repeat

LEMMA ThreeParts ==
  ASSUME NEW S, NEW a \in Seq(S), NEW b \in Seq(S), NEW u \in S,
         NEW t, t = a \o b \o <<u>>
  PROVE  /\ t \in Seq(S) /\ Len(t) = Len(a) + Len(b) + 1
         /\ \A i \in 1..Len(a) : t[i] = a[i]
         /\ \A i \in 1..Len(b) : t[Len(a) + i] = b[i]
         /\ t[Len(a) + Len(b) + 1] = u
  OBVIOUS

LEMMA ChunkUnitsIs ==
  ASSUME NEW c \in Conns, NEW n \in Nat, NEW d,
         d \in {r.digits : r \in Kinds} \cup {"lower"}
  PROVE  /\ ChunkUnits(c, n, d) \in Seq(Unit) /\ Len(ChunkUnits(c, n, d)) = n + 3
         /\ ChunkUnits(c, n, d)[1] = <<"size", n, d>> /\ ChunkUnits(c, n, d)[2] = Crlf
         /\ \A i \in 1..n : ChunkUnits(c, n, d)[2 + i] = <<"data", c>>
         /\ ChunkUnits(c, n, d)[n + 3] = Crlf
  <1> DEFINE a == <<<<"size", n, d>>, Crlf>>
             b == Repeat(<<"data", c>>, n)
  <1>1. <<"data", c>> \in Unit /\ <<"size", n, d>> \in Unit /\ Crlf \in Unit
    BY DEF Unit
  <1>2. a \in Seq(Unit) /\ Len(a) = 2 /\ a[1] = <<"size", n, d>> /\ a[2] = Crlf
    BY <1>1
  <1>3. b \in Seq(Unit) /\ Len(b) = n /\ \A i \in 1..n : b[i] = <<"data", c>>
    BY <1>1, RepeatIs
  <1>4. ChunkUnits(c, n, d) = a \o b \o <<Crlf>>
    BY DEF ChunkUnits
  <1> HIDE DEF a, b
  <1>5. 1 \in 1..Len(a) /\ 2 \in 1..Len(a) /\ Len(a) + Len(b) + 1 = n + 3
    BY <1>2, <1>3
  <1>6. PICK t : t = a \o b \o <<Crlf>>
    OBVIOUS
  <1>7. /\ t \in Seq(Unit) /\ Len(t) = Len(a) + Len(b) + 1
        /\ \A i \in 1..Len(a) : t[i] = a[i]
        /\ \A i \in 1..Len(b) : t[Len(a) + i] = b[i]
        /\ t[Len(a) + Len(b) + 1] = Crlf
    <2>1. a \in Seq(Unit) /\ b \in Seq(Unit)
      BY <1>2, <1>3
    <2> QED
      BY <1>1, <1>6, <2>1, ThreeParts
  <1>8. ChunkUnits(c, n, d) = t
    BY <1>4, <1>6
  <1> QED
    BY <1>2, <1>3, <1>5, <1>7, <1>8

(* The chunks of a body: units each, payload each. *)
LEMMA ListedIsSeq ==
  ASSUME NEW c \in Conns, NEW r \in Kinds
  PROVE  /\ Listed(c, r) \in Seq(Seq(Unit)) /\ Len(Listed(c, r)) = Len(r.chunks)
         /\ Carried(c, r) \in Seq(Seq(Unit)) /\ Len(Carried(c, r)) = Len(r.chunks)
         /\ Len(r.chunks) \in Nat
         /\ \A i \in 1..Len(r.chunks) :
               /\ r.chunks[i] \in Nat
               /\ Listed(c, r)[i] = ChunkUnits(c, r.chunks[i], r.digits)
               /\ Carried(c, r)[i] = Repeat(<<"data", c>>, r.chunks[i])
  <1> DEFINE k == Len(r.chunks)
  <1>1. k \in Nat /\ \A i \in 1..k : r.chunks[i] \in Nat
    BY KindsAssumption, LenProperties, ElementOfSeq
  <1>2. r.digits \in {x.digits : x \in Kinds} \cup {"lower"} /\ <<"data", c>> \in Unit
    BY DEF Unit
  <1>3. \A i \in 1..k : /\ ChunkUnits(c, r.chunks[i], r.digits) \in Seq(Unit)
                        /\ Repeat(<<"data", c>>, r.chunks[i]) \in Seq(Unit)
    BY <1>1, <1>2, ChunkUnitsIs, RepeatIs
  <1>4. /\ Listed(c, r) = [i \in 1..k |-> ChunkUnits(c, r.chunks[i], r.digits)]
        /\ Carried(c, r) = [i \in 1..k |-> Repeat(<<"data", c>>, r.chunks[i])]
    BY DEF Listed, Carried
  <1> HIDE DEF k
  <1>5. Listed(c, r) \in [1..k -> Seq(Unit)] /\ Carried(c, r) \in [1..k -> Seq(Unit)]
    BY <1>3, <1>4
  <1>6. /\ Listed(c, r) \in Seq(Seq(Unit)) /\ Len(Listed(c, r)) = k
        /\ Carried(c, r) \in Seq(Seq(Unit)) /\ Len(Carried(c, r)) = k
    BY <1>1, <1>5, FunIsSeq
  <1>7. \A i \in 1..k : /\ Listed(c, r)[i] = ChunkUnits(c, r.chunks[i], r.digits)
                        /\ Carried(c, r)[i] = Repeat(<<"data", c>>, r.chunks[i])
    BY <1>4
  <1> QED
    BY <1>1, <1>6, <1>7 DEF k

(* No body begins like a request line; a plain one is r.body bytes. *)
LEMMA BodyUnitsIs ==
  ASSUME NEW c \in Conns, NEW r \in Kinds
  PROVE  /\ BodyUnits(c, r) \in Seq(Unit)
         /\ BodyUnits(c, r) # <<>> => BodyUnits(c, r)[1][1] # "line"
         /\ r.te = "chunked" => BodyUnits(c, r) = ChunksFrom(c, r, 1)
         /\ r.te # "chunked" => BodyUnits(c, r) = Repeat(<<"data", c>>, r.body)
  <1>1. CASE r.te # "chunked"
    <2>1. BodyUnits(c, r) = Repeat(<<"data", c>>, r.body)
      BY <1>1 DEF BodyUnits
    <2>2. <<"data", c>> \in Unit /\ r.body \in Nat
      BY KindsAssumption DEF Unit
    <2>3. /\ BodyUnits(c, r) \in Seq(Unit) /\ Len(BodyUnits(c, r)) = r.body
          /\ \A i \in 1..r.body : BodyUnits(c, r)[i] = <<"data", c>>
      BY <2>1, <2>2, RepeatIs
    <2>4. BodyUnits(c, r) # <<>> => BodyUnits(c, r)[1] = <<"data", c>>
      BY <2>2, <2>3, EmptySeq
    <2> QED
      BY <1>1, <2>1, <2>3, <2>4, Tags
  <1>2. CASE r.te = "chunked"
    <2> DEFINE l == Listed(c, r)
               z == ChunkUnits(c, 0, "lower")
    <2>1. /\ l \in Seq(Seq(Unit)) /\ Len(l) = Len(r.chunks) /\ Len(r.chunks) \in Nat
          /\ \A i \in 1..Len(r.chunks) : r.chunks[i] \in Nat
                 /\ l[i] = ChunkUnits(c, r.chunks[i], r.digits)
      BY ListedIsSeq
    <2>2. z \in Seq(Unit) /\ Len(z) = 3 /\ z[1] = <<"size", 0, "lower">>
      <3>1. "lower" \in {x.digits : x \in Kinds} \cup {"lower"} /\ 0 \in Nat /\ 0 + 3 = 3
        OBVIOUS
      <3> QED
        BY <3>1, ChunkUnitsIs
    <2>3. BodyUnits(c, r) = FlattenSeq(l) \o z
      BY <1>2 DEF BodyUnits, Listed
    <2>4. FlattenSeq(l) \in Seq(Unit)
      BY <2>1, FlattenIsSeq
    <2>5. SubSeq(l, 1, Len(r.chunks)) = l
      BY <2>1, SubSeqFull
    <2>6. BodyUnits(c, r) = ChunksFrom(c, r, 1)
      BY <2>3, <2>5 DEF ChunksFrom
    <2> HIDE DEF l, z
    <2>7. BodyUnits(c, r) \in Seq(Unit)
      BY <2>2, <2>3, <2>4, ConcatProperties
    <2>8. CASE l = <<>>
      <3>1. FlattenSeq(l) = <<>>
        BY <2>8, FlattenNone
      <3>2. BodyUnits(c, r) = z
        BY <2>2, <2>3, <3>1, ConcatEmptySeq
      <3> QED
        BY <1>2, <2>2, <2>6, <2>7, <3>2, Tags
    <2>9. CASE l # <<>>
      <3> DEFINE x == ChunkUnits(c, r.chunks[1], r.digits)
      <3>1. l[1] = x /\ r.chunks[1] \in Nat /\ Head(l) = x
        BY <2>1, <2>9, EmptySeq
      <3>2. r.digits \in {k.digits : k \in Kinds} \cup {"lower"}
        OBVIOUS
      <3>3. /\ x \in Seq(Unit) /\ Len(x) = r.chunks[1] + 3
            /\ x[1] = <<"size", r.chunks[1], r.digits>>
        BY <3>1, <3>2, ChunkUnitsIs
      <3> HIDE DEF x
      <3>4. FlattenSeq(l) = x \o FlattenSeq(Tail(l))
        BY <2>1, <2>9, <3>1, FlattenFirst
      <3>5. Tail(l) \in Seq(Seq(Unit))
        BY <2>1, <2>9, HeadTailProperties
      <3>6. FlattenSeq(Tail(l)) \in Seq(Unit)
        BY <3>5, FlattenIsSeq
      <3>7. FlattenSeq(l)[1] = x[1] /\ Len(FlattenSeq(l)) >= 1
        <4> DEFINE y == FlattenSeq(Tail(l))
        <4>1. /\ Len(x \o y) = Len(x) + Len(y) /\ Len(x) \in Nat /\ Len(y) \in Nat
              /\ \A i \in 1..Len(x) + Len(y) :
                     (x \o y)[i] = IF i <= Len(x) THEN x[i] ELSE y[i - Len(x)]
          BY <3>3, <3>6, ConcatProperties, LenProperties
        <4>2. Len(x) >= 1
          BY <3>1, <3>3
        <4> HIDE DEF y
        <4>3. 1 \in 1..Len(x) + Len(y)
          BY <4>1, <4>2
        <4>4. (x \o y)[1] = x[1] /\ Len(x \o y) >= 1
          BY <4>1, <4>2, <4>3
        <4> QED
          BY <3>4, <4>4 DEF y
      <3>8. BodyUnits(c, r)[1] = FlattenSeq(l)[1]
        BY <2>2, <2>3, <2>4, <3>7, ConcatProperties
      <3> QED
        BY <1>2, <2>6, <2>7, <3>3, <3>7, <3>8, Tags
    <2> QED
      BY <2>8, <2>9
  <1> QED
    BY <1>1, <1>2

LEMMA WireIs ==
  ASSUME NEW c \in Conns, NEW r \in Kinds
  PROVE  /\ Wire(c, r) \in Seq(Unit) /\ Len(Wire(c, r)) = 5 + Len(BodyUnits(c, r))
         /\ Wire(c, r)[1] = <<"line", r>> /\ Wire(c, r)[2] = Crlf
         /\ Wire(c, r)[3] = <<"head", r>> /\ Wire(c, r)[4] = Crlf /\ Wire(c, r)[5] = Crlf
         /\ \A i \in 1..Len(BodyUnits(c, r)) : Wire(c, r)[5 + i] = BodyUnits(c, r)[i]
  <1> DEFINE a == <<<<"line", r>>, Crlf, <<"head", r>>, Crlf, Crlf>>
             b == BodyUnits(c, r)
  <1>1. <<"line", r>> \in Unit /\ <<"head", r>> \in Unit /\ Crlf \in Unit
    BY DEF Unit
  <1>2. /\ a \in Seq(Unit) /\ Len(a) = 5 /\ a[1] = <<"line", r>> /\ a[2] = Crlf
        /\ a[3] = <<"head", r>> /\ a[4] = Crlf /\ a[5] = Crlf
    BY <1>1
  <1>3. b \in Seq(Unit) /\ Len(b) \in Nat
    BY BodyUnitsIs, LenProperties
  <1>4. Wire(c, r) = a \o b
    BY DEF Wire
  <1> HIDE DEF a, b
  <1>5. PICK t : t = a \o b
    OBVIOUS
  <1>6. /\ t \in Seq(Unit) /\ Len(t) = Len(a) + Len(b)
        /\ \A i \in 1..Len(a) : t[i] = a[i]
        /\ \A i \in 1..Len(b) : t[Len(a) + i] = b[i]
    <2>1. a \in Seq(Unit) /\ b \in Seq(Unit)
      BY <1>2, <1>3
    <2> QED
      BY <1>5, <2>1, Joined
  <1>7. /\ t \in Seq(Unit) /\ Len(t) = 5 + Len(b)
        /\ \A i \in 1..5 : t[i] = a[i]
        /\ \A i \in 1..Len(b) : t[5 + i] = b[i]
    BY <1>2, <1>6
  <1> QED
    BY <1>2, <1>4, <1>5, <1>7 DEF b

-----------------------------------------------------------------------------
(* The units of several requests. *)
Wires(c, q) == [i \in 1..Len(q) |-> Wire(c, q[i])]

LEMMA WiresIsSeq ==
  ASSUME NEW c \in Conns, NEW q \in Seq(Kinds)
  PROVE  /\ Wires(c, q) \in Seq(Seq(Unit)) /\ Len(Wires(c, q)) = Len(q)
         /\ \A i \in 1..Len(q) : Wires(c, q)[i] = Wire(c, q[i])
  <1>1. Len(q) \in Nat /\ \A i \in 1..Len(q) : q[i] \in Kinds
    BY LenProperties, ElementOfSeq
  <1>2. \A i \in 1..Len(q) : Wire(c, q[i]) \in Seq(Unit)
    BY <1>1, WireIs
  <1>3. Wires(c, q) = [i \in 1..Len(q) |-> Wire(c, q[i])]
    BY DEF Wires
  <1> DEFINE k == Len(q)
  <1>4. k \in Nat /\ Wires(c, q) \in [1..k -> Seq(Unit)]
    BY <1>1, <1>2, <1>3
  <1> HIDE DEF k
  <1>5. Wires(c, q) \in Seq(Seq(Unit)) /\ Len(Wires(c, q)) = k
    BY <1>4, FunIsSeq
  <1> QED
    BY <1>3, <1>5 DEF k

LEMMA WiresAppend ==
  ASSUME NEW c \in Conns, NEW q \in Seq(Kinds), NEW r \in Kinds
  PROVE  Wires(c, Append(q, r)) = Append(Wires(c, q), Wire(c, r))
  <1> DEFINE p == Append(q, r)
             v == Wires(c, q)
             w == Wires(c, p)
             x == Wire(c, r)
  <1>1. /\ p \in Seq(Kinds) /\ Len(p) = Len(q) + 1 /\ p[Len(q) + 1] = r
        /\ Len(q) \in Nat /\ \A i \in 1..Len(q) : p[i] = q[i]
    BY AppendProperties, LenProperties
  <1>2. /\ v \in Seq(Seq(Unit)) /\ Len(v) = Len(q)
        /\ \A i \in 1..Len(q) : v[i] = Wire(c, q[i])
    BY WiresIsSeq
  <1> HIDE DEF p
  <1>3. /\ w \in Seq(Seq(Unit)) /\ Len(w) = Len(p)
        /\ \A i \in 1..Len(p) : w[i] = Wire(c, p[i])
    BY <1>1, WiresIsSeq
  <1>4. x \in Seq(Unit)
    BY WireIs
  <1> HIDE DEF v, w, x
  <1>5. PICK t : t = Append(v, x)
    OBVIOUS
  <1>6. /\ t \in Seq(Seq(Unit)) /\ Len(t) = Len(v) + 1 /\ t[Len(v) + 1] = x
        /\ \A i \in 1..Len(v) : t[i] = v[i]
    <2>1. v \in Seq(Seq(Unit))
      BY <1>2
    <2> QED
      BY <1>4, <1>5, <2>1, AppendProperties
  <1>7. Len(w) = Len(t)
    BY <1>1, <1>2, <1>3, <1>6
  <1>8. ASSUME NEW i \in 1..Len(w) PROVE w[i] = t[i]
    <2>1. CASE i = Len(q) + 1
      BY <1>1, <1>2, <1>3, <1>6, <2>1 DEF x
    <2>2. CASE i # Len(q) + 1
      <3>1. i \in 1..Len(q)
        BY <1>1, <1>3, <2>2
      <3> QED
        BY <1>1, <1>2, <1>3, <1>6, <3>1
    <2> QED
      BY <2>1, <2>2
  <1>9. w = t
    <2>1. w \in Seq(Seq(Unit)) /\ t \in Seq(Seq(Unit))
      BY <1>3, <1>6
    <2> QED
      BY <1>7, <1>8, <2>1, SeqEqual
  <1> QED
    BY <1>5, <1>9 DEF p, v, w, x

LEMMA WiresFirst ==
  ASSUME NEW c \in Conns, NEW q \in Seq(Kinds), q # <<>>
  PROVE  /\ Wires(c, q) # <<>> /\ Head(Wires(c, q)) = Wire(c, Head(q))
         /\ Tail(Wires(c, q)) = Wires(c, Tail(q))
  <1> DEFINE p == Tail(q)
             v == Wires(c, q)
             w == Wires(c, p)
             t == Tail(v)
  <1>1. /\ p \in Seq(Kinds) /\ Len(p) = Len(q) - 1 /\ Len(q) \in Nat \ {0}
        /\ \A i \in 1..Len(p) : p[i] = q[i + 1]
        /\ Head(q) = q[1]
    BY HeadTailProperties, EmptySeq
  <1>2. /\ v \in Seq(Seq(Unit)) /\ Len(v) = Len(q)
        /\ \A i \in 1..Len(q) : v[i] = Wire(c, q[i])
    BY WiresIsSeq
  <1> HIDE DEF p
  <1>3. /\ w \in Seq(Seq(Unit)) /\ Len(w) = Len(p)
        /\ \A i \in 1..Len(p) : w[i] = Wire(c, p[i])
    BY <1>1, WiresIsSeq
  <1> HIDE DEF v, w
  <1>4. v # <<>> /\ Head(v) = v[1]
    BY <1>1, <1>2
  <1>5. /\ t \in Seq(Seq(Unit)) /\ Len(t) = Len(v) - 1
        /\ \A i \in 1..Len(t) : t[i] = v[i + 1]
    <2>1. v \in Seq(Seq(Unit))
      BY <1>2
    <2> QED
      BY <1>4, <2>1, HeadTailProperties
  <1> HIDE DEF t
  <1>6. Len(w) = Len(t)
    BY <1>1, <1>2, <1>3, <1>5
  <1>7. ASSUME NEW i \in 1..Len(w) PROVE w[i] = t[i]
    <2>1. i \in 1..Len(p) /\ i \in 1..Len(t) /\ i + 1 \in 1..Len(q)
      BY <1>1, <1>2, <1>3, <1>5
    <2> QED
      BY <1>1, <1>2, <1>3, <1>5, <2>1
  <1>8. w = t
    <2>1. w \in Seq(Seq(Unit)) /\ t \in Seq(Seq(Unit))
      BY <1>3, <1>5
    <2> QED
      BY <1>6, <1>7, <2>1, SeqEqual
  <1>9. v[1] = Wire(c, q[1])
    BY <1>1, <1>2
  <1> QED
    BY <1>1, <1>4, <1>8, <1>9 DEF p, v, w, t

LEMMA SentIs ==
  ASSUME NEW c \in Conns, NEW q \in Seq(Kinds)
  PROVE  /\ Sent(c, q) \in Seq(Unit)
         /\ q = <<>> => Sent(c, q) = <<>>
         /\ \A r \in Kinds : Sent(c, Append(q, r)) = Sent(c, q) \o Wire(c, r)
         /\ q # <<>> => Sent(c, q) = Wire(c, Head(q)) \o Sent(c, Tail(q))
  <1>1. \A p : Sent(c, p) = FlattenSeq(Wires(c, p))
    BY DEF Sent, Wires
  <1>2. Wires(c, q) \in Seq(Seq(Unit)) /\ Len(Wires(c, q)) = Len(q)
    BY WiresIsSeq
  <1>3. Sent(c, q) \in Seq(Unit)
    BY <1>1, <1>2, FlattenIsSeq
  <1>4. q = <<>> => Sent(c, q) = <<>>
    BY <1>1, <1>2, EmptySeq, FlattenNone
  <1>5. ASSUME NEW r \in Kinds PROVE Sent(c, Append(q, r)) = Sent(c, q) \o Wire(c, r)
    <2>1. Wire(c, r) \in Seq(Unit)
      BY WireIs
    <2>2. Wires(c, Append(q, r)) = Append(Wires(c, q), Wire(c, r))
      BY WiresAppend
    <2>3. FlattenSeq(Append(Wires(c, q), Wire(c, r))) = FlattenSeq(Wires(c, q)) \o Wire(c, r)
      BY <1>2, <2>1, FlattenAppend
    <2> QED
      BY <1>1, <2>2, <2>3
  <1>6. ASSUME q # <<>> PROVE Sent(c, q) = Wire(c, Head(q)) \o Sent(c, Tail(q))
    <2>1. /\ Wires(c, q) # <<>> /\ Head(Wires(c, q)) = Wire(c, Head(q))
          /\ Tail(Wires(c, q)) = Wires(c, Tail(q))
      BY <1>6, WiresFirst
    <2>2. FlattenSeq(Wires(c, q)) = Head(Wires(c, q)) \o FlattenSeq(Tail(Wires(c, q)))
      BY <1>2, <2>1, FlattenFirst
    <2> QED
      BY <1>1, <2>1, <2>2
  <1> QED
    BY <1>3, <1>4, <1>5, <1>6

-----------------------------------------------------------------------------
(* Cutting a sequence and putting it together again. *)
LEMMA AfterIs ==
  ASSUME NEW S, NEW s \in Seq(S), NEW n \in 0..Len(s), NEW t, t = After(s, n)
  PROVE  /\ t \in Seq(S) /\ Len(t) = Len(s) - n /\ Len(t) \in Nat
         /\ \A i \in 1..Len(t) : t[i] = s[n + i]
  <1>1. Len(s) \in Nat /\ \A i \in 1..Len(s) : s[i] \in S
    BY LenProperties, ElementOfSeq
  <1>2. t = SubSeq(s, n + 1, Len(s))
    BY DEF After
  <1>3. n + 1 \in Int /\ Len(s) \in Int /\ \A i \in (n + 1)..Len(s) : s[i] \in S
    BY <1>1
  <1>4. /\ t \in Seq(S) /\ Len(t) = IF n + 1 <= Len(s) THEN Len(s) - (n + 1) + 1 ELSE 0
        /\ \A i \in 1..(Len(s) - (n + 1) + 1) : t[i] = s[n + 1 + i - 1]
    BY <1>2, <1>3, SubSeqProperties
  <1>5. Len(t) = Len(s) - n
    BY <1>1, <1>4
  <1>6. ASSUME NEW i \in 1..Len(t) PROVE t[i] = s[n + i]
    <2>1. i \in 1..(Len(s) - (n + 1) + 1) /\ n + 1 + i - 1 = n + i
      BY <1>1, <1>5
    <2> QED
      BY <1>4, <2>1
  <1> QED
    BY <1>1, <1>4, <1>5, <1>6

LEMMA UptoIs ==
  ASSUME NEW S, NEW s \in Seq(S), NEW n \in 0..Len(s), NEW t, t = SubSeq(s, 1, n)
  PROVE  /\ t \in Seq(S) /\ Len(t) = n
         /\ \A i \in 1..n : t[i] = s[i]
  <1>1. Len(s) \in Nat /\ \A i \in 1..Len(s) : s[i] \in S
    BY LenProperties, ElementOfSeq
  <1>2. n \in Int /\ \A i \in 1..n : s[i] \in S
    BY <1>1
  <1>3. /\ t \in Seq(S) /\ Len(t) = IF 1 <= n THEN n - 1 + 1 ELSE 0
        /\ \A i \in 1..(n - 1 + 1) : t[i] = s[1 + i - 1]
    BY <1>2, SubSeqProperties
  <1>4. ASSUME NEW i \in 1..n PROVE t[i] = s[i]
    <2>1. i \in 1..(n - 1 + 1) /\ 1 + i - 1 = i
      OBVIOUS
    <2> QED
      BY <1>3, <2>1
  <1> QED
    BY <1>3, <1>4

LEMMA CutJoin ==
  ASSUME NEW S, NEW s \in Seq(S), NEW n \in 0..Len(s)
  PROVE  SubSeq(s, 1, n) \o After(s, n) = s
  <1>1. PICK a : a = SubSeq(s, 1, n)
    OBVIOUS
  <1>2. PICK b : b = After(s, n)
    OBVIOUS
  <1>3. a \in Seq(S) /\ Len(a) = n /\ \A i \in 1..n : a[i] = s[i]
    BY <1>1, UptoIs
  <1>4. b \in Seq(S) /\ Len(b) = Len(s) - n /\ \A i \in 1..Len(b) : b[i] = s[n + i]
    BY <1>2, AfterIs
  <1>5. PICK t : t = a \o b
    OBVIOUS
  <1>6. /\ t \in Seq(S) /\ Len(t) = Len(a) + Len(b)
        /\ \A i \in 1..Len(a) : t[i] = a[i]
        /\ \A i \in 1..Len(b) : t[Len(a) + i] = b[i]
    BY <1>3, <1>4, <1>5, Joined
  <1>7. Len(s) \in Nat /\ Len(t) = Len(s)
    BY <1>3, <1>4, <1>6
  <1>8. ASSUME NEW i \in 1..Len(s) PROVE t[i] = s[i]
    <2>1. CASE i <= n
      BY <1>3, <1>6, <1>7, <2>1
    <2>2. CASE ~(i <= n)
      <3>1. i - n \in 1..Len(b) /\ n + (i - n) = i
        BY <1>4, <1>7, <2>2
      <3>2. b[i - n] = s[i] /\ t[i] = b[i - n]
        BY <1>3, <1>4, <1>6, <3>1
      <3> QED
        BY <3>2
    <2> QED
      BY <2>1, <2>2
  <1>9. t = s
    BY <1>6, <1>7, <1>8, SeqEqual
  <1> QED
    BY <1>1, <1>2, <1>5, <1>9

IsText(s) == s \in Seq(Unit)

LEMMA AfterJoined ==
  ASSUME NEW a, NEW b, IsText(a), IsText(b), NEW n \in 0..Len(a)
  PROVE  After(a, n) \o b = After(a \o b, n)
  <1> DEFINE S == Unit
  <1>0. a \in Seq(S) /\ b \in Seq(S)
    BY DEF IsText
  <1> HIDE DEF S
  <1>1. PICK t : t = a \o b
    OBVIOUS
  <1>2. /\ t \in Seq(S) /\ Len(t) = Len(a) + Len(b) /\ Len(a) \in Nat /\ Len(b) \in Nat
        /\ \A i \in 1..Len(a) : t[i] = a[i]
        /\ \A i \in 1..Len(b) : t[Len(a) + i] = b[i]
    BY <1>0, <1>1, Joined
  <1>3. n \in 0..Len(t) /\ Len(a) \in 0..Len(t)
    BY <1>2
  <1>4. PICK d : d = After(a, n)
    OBVIOUS
  <1>5. d \in Seq(S) /\ Len(d) = Len(a) - n /\ \A i \in 1..Len(d) : d[i] = a[n + i]
    BY <1>0, <1>4, AfterIs
  <1>6. PICK e : e = After(t, n)
    OBVIOUS
  <1>7. e \in Seq(S) /\ Len(e) = Len(t) - n /\ \A i \in 1..Len(e) : e[i] = t[n + i]
    <2>1. t \in Seq(S)
      BY <1>2
    <2> QED
      BY <1>3, <1>6, <2>1, AfterIs
  <1>8. PICK f : f = d \o b
    OBVIOUS
  <1>9. /\ f \in Seq(S) /\ Len(f) = Len(d) + Len(b)
        /\ \A i \in 1..Len(d) : f[i] = d[i]
        /\ \A i \in 1..Len(b) : f[Len(d) + i] = b[i]
    <2>1. d \in Seq(S) /\ b \in Seq(S)
      BY <1>0, <1>5
    <2> QED
      BY <1>8, <2>1, Joined
  <1>10. f = e
    <2>1. Len(f) = Len(e)
      BY <1>2, <1>5, <1>7, <1>9
    <2>2. ASSUME NEW i \in 1..Len(f) PROVE f[i] = e[i]
      <3>1. CASE i <= Len(d)
        <4>1. i \in 1..Len(d) /\ n + i \in 1..Len(a) /\ i \in 1..Len(e)
          BY <1>2, <1>5, <1>9, <2>1, <3>1
        <4> QED
          BY <1>2, <1>5, <1>7, <1>9, <4>1
      <3>2. CASE ~(i <= Len(d))
        <4>1. /\ i - Len(d) \in 1..Len(b) /\ Len(d) + (i - Len(d)) = i /\ i \in 1..Len(e)
              /\ Len(a) + (i - Len(d)) = n + i
          BY <1>2, <1>5, <1>9, <2>1, <3>2
        <4>2. f[i] = b[i - Len(d)]
          BY <1>9, <4>1
        <4>3. t[n + i] = b[i - Len(d)]
          BY <1>2, <4>1
        <4>4. e[i] = t[n + i]
          BY <1>7, <4>1
        <4> QED
          BY <4>2, <4>3, <4>4
      <3> QED
        BY <3>1, <3>2
    <2> QED
      BY <1>7, <1>9, <2>1, <2>2, SeqEqual
  <1> QED
    BY <1>1, <1>4, <1>6, <1>8, <1>10

LEMMA AfterAll ==
  ASSUME NEW S, NEW a \in Seq(S), NEW b \in Seq(S), NEW u, u = a \o b
  PROVE  After(u, Len(a)) = b
  <1>0. PICK t : t = u
    OBVIOUS
  <1>1. /\ t \in Seq(S) /\ Len(t) = Len(a) + Len(b) /\ Len(a) \in Nat /\ Len(b) \in Nat
        /\ \A i \in 1..Len(b) : t[Len(a) + i] = b[i]
    BY <1>0, Joined
  <1>2. Len(a) \in 0..Len(t)
    BY <1>1
  <1>3. PICK g : g = After(t, Len(a))
    OBVIOUS
  <1>4. /\ g \in Seq(S) /\ Len(g) = Len(t) - Len(a)
        /\ \A i \in 1..Len(g) : g[i] = t[Len(a) + i]
    <2>1. t \in Seq(S)
      BY <1>1
    <2> QED
      BY <1>2, <1>3, <2>1, AfterIs
  <1>5. Len(g) = Len(b)
    BY <1>1, <1>4
  <1>6. \A i \in 1..Len(g) : g[i] = b[i]
    BY <1>1, <1>4, <1>5
  <1> QED
    BY <1>0, <1>3, <1>4, <1>5, <1>6, SeqEqual

(* What the parser gets to see of the oldest request and those after it. *)
LEMMA SentStarts ==
  ASSUME NEW c \in Conns, NEW q \in Seq(Kinds), q # <<>>, NEW s, s = Sent(c, q),
         NEW r, r = Head(q), NEW b, b = BodyUnits(c, r)
  PROVE  /\ r \in Kinds /\ Tail(q) \in Seq(Kinds) /\ s \in Seq(Unit) /\ b \in Seq(Unit)
         /\ Len(b) \in Nat /\ Len(s) \in Nat /\ 5 + Len(b) <= Len(s)
         /\ s[1] = <<"line", r>> /\ s[2] = Crlf /\ s[3] = <<"head", r>>
         /\ s[4] = Crlf /\ s[5] = Crlf
         /\ \A i \in 1..Len(b) : s[5 + i] = b[i]
         /\ Len(s) > 5 + Len(b) => s[5 + Len(b) + 1][1] = "line"
         /\ After(s, 5 + Len(b)) = Sent(c, Tail(q))
         /\ Tail(q) = <<>> => s = Wire(c, r)
  <1>1. r \in Kinds /\ Tail(q) \in Seq(Kinds)
    BY HeadTailProperties
  <1>2. b \in Seq(Unit)
    BY <1>1, BodyUnitsIs
  <1>3. PICK w : w = Wire(c, r)
    OBVIOUS
  <1>4. /\ w \in Seq(Unit) /\ Len(w) = 5 + Len(b)
        /\ w[1] = <<"line", r>> /\ w[2] = Crlf /\ w[3] = <<"head", r>>
        /\ w[4] = Crlf /\ w[5] = Crlf /\ \A i \in 1..Len(b) : w[5 + i] = b[i]
    BY <1>1, <1>3, WireIs
  <1>5. PICK y : y = Sent(c, Tail(q))
    OBVIOUS
  <1>6. y \in Seq(Unit)
    BY <1>1, <1>5, SentIs
  <1>7. s = w \o y
    BY <1>3, <1>5, SentIs
  <1>8. w \in Seq(Unit)
    BY <1>4
  <1>9. /\ s \in Seq(Unit) /\ Len(s) = Len(w) + Len(y) /\ Len(w) \in Nat /\ Len(y) \in Nat
        /\ \A i \in 1..Len(w) : s[i] = w[i]
        /\ \A i \in 1..Len(y) : s[Len(w) + i] = y[i]
    BY <1>6, <1>7, <1>8, Joined
  <1>10. Len(b) \in Nat /\ 5 + Len(b) <= Len(s)
    BY <1>2, <1>4, <1>9
  <1>11. \A i \in 1..5 : s[i] = w[i]
    BY <1>4, <1>9, <1>10
  <1>12. \A i \in 1..Len(b) : s[5 + i] = b[i]
    BY <1>4, <1>9, <1>10
  <1>13. After(s, 5 + Len(b)) = y
    <2>1. After(s, Len(w)) = y
      BY <1>6, <1>7, <1>8, AfterAll
    <2> QED
      BY <1>4, <2>1
  <1>14. ASSUME Len(s) > 5 + Len(b) PROVE s[5 + Len(b) + 1][1] = "line"
    <2> DEFINE p == Tail(q)
               x == Head(p)
    <2>1. Len(y) >= 1
      BY <1>4, <1>9, <1>10, <1>14
    <2>2. p # <<>>
      <3>1. CASE p = <<>>
        <4>1. y = <<>>
          BY <1>1, <1>5, <3>1, SentIs
        <4> QED
          BY <2>1, <4>1
      <3> QED
        BY <3>1
    <2>3. p \in Seq(Kinds) /\ x \in Kinds /\ Tail(p) \in Seq(Kinds)
      BY <1>1, <2>2, HeadTailProperties
    <2>4. y = Wire(c, x) \o Sent(c, Tail(p))
      BY <1>5, <2>2, <2>3, SentIs
    <2> HIDE DEF p, x
    <2>5. PICK v : v = Wire(c, x)
      OBVIOUS
    <2>6. v \in Seq(Unit) /\ v[1] = <<"line", x>> /\ Len(v) = 5 + Len(BodyUnits(c, x))
      BY <2>3, <2>5, WireIs
    <2>7. Sent(c, Tail(p)) \in Seq(Unit) /\ Len(BodyUnits(c, x)) \in Nat
      BY <2>3, SentIs, BodyUnitsIs, LenProperties
    <2>8. 1 \in 1..Len(v)
      BY <2>6, <2>7
    <2>9. y[1] = v[1]
      <3>1. v \in Seq(Unit) /\ y = v \o Sent(c, Tail(p))
        BY <2>4, <2>5, <2>6
      <3>2. \A i \in 1..Len(v) : y[i] = v[i]
        BY <2>7, <3>1, Joined
      <3> QED
        BY <2>8, <3>2
    <2>10. s[5 + Len(b) + 1] = y[1]
      BY <1>4, <1>9, <2>1
    <2> QED
      BY <2>6, <2>9, <2>10, Tags
  <1>15. ASSUME Tail(q) = <<>> PROVE s = w
    <2>1. y = <<>>
      BY <1>1, <1>5, <1>15, SentIs
    <2> QED
      BY <1>7, <1>8, <2>1, ConcatEmptySeq
  <1> QED
    BY <1>1, <1>2, <1>3, <1>4, <1>5, <1>9, <1>10, <1>11, <1>12, <1>13, <1>14, <1>15

-----------------------------------------------------------------------------
(* The parser that reset leaves, its TRUE a value like any other. *)
LEMMA CleanIs ==
  \E t : /\ t = TRUE
         /\ Clean = [state |-> "line", buffer |-> <<>>, pos |-> 0, line |-> NoRequest,
                     head |-> NoRequest, expected |-> 0, last |-> 0, acc |-> <<>>,
                     body |-> <<>>, keep |-> t, error |-> 0]
  BY Zenon DEF Clean

(* B has come of what is sent of the requests q, w has not; or, while a     *)
(* request line is waited for, of what the request before has left, and of  *)
(* them.  What feed_data returns is as it should be.                        *)
Stream(c, B, w, q) ==
    /\ B \in Seq(Unit) /\ w \in Seq(Unit) /\ q \in Seq(Kinds) /\ q # <<>>
    /\ B \o w = Sent(c, q)

Start(c, B, w, l, q) ==
    /\ B \in Seq(Unit) /\ w \in Seq(Unit) /\ q \in Seq(Kinds) /\ Rest(l)
    /\ B \o w = l \o Sent(c, q) \/ (l = <<Crlf>> /\ B \o w = Sent(c, q))

Fed(c, F, w, l, q) ==
    F.P.buffer \in Seq(Unit) /\ Quiet(F.D) /\ Parsing(c, F.P, F.D, w, l, q)

(* The start line.  The parser P has the units B and no more; w is to come. *)
LEMMA LineStage ==
  ASSUME NEW c \in Conns, NEW q, NEW l, NEW B, NEW w, Start(c, B, w, l, q),
         NEW P, P = [Clean EXCEPT !.buffer = B], NEW R, R = ParseStartLine(P)
  PROVE  \/ R = P /\ FindCrlf(B, 1) = 0
         \/ R.state = "error" /\ R.buffer = B /\ Refused(c, R, l, q)
         \/ /\ Stream(c, B, w, q) /\ 2 <= Len(B)
            /\ CheckLine(Head(q)) = 0 /\ HasLine(R, Head(q)) /\ R.buffer = B
  <1>1. B \in Seq(Unit) /\ w \in Seq(Unit) /\ q \in Seq(Kinds) /\ Rest(l)
    BY DEF Start
  <1>2. B \o w = l \o Sent(c, q) \/ (l = <<Crlf>> /\ B \o w = Sent(c, q))
    BY DEF Start
  <1> USE <1>1
  <1>3. PICK eol : eol = FindCrlf(B, 1)
    OBVIOUS
  <1>4. Len(B) \in Nat
    BY LenProperties
  <1>5. \/ eol = 0
        \/ eol \in 1..Len(B) /\ B[eol] = Crlf /\ \A j \in 1..(eol - 1) : B[j] # Crlf
    BY <1>3, <1>4, FindCrlfIs
  <1>6. P.buffer = B /\ P.pos = 0 /\ P.pos + 1 = 1
    BY DEF Clean
  <1>7. CASE eol = 0
    <2>1. R = P
      BY <1>3, <1>6, <1>7 DEF ParseStartLine
    <2> QED
      BY <1>3, <1>7, <2>1
  <1>8. CASE eol # 0
    <2>1. eol \in 1..Len(B) /\ B[eol] = Crlf /\ \A j \in 1..(eol - 1) : B[j] # Crlf
      BY <1>5, <1>8
    <2>2. PICK text : text = SubSeq(B, 1, eol - 1)
      OBVIOUS
    <2>3. Len(text) = eol - 1 /\ \A i \in 1..(eol - 1) : text[i] = B[i]
      <3>1. eol - 1 \in 0..Len(B)
        BY <2>1, <1>4
      <3> QED
        BY <2>2, <3>1, UptoIs
    <2> DEFINE Q == [P EXCEPT !.pos = eol]
               isLine == Len(text) = 1 /\ text[1][1] = "line"
    <2>4. R = IF ~isLine THEN Fail(Q, 400)
              ELSE IF CheckLine(text[1][2]) # 0 THEN Fail(Q, CheckLine(text[1][2]))
              ELSE [Q EXCEPT !.state = "headers", !.line = text[1][2]]
      <3> DEFINE e == FindCrlf(P.buffer, P.pos + 1)
                 Out(k, x) ==
                    IF k = 0 THEN P
                    ELSE IF ~(Len(x) = 1 /\ x[1][1] = "line")
                    THEN Fail([P EXCEPT !.pos = k], 400)
                    ELSE IF CheckLine(x[1][2]) # 0
                    THEN Fail([P EXCEPT !.pos = k], CheckLine(x[1][2]))
                    ELSE [[P EXCEPT !.pos = k] EXCEPT !.state = "headers", !.line = x[1][2]]
      <3>1. e = eol /\ SubSeq(P.buffer, P.pos + 1, eol - 1) = text
        BY <1>3, <1>6, <2>2
      <3>2. R = Out(e, SubSeq(P.buffer, P.pos + 1, e - 1))
        BY Zenon DEF ParseStartLine
      <3> HIDE DEF e, Out
      <3>3. R = Out(eol, text)
        BY <3>1, <3>2
      <3> QED
        BY <1>8, <3>3 DEF Out
    <2>5. \A e : LET F == Fail(Q, e) IN
             /\ F.state = "error" /\ F.error = e /\ F.buffer = B /\ F.pos = eol
             /\ F.line = NoRequest /\ F.keep = TRUE
      BY DEF Fail, Clean
    <2>6. \A x : LET H == [Q EXCEPT !.state = "headers", !.line = x] IN
             H.buffer = B /\ (eol = 2 => HasLine(H, x))
      BY DEF HasLine, Clean
    <2>7. eol \in 0..Len(B) /\ TRUE \in BOOLEAN
      BY <1>4, <2>1
    <2> HIDE DEF Q, isLine
    <2>8. CASE l # <<>> /\ B \o w = l \o Sent(c, q)
      <3>1. l \in Seq(Unit) /\ l[1][1] # "line" /\ 1 \in 1..Len(l)
        <4>1. l \in Seq(Unit) /\ l[1][1] # "line"
          BY <2>8 DEF Rest
        <4>2. Len(l) \in Nat \ {0}
          BY <2>8, <4>1, EmptySeq
        <4> QED
          BY <4>1, <4>2
      <3>2. Sent(c, q) \in Seq(Unit)
        BY SentIs
      <3>3. PICK t : t = B \o w
        OBVIOUS
      <3>4. \A i \in 1..Len(B) : t[i] = B[i]
        BY <3>3, Joined
      <3>5. \A i \in 1..Len(l) : t[i] = l[i]
        <4>1. t = l \o Sent(c, q) /\ l \in Seq(Unit)
          BY <2>8, <3>1, <3>3
        <4> QED
          BY <3>2, <4>1, Joined
      <3>6. B[1] = l[1]
        <4>1. 1 \in 1..Len(B)
          BY <1>4, <2>1
        <4> QED
          BY <3>1, <3>4, <3>5, <4>1
      <3>7. ~isLine
        BY <2>1, <2>3, <3>1, <3>6 DEF isLine
      <3>8. R = Fail(Q, 400)
        BY <2>4, <3>7
      <3>9. R.state = "error" /\ R.error = 400 /\ R.buffer = B /\ R.pos = eol
            /\ R.line = NoRequest /\ R.keep = TRUE
        BY <2>5, <3>8
      <3> QED
        BY <2>7, <2>8, <3>6, <3>9 DEF Refused, Undeserved
    <2>9. CASE B \o w = Sent(c, q)
      <3>1. PICK s : s = Sent(c, q)
        OBVIOUS
      <3>2. q # <<>>
        <4>1. CASE q = <<>>
          <5>1. s = <<>>
            BY <3>1, <4>1, SentIs
          <5>2. B = <<>>
            BY <2>9, <3>1, <5>1, ConcatEqualIffEmpty
          <5> QED
            BY <2>1, <5>2
        <4> QED
          BY <4>1
      <3> DEFINE r == Head(q)
      <3>3. /\ s[1] = <<"line", r>> /\ s[2] = Crlf
        BY <3>1, <3>2, SentStarts
      <3>4. \A i \in 1..Len(B) : s[i] = B[i]
        <4>1. s = B \o w
          BY <2>9, <3>1
        <4> QED
          BY <4>1, Joined
      <3> HIDE DEF r
      <3>5. B[1] = <<"line", r>> /\ B[1] # Crlf
        <4>1. 1 \in 1..Len(B)
          BY <1>4, <2>1
        <4> QED
          BY <3>3, <3>4, <4>1, Tags
      <3>6. eol = 2
        <4>1. eol # 1
          BY <2>1, <3>5
        <4>2. ASSUME eol > 2 PROVE FALSE
          <5>1. 2 \in 1..(eol - 1) /\ 2 \in 1..Len(B)
            BY <1>4, <2>1, <4>2
          <5>2. B[2] = Crlf
            BY <3>3, <3>4, <5>1
          <5> QED
            BY <2>1, <5>1, <5>2
        <4> QED
          BY <2>1, <4>1, <4>2
      <3>7. text[1] = <<"line", r>> /\ Len(text) = 1
        <4>1. Len(text) = 1 /\ 1 \in 1..(eol - 1)
          BY <2>3, <3>6
        <4> QED
          BY <2>3, <3>5, <4>1
      <3>8. isLine /\ text[1][2] = r
        BY <3>7, Tags DEF isLine
      <3>9. CASE CheckLine(r) # 0
        <4>1. R = Fail(Q, CheckLine(r))
          BY <2>4, <3>8, <3>9
        <4>2. R.state = "error" /\ R.error = CheckLine(r) /\ R.buffer = B /\ R.pos = eol
              /\ R.keep = TRUE
          BY <2>5, <4>1
        <4>3. CheckLine(r) \in {400, 414, 501}
          BY <3>9, LineStatus
        <4>4. FirstFailure(<<CheckLine(r), CheckHeaders(r)>>) = CheckLine(r)
          BY <3>9, FirstOfTwo
        <4>5. /\ R.error = FirstFailure(<<CheckLine(r), CheckHeaders(r)>>)
              /\ R.error \notin {413, 431} /\ R.error \in {400, 413, 414, 415, 431, 501}
              /\ R.pos \in 0..Len(R.buffer) /\ R.keep \in BOOLEAN
          <5>1. R.error = CheckLine(r) /\ R.pos = eol /\ R.keep = TRUE /\ R.buffer = B
            BY <4>2
          <5>2. CheckLine(r) \notin {413, 431} /\ CheckLine(r) \in {400, 413, 414, 415, 431, 501}
            BY <4>3
          <5>3. R.keep \in BOOLEAN
            BY <5>1, Zenon
          <5>4. R.pos \in 0..Len(R.buffer)
            BY <2>7, <5>1, Zenon
          <5>5. R.error = FirstFailure(<<CheckLine(r), CheckHeaders(r)>>)
            BY <4>4, <5>1, Zenon
          <5>6. R.error \notin {413, 431} /\ R.error \in {400, 413, 414, 415, 431, 501}
            BY <5>1, <5>2
          <5> QED
            BY <5>3, <5>4, <5>5, <5>6
        <4>6. Refused(c, R, l, q)
          BY <3>2, <4>5 DEF Refused, r
        <4> QED
          BY <4>2, <4>6
      <3>10. CASE CheckLine(r) = 0
        <4>1. R = [Q EXCEPT !.state = "headers", !.line = r]
          BY <2>4, <3>8, <3>10
        <4>2. R.buffer = B /\ HasLine(R, r)
          BY <2>6, <3>6, <4>1
        <4>3. Stream(c, B, w, q)
          BY <2>9, <3>2, Zenon DEF Stream
        <4> QED
          BY <1>4, <2>1, <3>6, <3>10, <4>2, <4>3 DEF r
      <3> QED
        BY <3>9, <3>10
    <2>10. CASE l = <<>> /\ B \o w = l \o Sent(c, q)
      <3>1. B \o w = Sent(c, q)
        BY <2>10, SentIs, ConcatEmptySeq
      <3> QED
        BY <2>9, <3>1
    <2> QED
      BY <1>2, <2>8, <2>9, <2>10
  <1> QED
    BY <1>7, <1>8

-----------------------------------------------------------------------------
(* The header fields. *)
Headed(P, r, st) ==
    P = [Clean EXCEPT !.buffer = P.buffer, !.state = st, !.pos = 5, !.line = r,
                      !.head = r, !.keep = (r.connection # "close"),
                      !.expected = IF HasLength(r) THEN r.cl ELSE 0]

AfterHead(r) ==
    IF r.method = "POST" \/ (HasLength(r) /\ r.cl > 0) THEN "body" ELSE "complete"

LEMMA WireBlank ==
  ASSUME NEW c \in Conns, NEW r \in Kinds
  PROVE  FindBlank(Wire(c, r), 1) = 4
  <1>1. PICK s : s = Wire(c, r)
    OBVIOUS
  <1>2. /\ s \in Seq(Unit) /\ Len(s) = 5 + Len(BodyUnits(c, r))
        /\ s[1] = <<"line", r>> /\ s[2] = Crlf /\ s[3] = <<"head", r>>
        /\ s[4] = Crlf /\ s[5] = Crlf
    BY <1>1, WireIs
  <1>3. Len(BodyUnits(c, r)) \in Nat
    BY BodyUnitsIs, LenProperties
  <1>4. Len(s) \in Nat /\ 4 \in 1..(Len(s) - 1) /\ 4 + 1 = 5
    BY <1>2, <1>3
  <1>5. s[1] # Crlf /\ s[3] # Crlf
    BY <1>2, Tags
  <1>6. PICK k : k = FindBlank(s, 1)
    OBVIOUS
  <1>7. \/ /\ k = 0
           /\ \A j \in 1..(Len(s) - 1) : ~(s[j] = Crlf /\ s[j + 1] = Crlf)
        \/ /\ k \in 1..(Len(s) - 1) /\ s[k] = Crlf /\ s[k + 1] = Crlf
           /\ \A j \in 1..(k - 1) : ~(s[j] = Crlf /\ s[j + 1] = Crlf)
    <2>1. 1 \in Nat \ {0} /\ Len(s) \in Nat
      BY <1>4
    <2> QED
      BY <1>6, <2>1, FindBlankIs
  <1>8. s[4] = Crlf /\ s[4 + 1] = Crlf
    BY <1>2, <1>4
  <1>9. k \in 1..(Len(s) - 1) /\ s[k] = Crlf /\ s[k + 1] = Crlf
    BY <1>4, <1>7, <1>8
  <1>10. k # 1 /\ k # 3 /\ k # 2
    <2>1. k # 1 /\ k # 3
      BY <1>5, <1>9
    <2>2. ASSUME k = 2 PROVE FALSE
      <3>1. k + 1 = 3
        BY <2>2
      <3> QED
        BY <1>5, <1>9, <3>1
    <2> QED
      BY <2>1, <2>2
  <1>11. ASSUME k > 4 PROVE FALSE
    <2>1. 4 \in 1..(k - 1)
      BY <1>9, <1>11
    <2> QED
      BY <1>7, <1>8, <1>9, <2>1
  <1>12. k = 4
    BY <1>4, <1>9, <1>10, <1>11
  <1> QED
    BY <1>1, <1>6, <1>12

(* Where the header of r ends in what was received of it. *)
LEMMA BufferBlank ==
  ASSUME NEW r, NEW B \in Seq(Unit), 2 <= Len(B),
         Len(B) >= 3 => B[3] = <<"head", r>>,
         Len(B) >= 4 => B[4] = Crlf, Len(B) >= 5 => B[5] = Crlf
  PROVE  \/ FindBlank(B, 3) = 0 /\ Len(B) <= 4
         \/ FindBlank(B, 3) = 4 /\ Len(B) >= 5
  <1>1. Len(B) \in Nat /\ 3 \in Nat \ {0}
    BY LenProperties
  <1>2. PICK k : k = FindBlank(B, 3)
    OBVIOUS
  <1>3. \/ /\ k = 0
           /\ \A j \in 3..(Len(B) - 1) : ~(B[j] = Crlf /\ B[j + 1] = Crlf)
        \/ /\ k \in 3..(Len(B) - 1) /\ B[k] = Crlf /\ B[k + 1] = Crlf
           /\ \A j \in 3..(k - 1) : ~(B[j] = Crlf /\ B[j + 1] = Crlf)
    BY <1>1, <1>2, FindBlankIs
  <1>4. CASE Len(B) <= 4
    <2>1. k # 3
      <3>1. CASE Len(B) >= 3
        BY <1>1, <1>3, <3>1, Tags
      <3>2. CASE ~(Len(B) >= 3)
        BY <1>1, <1>3, <3>2
      <3> QED
        BY <3>1, <3>2
    <2>2. k = 0
      BY <1>1, <1>3, <1>4, <2>1
    <2> QED
      BY <1>2, <1>4, <2>2
  <1>5. CASE ~(Len(B) <= 4)
    <2>1. /\ 4 \in 3..(Len(B) - 1) /\ 4 + 1 = 5 /\ B[4] = Crlf /\ B[5] = Crlf
          /\ B[3] # Crlf
      BY <1>1, <1>5, Tags
    <2>2. B[4] = Crlf /\ B[4 + 1] = Crlf
      BY <2>1
    <2>3. k \in 3..(Len(B) - 1) /\ B[k] = Crlf
      BY <1>3, <2>1, <2>2
    <2>4. k # 3
      BY <2>1, <2>3
    <2>5. ASSUME k > 4 PROVE FALSE
      <3>1. 4 \in 3..(k - 1)
        BY <2>3, <2>5
      <3> QED
        BY <1>3, <2>2, <2>3, <3>1
    <2>6. k = 4
      BY <1>1, <2>3, <2>4, <2>5
    <2> QED
      BY <1>1, <1>2, <1>5, <2>6
  <1> QED
    BY <1>4, <1>5

AtEnd(c, q, l, B, P, R) ==
    \/ R = P /\ FindBlank(B, 3) = 0
    \/ R.state = "error" /\ R.buffer \in {B, <<>>} /\ Refused(c, R, l, q)
    \/ /\ Accepted(Head(q)) /\ 5 <= Len(B) /\ R.buffer = B
       /\ Headed(R, Head(q), AfterHead(Head(q)))

LEMMA HeadersStage ==
  ASSUME NEW c \in Conns, NEW q, NEW l, NEW B, NEW w, Stream(c, B, w, q), 2 <= Len(B),
         CheckLine(Head(q)) = 0, NEW P, HasLine(P, Head(q)), P.buffer = B,
         NEW R, R = ParseHeaders(P)
  PROVE  AtEnd(c, q, l, B, P, R)
  <1>1. /\ B \in Seq(Unit) /\ w \in Seq(Unit) /\ q \in Seq(Kinds) /\ q # <<>>
        /\ B \o w = Sent(c, q)
    BY DEF Stream
  <1>2. PICK r : r = Head(q)
    OBVIOUS
  <1>3. CheckLine(r) = 0 /\ HasLine(P, r)
    BY <1>2, Zenon
  <1> USE <1>1, <1>2, <1>3
  <1>4. PICK s : s = Sent(c, q)
    OBVIOUS
  <1>5. /\ s[3] = <<"head", r>> /\ s[4] = Crlf /\ s[5] = Crlf /\ r \in Kinds
    BY <1>4, SentStarts
  <1>6. Len(B) \in Nat /\ \A i \in 1..Len(B) : s[i] = B[i]
    <2>1. s = B \o w
      BY <1>4
    <2> QED
      BY <2>1, Joined
  <1>7. /\ Len(B) >= 3 => B[3] = <<"head", r>>
        /\ Len(B) >= 4 => B[4] = Crlf
        /\ Len(B) >= 5 => B[5] = Crlf
    BY <1>5, <1>6
  <1>8. \/ FindBlank(B, 3) = 0 /\ Len(B) <= 4
        \/ FindBlank(B, 3) = 4 /\ Len(B) >= 5
    BY <1>7, BufferBlank
  <1>9. P = [Clean EXCEPT !.buffer = B, !.state = "headers", !.pos = 2, !.line = r]
    BY Zenon DEF HasLine
  <1>10. P.buffer = B /\ P.pos = 2 /\ P.pos + 1 = 3 /\ P.line = r
    BY <1>9 DEF Clean
  <1>11. CheckHeaders(r) \in {0, 400, 415, 501}
    BY HeadersStatus
  <1>12. ASSUME FindBlank(B, 3) = 0
         PROVE  \/ R = P
                \/ R.state = "error" /\ R.buffer \in {B, <<>>} /\ Refused(c, R, l, q)
    <2>1. R = IF Len(B) > MaxHeader THEN Fail([P EXCEPT !.buffer = <<>>, !.pos = 0], 431) ELSE P
      BY <1>10, <1>12 DEF ParseHeaders
    <2>2. CASE ~(Len(B) > MaxHeader)
      BY <1>12, <2>1, <2>2
    <2>3. CASE Len(B) > MaxHeader
      <3>1. /\ R.state = "error" /\ R.buffer = <<>> /\ R.error = 431 /\ R.pos = 0
            /\ R.keep = TRUE
        <4> DEFINE K == [Clean EXCEPT !.buffer = B, !.state = "headers", !.pos = 2, !.line = r]
                   F == Fail([K EXCEPT !.buffer = <<>>, !.pos = 0], 431)
        <4>1. /\ F.state = "error" /\ F.buffer = <<>> /\ F.error = 431 /\ F.pos = 0
              /\ F.keep = TRUE
          BY DEF Fail, Clean
        <4>2. R = F
          BY <1>9, <2>1, <2>3
        <4> HIDE DEF F, K
        <4> QED
          BY <4>1, <4>2, Zenon
      <3>2. FindBlank(Wire(c, r), 1) > MaxHeader
        <4>1. FindBlank(Wire(c, r), 1) = 4
          BY <1>5, WireBlank
        <4> QED
          BY <1>6, <1>8, <1>12, <2>3, <4>1, ParserAssumption
      <3>3. R.keep \in BOOLEAN
        BY <3>1, Zenon
      <3>4. R.pos \in 0..Len(R.buffer) /\ R.error \in {400, 413, 414, 415, 431, 501}
        BY <3>1, EmptySeq
      <3>5. Refused(c, R, l, q)
        BY <3>1, <3>2, <3>3, <3>4 DEF Refused
      <3> QED
        BY <3>1, <3>5
    <2> QED
      BY <2>2, <2>3
  <1>13. ASSUME FindBlank(B, 3) # 0
         PROVE  \/ R.state = "error" /\ R.buffer \in {B, <<>>} /\ Refused(c, R, l, q)
                \/ Accepted(r) /\ 5 <= Len(B) /\ R.buffer = B /\ Headed(R, r, AfterHead(r))
    <2> DEFINE fields == {i \in 3..3 : B[i] # Crlf}
               k == (r.connection # "close")
               x == IF HasLength(r) THEN r.cl ELSE 0
    <2>1. FindBlank(B, 3) = 4 /\ Len(B) >= 5
      BY <1>8, <1>13
    <2>2. B[3] = <<"head", r>> /\ B[3][1] = "head" /\ B[3][2] = r /\ B[3] # Crlf
      BY <1>6, <1>7, <2>1, Tags
    <2>3. fields = {3}
      <3>1. \A i : i \in fields <=> i \in 3..3 /\ B[i] # Crlf
        BY Zenon
      <3>2. \A i : i \in 3..3 <=> i = 3
        OBVIOUS
      <3> HIDE DEF fields
      <3> QED
        BY <2>2, <3>1, <3>2
    <2>4. Min({3}) = 3
      <3>1. {3} \in SUBSET Nat /\ {3} # {}
        OBVIOUS
      <3>2. Min({3}) \in {3}
        BY <3>1, LeastIsIn
      <3> QED
        BY <3>2
    <2> DEFINE Out(end, F, h) ==
                  IF end = 0
                  THEN IF Len(P.buffer) > MaxHeader
                       THEN Fail([P EXCEPT !.buffer = <<>>, !.pos = 0], 431) ELSE P
                  ELSE IF F = {} \/ \E i \in F : P.buffer[i][1] # "head"
                  THEN Fail([P EXCEPT !.pos = end + 1], 400)
                  ELSE IF CheckHeaders(h) # 0
                  THEN Fail([P EXCEPT !.pos = end + 1], CheckHeaders(h))
                  ELSE [[P EXCEPT !.pos = end + 1] EXCEPT
                           !.head = h, !.keep = (h.connection # "close"),
                           !.expected = IF HasLength(h) THEN h.cl ELSE 0,
                           !.state = IF P.line.method = "POST" \/ (HasLength(h) /\ h.cl > 0)
                                     THEN "body" ELSE "complete"]
               e == FindBlank(P.buffer, P.pos + 1)
               G == {i \in (P.pos + 1)..(e - 1) : P.buffer[i] # Crlf}
    <2>5. R = Out(e, G, P.buffer[Min(G)][2])
      BY Zenon DEF ParseHeaders
    <2>6. e = 4
      BY <1>10, <2>1
    <2>7. G = fields
      BY <1>10, <2>6
    <2>8. P.buffer[Min(G)][2] = r
      BY <1>10, <2>2, <2>3, <2>4, <2>7
    <2> HIDE DEF Out, e, G, fields
    <2>9. R = Out(4, {3}, r)
      BY <2>3, <2>5, <2>6, <2>7, <2>8
    <2>10. {3} # {} /\ ~ \E i \in {3} : B[i][1] # "head"
      BY <2>2
    <2>11. CASE CheckHeaders(r) # 0
      <3>1. R = Fail([P EXCEPT !.pos = 5], CheckHeaders(r))
        BY <1>10, <2>9, <2>10, <2>11 DEF Out
      <3>2. /\ R.state = "error" /\ R.buffer = B /\ R.error = CheckHeaders(r) /\ R.pos = 5
            /\ R.keep = TRUE
        BY <1>9, <3>1 DEF Fail, Clean
      <3>3. FirstFailure(<<CheckLine(r), CheckHeaders(r)>>) = CheckHeaders(r)
        BY FirstOfTwo
      <3>4. R.keep \in BOOLEAN
        BY <3>2, Zenon
      <3>5. R.pos \in 0..Len(R.buffer)
        BY <1>6, <2>1, <3>2
      <3>6. R.error \notin {413, 431} /\ R.error \in {400, 413, 414, 415, 431, 501}
        BY <1>11, <2>11, <3>2
      <3>7. R.error = FirstFailure(<<CheckLine(r), CheckHeaders(r)>>)
        BY <3>2, <3>3, Zenon
      <3>8. Refused(c, R, l, q)
        <4>1. R.error = FirstFailure(<<CheckLine(Head(q)), CheckHeaders(Head(q))>>)
          BY <3>7, Zenon
        <4> QED
          BY <3>4, <3>5, <3>6, <4>1, Zenon DEF Refused
      <3> QED
        BY <3>2, <3>8
    <2>12. CASE CheckHeaders(r) = 0
      <3>1. R = [[P EXCEPT !.pos = 5] EXCEPT !.head = r, !.keep = k, !.expected = x,
                                             !.state = AfterHead(r)]
        BY <1>10, <2>9, <2>10, <2>12 DEF Out, AfterHead
      <3> HIDE DEF k, x
      <3>2. R = [Clean EXCEPT !.buffer = B, !.state = AfterHead(r), !.pos = 5, !.line = r,
                              !.head = r, !.keep = k, !.expected = x] /\ R.buffer = B
        <4> DEFINE K == [Clean EXCEPT !.buffer = B, !.state = "headers", !.pos = 2, !.line = r]
                   M(st) == [[K EXCEPT !.pos = 5] EXCEPT !.head = r, !.keep = k, !.expected = x,
                                                         !.state = st]
                   N(st) == [Clean EXCEPT !.buffer = B, !.state = st, !.pos = 5, !.line = r,
                                          !.head = r, !.keep = k, !.expected = x]
        <4>1. \A st : M(st) = N(st)
          BY CleanIs
        <4>2. \A st : N(st).buffer = B
          BY CleanIs
        <4>3. R = M(AfterHead(r))
          BY <1>9, <3>1, Zenon
        <4> HIDE DEF M, N
        <4>4. R = N(AfterHead(r)) /\ R.buffer = B
          BY <4>1, <4>2, <4>3, Zenon
        <4> QED
          BY <4>4, Zenon DEF N
      <3>3. Headed(R, r, AfterHead(r))
        BY <3>2 DEF Headed, k, x
      <3> QED
        BY <1>6, <2>1, <2>12, <3>2, <3>3 DEF Accepted
    <2> QED
      BY <2>11, <2>12
  <1>14. \/ R = P /\ FindBlank(B, 3) = 0
         \/ R.state = "error" /\ R.buffer \in {B, <<>>} /\ Refused(c, R, l, q)
         \/ Accepted(r) /\ 5 <= Len(B) /\ R.buffer = B /\ Headed(R, r, AfterHead(r))
    BY <1>12, <1>13
  <1> QED
    BY <1>14, Zenon DEF AtEnd

-----------------------------------------------------------------------------
(* The body of a request that is not chunked. *)

(* A parser that has the header of r, with a body b of n units at the end.  *)
Taken(P, b, n, st) == [[P EXCEPT !.body = b, !.pos = n] EXCEPT !.state = st]

Holds(R, r, B, b, n, st) ==
    /\ R.state = st /\ R.pos = n /\ R.line = r /\ R.head = r /\ R.body = b
    /\ R.error = 0 /\ R.buffer = B /\ R.keep = (r.connection # "close")

LEMMA HeadedIs ==
  ASSUME NEW P, NEW r, NEW st, Headed(P, r, st)
  PROVE  /\ P.state = st /\ P.pos = 5 /\ P.line = r /\ P.head = r
         /\ P.last = 0 /\ P.acc = <<>> /\ P.body = <<>> /\ P.error = 0
         /\ P.expected = IF HasLength(r) THEN r.cl ELSE 0
         /\ P.keep = (r.connection # "close")
         /\ \A b, n, t : Holds(Taken(P, b, n, t), r, P.buffer, b, n, t)
         /\ \A t : LET R == [P EXCEPT !.state = t] IN
               /\ R.buffer = P.buffer /\ Headed(R, r, t)
  <1> DEFINE k == (r.connection # "close")
             x == IF HasLength(r) THEN r.cl ELSE 0
             K(t, B) == [Clean EXCEPT !.buffer = B, !.state = t, !.pos = 5, !.line = r,
                                      !.head = r, !.keep = k, !.expected = x]
  <1>1. P = K(st, P.buffer)
    BY Zenon DEF Headed
  <1>2. \A A, t : Headed(A, r, t) <=> A = K(t, A.buffer)
    BY Zenon DEF Headed
  <1> HIDE DEF k, x
  <1>3. ASSUME NEW B
        PROVE  LET A == K(st, B) IN
               /\ A.state = st /\ A.pos = 5 /\ A.line = r /\ A.head = r
               /\ A.last = 0 /\ A.acc = <<>> /\ A.body = <<>> /\ A.error = 0
               /\ A.expected = x /\ A.keep = k
    BY CleanIs
  <1>4. ASSUME NEW B, NEW b, NEW n, NEW t
        PROVE  Holds(Taken(K(st, B), b, n, t), r, B, b, n, t)
    <2>1. PICK R : R = Taken(K(st, B), b, n, t)
      OBVIOUS
    <2>2. /\ R.state = t /\ R.pos = n /\ R.line = r /\ R.head = r /\ R.body = b
          /\ R.error = 0 /\ R.buffer = B /\ R.keep = k
      BY <2>1, CleanIs DEF Taken
    <2>3. Holds(R, r, B, b, n, t)
      BY <2>2, Zenon DEF Holds, k
    <2> QED
      BY <2>1, <2>3, Zenon
  <1>5. ASSUME NEW B, NEW t
        PROVE  LET R == [K(st, B) EXCEPT !.state = t] IN
               R.buffer = B /\ R = K(t, B) /\ K(t, B).buffer = B
    BY CleanIs
  <1> HIDE DEF K
  <1>6. /\ P.state = st /\ P.pos = 5 /\ P.line = r /\ P.head = r
        /\ P.last = 0 /\ P.acc = <<>> /\ P.body = <<>> /\ P.error = 0
        /\ P.expected = x /\ P.keep = k
    BY <1>1, <1>3, Zenon
  <1>7. ASSUME NEW b, NEW n, NEW t
        PROVE  Holds(Taken(P, b, n, t), r, P.buffer, b, n, t)
    <2>1. PICK B : B = P.buffer
      OBVIOUS
    <2>2. Taken(P, b, n, t) = Taken(K(st, B), b, n, t)
      BY <1>1, <2>1, Zenon
    <2>3. Holds(Taken(K(st, B), b, n, t), r, B, b, n, t)
      BY <1>4
    <2> QED
      BY <2>1, <2>2, <2>3, Zenon
  <1>8. ASSUME NEW t
        PROVE  LET R == [P EXCEPT !.state = t] IN R.buffer = P.buffer /\ Headed(R, r, t)
    <2>1. PICK B : B = P.buffer
      OBVIOUS
    <2>2. PICK R : R = [P EXCEPT !.state = t]
      OBVIOUS
    <2>3. P = K(st, B)
      BY <1>1, <2>1, Zenon
    <2>4. R.buffer = B /\ R = K(t, B)
      BY <1>5, <2>2, <2>3, Zenon
    <2>5. Headed(R, r, t)
      BY <1>2, <2>4, Zenon
    <2> QED
      BY <2>1, <2>2, <2>4, <2>5, Zenon
  <1> QED
    BY <1>6, <1>7, <1>8, Zenon DEF k, x

(* The parser that waits for the rest of a body, and what it becomes.       *)
Waits(P, a, n) == [P EXCEPT !.acc = a, !.last = n]

Ended(P, b, n) ==
    [P EXCEPT !.state = "complete", !.body = b, !.acc = <<>>, !.last = 0, !.pos = n]

Gets(P, B) == [P EXCEPT !.buffer = B]

(* The parser when the buffer is too long. *)
Full(P) == Fail([P EXCEPT !.buffer = <<>>, !.pos = 0], 413)

Refuses(F) ==
    /\ F.state = "error" /\ F.error = 413 /\ F.buffer = <<>> /\ F.pos = 0
    /\ F.keep \in BOOLEAN


LEMMA HeadedWaits ==
  ASSUME NEW P, NEW r
  PROVE  Headed(P, r, "body") <=> HasHead(P, r) /\ P.last = 0 /\ P.acc = <<>>
  <1> DEFINE k == (r.connection # "close")
             x == IF HasLength(r) THEN r.cl ELSE 0
             J(B) == [Clean EXCEPT !.buffer = B, !.state = "body", !.pos = 5, !.line = r,
                                   !.head = r, !.keep = k, !.expected = x]
             K(B, n, a) == [Clean EXCEPT !.buffer = B, !.state = "body", !.pos = 5, !.line = r,
                                         !.head = r, !.keep = k, !.expected = x,
                                         !.last = n, !.acc = a]
  <1>1. PICK B : B = P.buffer
    OBVIOUS
  <1>2. Headed(P, r, "body") <=> P = J(B)
    BY <1>1, Zenon DEF Headed
  <1>3. HasHead(P, r) <=> P = K(B, P.last, P.acc)
    BY <1>1, Zenon DEF HasHead
  <1> HIDE DEF k, x
  <1>4. K(B, 0, <<>>) = J(B) /\ J(B).last = 0 /\ J(B).acc = <<>>
    <2>1. J(B).last = 0 /\ J(B).acc = <<>>
      BY CleanIs
    <2>2. PICK t : Clean = [state |-> "line", buffer |-> <<>>, pos |-> 0, line |-> NoRequest,
                           head |-> NoRequest, expected |-> 0, last |-> 0, acc |-> <<>>,
                           body |-> <<>>, keep |-> t, error |-> 0]
      BY CleanIs
    <2> DEFINE L(m, b) == [state |-> "body", buffer |-> B, pos |-> 5, line |-> r,
                           head |-> r, expected |-> x, last |-> m, acc |-> b,
                           body |-> <<>>, keep |-> k, error |-> 0]
    <2>3. ASSUME NEW D, NEW m, NEW b, D = K(B, m, b) PROVE D = L(m, b)
      BY <2>2, <2>3
    <2>4. ASSUME NEW D, D = J(B) PROVE D = L(0, <<>>)
      BY <2>2, <2>4
    <2> HIDE DEF J, K, L
    <2>5. K(B, 0, <<>>) = L(0, <<>>)
      BY <2>3
    <2>6. J(B) = L(0, <<>>)
      BY <2>4
    <2> QED
      BY <2>1, <2>5, <2>6
  <1> HIDE DEF J, K
  <1> QED
    BY <1>2, <1>3, <1>4, Zenon

LEMMA HasHeadIs ==
  ASSUME NEW P, NEW r, HasHead(P, r)
  PROVE  /\ P.state = "body" /\ P.pos = 5 /\ P.line = r /\ P.head = r
         /\ P.expected = IF HasLength(r) THEN r.cl ELSE 0
         /\ \A a, n : LET R == Waits(P, a, n) IN
               HasHead(R, r) /\ R.buffer = P.buffer /\ R.acc = a /\ R.last = n
         /\ \A b, n : Holds(Ended(P, b, n), r, P.buffer, b, n, "complete")
         /\ \A B : LET R == Gets(P, B) IN
               HasHead(R, r) /\ R.buffer = B /\ R.acc = P.acc /\ R.last = P.last
         /\ Refuses(Full(P))
  <1> DEFINE k == (r.connection # "close")
             x == IF HasLength(r) THEN r.cl ELSE 0
             K(B, n, a) == [Clean EXCEPT !.buffer = B, !.state = "body", !.pos = 5, !.line = r,
                                         !.head = r, !.keep = k, !.expected = x,
                                         !.last = n, !.acc = a]
  <1>1. \A A : HasHead(A, r) <=> A = K(A.buffer, A.last, A.acc)
    BY Zenon DEF HasHead
  <1> HIDE DEF k, x
  <1>2. PICK B, n, a : B = P.buffer /\ n = P.last /\ a = P.acc
    OBVIOUS
  <1>3. P = K(B, n, a)
    BY <1>1, <1>2, Zenon
  <1>4. ASSUME NEW A, NEW B1, NEW n1, NEW a1, A = K(B1, n1, a1)
        PROVE  /\ A.state = "body" /\ A.pos = 5 /\ A.line = r /\ A.head = r
               /\ A.expected = x /\ A.buffer = B1 /\ A.last = n1 /\ A.acc = a1
    BY <1>4, CleanIs
  <1>5. \A b1, n1 : Waits(K(B, n, a), b1, n1) = K(B, n1, b1)
    BY CleanIs DEF Waits
  <1>6. \A B1 : Gets(K(B, n, a), B1) = K(B1, n, a)
    BY CleanIs DEF Gets
  <1>7. ASSUME NEW b, NEW m
        PROVE  Holds(Ended(K(B, n, a), b, m), r, B, b, m, "complete")
    <2>1. PICK R : R = Ended(K(B, n, a), b, m)
      OBVIOUS
    <2>2. /\ R.state = "complete" /\ R.pos = m /\ R.line = r /\ R.head = r /\ R.body = b
          /\ R.error = 0 /\ R.buffer = B /\ R.keep = k
      BY <2>1, CleanIs DEF Ended
    <2>3. Holds(R, r, B, b, m, "complete")
      BY <2>2, Zenon DEF Holds, k
    <2> QED
      BY <2>1, <2>3, Zenon
  <1> HIDE DEF K
  <1>8. P.state = "body" /\ P.pos = 5 /\ P.line = r /\ P.head = r /\ P.expected = x
    BY <1>3, <1>4, Zenon
  <1>9. ASSUME NEW b, NEW m
         PROVE  LET R == Waits(P, b, m) IN
                HasHead(R, r) /\ R.buffer = P.buffer /\ R.acc = b /\ R.last = m
    <2>1. PICK R : R = Waits(P, b, m)
      OBVIOUS
    <2>2. R = K(B, m, b)
      BY <1>3, <1>5, <2>1, Zenon
    <2>3. R.buffer = B /\ R.last = m /\ R.acc = b
      BY <1>4, <2>2
    <2>4. HasHead(R, r)
      BY <1>1, <2>2, <2>3, Zenon
    <2> QED
      BY <1>2, <2>1, <2>3, <2>4, Zenon
  <1>10. ASSUME NEW C
         PROVE  LET R == Gets(P, C) IN
                HasHead(R, r) /\ R.buffer = C /\ R.acc = P.acc /\ R.last = P.last
    <2>1. PICK R : R = Gets(P, C)
      OBVIOUS
    <2>2. R = K(C, n, a)
      BY <1>3, <1>6, <2>1, Zenon
    <2>3. R.buffer = C /\ R.last = n /\ R.acc = a
      BY <1>4, <2>2
    <2>4. HasHead(R, r)
      BY <1>1, <2>2, <2>3, Zenon
    <2> QED
      BY <1>2, <2>1, <2>3, <2>4, Zenon
  <1>11. ASSUME NEW b, NEW m
         PROVE  Holds(Ended(P, b, m), r, P.buffer, b, m, "complete")
    BY <1>2, <1>3, <1>7, Zenon
  <1>12. Refuses(Full(P))
    <2>1. PICK F : F = Full(K(B, n, a))
      OBVIOUS
    <2>2. /\ F.state = "error" /\ F.error = 413 /\ F.buffer = <<>> /\ F.pos = 0 /\ F.keep = k
      BY <2>1, CleanIs DEF Full, Fail, K
    <2>3. k \in BOOLEAN
      BY Zenon DEF k
    <2> QED
      BY <1>3, <2>1, <2>2, <2>3, Zenon DEF Refuses
  <1> QED
    BY <1>8, <1>9, <1>10, <1>11, <1>12, Zenon DEF x

LEMMA Completes ==
  ASSUME NEW c \in Conns, NEW q \in Seq(Kinds), q # <<>>,
         NEW B \in Seq(Unit), NEW w, B \o w = Sent(c, q),
         NEW r, r = Head(q), Accepted(r), ~ChunkedPost(r),
         NEW n, n = 5 + (IF r.method = "POST" THEN r.body ELSE 0), n <= Len(B), n \in Nat,
         NEW R, R.buffer = B, R.pos = n, R.line = r, R.head = r, R.error = 0,
         R.keep = (r.connection # "close"),
         R.body = IF r.method = "POST" THEN Payload(c, r) ELSE <<>>
  PROVE  Complete(c, R, Fresh, w, q)
  <1>1. R.pos \in 0..Len(R.buffer)
    <2>1. n \in 0..Len(B)
      BY LenProperties
    <2> QED
      BY <2>1, Zenon
  <1>2. R.buffer \o w = Sent(c, q)
    BY Zenon
  <1> QED
    BY <1>1, <1>2, Zenon DEF Complete

LEMMA FedIs ==
  ASSUME NEW c, NEW w, NEW l, NEW q, NEW R,
         R.buffer \in Seq(Unit), Parsing(c, R, Fresh, w, l, q)
  PROVE  Fed(c, [P |-> R, D |-> Fresh], w, l, q)
  <1>1. PICK F : F = [P |-> R, D |-> Fresh]
    OBVIOUS
  <1>2. F.P = R /\ F.D = Fresh
    BY <1>1
  <1> QED
    BY <1>1, <1>2, Zenon DEF Fed, Quiet

(* A body of Content-Length bytes. *)
LEMMA TakeStage ==
  ASSUME Honest, NEW c \in Conns, NEW q, NEW l,
         NEW B, NEW w, Stream(c, B, w, q), 5 <= Len(B),
         NEW r, r = Head(q), Accepted(r), r.method = "POST", r.te # "chunked", HasLength(r),
         NEW P, Headed(P, r, "body"), P.buffer = B
  PROVE  Fed(c, [P |-> TakeBody(P), D |-> Fresh], w, l, q)
  <1>1. /\ B \in Seq(Unit) /\ w \in Seq(Unit) /\ q \in Seq(Kinds) /\ q # <<>>
        /\ B \o w = Sent(c, q)
    BY DEF Stream
  <1> USE <1>1
  <1>2. PICK R : R = TakeBody(P)
    OBVIOUS
  <1>3. PICK s : s = Sent(c, q)
    OBVIOUS
  <1>4. PICK b : b = BodyUnits(c, r)
    OBVIOUS
  <1>5. r \in Kinds /\ r.body \in Nat /\ r.cl = r.body
    <2>1. r \in Kinds
      BY HeadTailProperties
    <2> QED
      BY <2>1, KindsAssumption DEF Honest
  <1>6. Len(B) \in Nat
    BY LenProperties
  <1>7. /\ b = Repeat(<<"data", c>>, r.body) /\ Len(b) = r.body
        /\ \A i \in 1..r.body : b[i] = <<"data", c>>
    <2>1. <<"data", c>> \in Unit
      BY DEF Unit
    <2>2. b = Repeat(<<"data", c>>, r.body)
      BY <1>4, <1>5, BodyUnitsIs
    <2> QED
      BY <1>5, <2>1, <2>2, RepeatIs
  <1>8. /\ Len(s) > 5 + Len(b) => s[5 + Len(b) + 1][1] = "line"
        /\ \A i \in 1..Len(b) : s[5 + i] = b[i]
    BY <1>3, <1>4, SentStarts
  <1>9. \A i \in 1..Len(B) : s[i] = B[i]
    <2>1. s = B \o w
      BY <1>3
    <2> QED
      BY <2>1, Joined
  <1>10. Len(s) >= Len(B) /\ Len(s) \in Nat
    <2>1. s = B \o w
      BY <1>3
    <2>2. Len(s) = Len(B) + Len(w) /\ Len(w) \in Nat
      BY <2>1, Joined
    <2> QED
      BY <1>6, <2>2
  <1>11. P.pos = 5 /\ P.expected = r.cl
    BY HeadedIs
  <1> DEFINE end == 5 + r.cl
  <1>12. CASE Len(B) < end
    <2>1. R = P
      BY <1>2, <1>11, <1>12 DEF TakeBody
    <2>2. HasHead(P, r) /\ P.last = 0 /\ P.acc = <<>> /\ P.state = "body"
      BY HeadedWaits, HeadedIs
    <2>3. AtBody(c, P, Fresh, w, q)
      BY <1>12, <2>2, Zenon DEF AtBody
    <2>4. Parsing(c, R, Fresh, w, l, q) /\ R.buffer \in Seq(Unit)
      BY <2>1, <2>2, <2>3, Zenon DEF Parsing
    <2> QED
      BY <1>2, <2>4, FedIs, Zenon
  <1>13. CASE ~(Len(B) < end)
    <2>1. ~(Len(B) > end /\ B[end + 1][1] = "data")
      <3>1. SUFFICES ASSUME Len(B) > end PROVE B[end + 1][1] # "data"
        OBVIOUS
      <3>2. end + 1 \in 1..Len(B) /\ Len(s) > 5 + Len(b) /\ end + 1 = 5 + Len(b) + 1
        BY <1>5, <1>6, <1>7, <1>10, <3>1
      <3> QED
        BY <1>8, <1>9, <3>2
    <2>2. PICK t : t = SubSeq(B, 6, end)
      OBVIOUS
    <2>3. R = Taken(P, t, end, "complete")
      BY <1>2, <1>11, <1>13, <2>1, <2>2 DEF TakeBody, Taken
    <2>4. t = b
      <3>1. /\ t \in Seq(Unit) /\ Len(t) = IF 6 <= end THEN end - 6 + 1 ELSE 0
            /\ \A i \in 1..(end - 6 + 1) : t[i] = B[6 + i - 1]
        <4>1. 6 \in Int /\ end \in Int /\ \A i \in 6..end : B[i] \in Unit
          BY <1>5, <1>6, <1>13, ElementOfSeq
        <4> QED
          BY <2>2, <4>1, SubSeqProperties
      <3>2. Len(t) = Len(b)
        BY <1>5, <1>7, <3>1
      <3>3. ASSUME NEW i \in 1..Len(t) PROVE t[i] = b[i]
        <4>0. i \in Nat /\ 1 <= i /\ i <= r.cl /\ end <= Len(B)
          BY <1>5, <1>6, <1>7, <1>13, <3>2
        <4>1. i \in 1..(end - 6 + 1) /\ i \in 1..Len(b) /\ 6 + i - 1 = 5 + i /\ 5 + i \in 1..Len(B)
          BY <1>5, <1>6, <1>7, <4>0
        <4>2. t[i] = B[5 + i]
          BY <3>1, <4>1
        <4>3. B[5 + i] = b[i]
          BY <1>8, <1>9, <4>1
        <4> QED
          BY <4>2, <4>3
      <3>4. b \in Seq(Unit)
        BY <1>4, <1>5, BodyUnitsIs
      <3> QED
        BY <3>1, <3>2, <3>3, <3>4, SeqEqual
    <2>5. Payload(c, r) = b
      BY <1>7 DEF Payload
    <2>6. /\ R.state = "complete" /\ R.pos = end /\ R.line = r /\ R.head = r /\ R.body = b
          /\ R.error = 0 /\ R.buffer = P.buffer
          /\ R.keep = (r.connection # "close")
      <3> HIDE DEF end
      <3>1. R = Taken(P, b, end, "complete")
        BY <2>3, <2>4, Zenon
      <3>2. Holds(R, r, P.buffer, b, end, "complete")
        <4>1. \A d, i, st : Holds(Taken(P, d, i, st), r, P.buffer, d, i, st)
          BY HeadedIs
        <4> QED
          BY <3>1, <4>1, Zenon
      <3> QED
        BY <3>2, Zenon DEF Holds
    <2>7. /\ end = 5 + (IF r.method = "POST" THEN r.body ELSE 0) /\ end <= Len(B)
          /\ end \in Nat /\ ~ChunkedPost(r)
      BY <1>5, <1>6, <1>13 DEF ChunkedPost
    <2>8. R.body = IF r.method = "POST" THEN Payload(c, r) ELSE <<>>
      BY <2>5, <2>6
    <2>9. R.buffer = B
      BY <2>6
    <2> HIDE DEF end
    <2>10. Complete(c, R, Fresh, w, q)
      BY <2>6, <2>7, <2>8, <2>9, Completes, Zenon
    <2>11. Parsing(c, R, Fresh, w, l, q) /\ R.buffer \in Seq(Unit)
      BY <2>6, <2>9, <2>10, Zenon DEF Parsing
    <2> QED
      BY <1>2, <2>11, FedIs, Zenon
  <1> QED
    BY <1>12, <1>13

-----------------------------------------------------------------------------
(* The chunks of a body: what comes from the n-th on, what the first n have *)
(* carried.                                                                 *)
LEMMA FlattenUpto ==
  ASSUME NEW S, NEW s \in Seq(Seq(S)), NEW n \in Nat, n < Len(s)
  PROVE  FlattenSeq(SubSeq(s, 1, n + 1)) = FlattenSeq(SubSeq(s, 1, n)) \o s[n + 1]
  <1>1. PICK a : a = SubSeq(s, 1, n)
    OBVIOUS
  <1>2. Len(s) \in Nat /\ n \in 0..Len(s)
    BY LenProperties
  <1>3. a \in Seq(Seq(S)) /\ s[n + 1] \in Seq(S)
    <2>1. n + 1 \in 1..Len(s)
      BY <1>2
    <2> QED
      BY <1>1, <1>2, <2>1, UptoIs, ElementOfSeq
  <1>4. SubSeq(s, 1, n + 1) = a \o <<s[n + 1]>>
    <2>1. 1 \in 1..Len(s) /\ n + 1 \in 1..Len(s) /\ (n + 1) - 1 = n
      BY <1>2
    <2>2. SubSeq(s, 1, n + 1) = SubSeq(s, 1, (n + 1) - 1) \o <<s[n + 1]>>
      BY <2>1, SubSeqRecursiveSecond
    <2> QED
      BY <1>1, <2>1, <2>2
  <1>5. PICK x : x = s[n + 1]
    OBVIOUS
  <1>6. a \o <<x>> = Append(a, x)
    <2>1. a \in Seq(Seq(S)) /\ x \in Seq(S)
      BY <1>3, <1>5
    <2> QED
      BY <2>1, AppendIsConcat
  <1>7. FlattenSeq(Append(a, x)) = FlattenSeq(a) \o x
    BY <1>3, <1>5, FlattenAppend
  <1> QED
    BY <1>1, <1>4, <1>5, <1>6, <1>7

LEMMA FlattenFrom ==
  ASSUME NEW S, NEW s \in Seq(Seq(S)), NEW n \in 1..Len(s)
  PROVE  /\ FlattenSeq(SubSeq(s, n, Len(s))) = s[n] \o FlattenSeq(SubSeq(s, n + 1, Len(s)))
         /\ s[n] \in Seq(S) /\ FlattenSeq(SubSeq(s, n + 1, Len(s))) \in Seq(S)
  <1>1. PICK b : b = SubSeq(s, n + 1, Len(s))
    OBVIOUS
  <1>2. Len(s) \in Nat /\ n \in 0..Len(s)
    BY LenProperties
  <1>3. b \in Seq(Seq(S)) /\ s[n] \in Seq(S)
    BY <1>1, <1>2, AfterIs, ElementOfSeq DEF After
  <1>4. PICK x : x = s[n]
    OBVIOUS
  <1>5. PICK a : a = SubSeq(s, n, Len(s))
    OBVIOUS
  <1>6. a = <<x>> \o b
    <2>1. Len(s) \in n..Len(s)
      BY <1>2
    <2> QED
      BY <1>1, <1>4, <1>5, <2>1, SubSeqRecursiveFirst
  <1>7. a \in Seq(Seq(S)) /\ a # <<>> /\ Head(a) = x /\ Tail(a) = b
    <2>1. x \in Seq(S) /\ b \in Seq(Seq(S))
      BY <1>3, <1>4
    <2> QED
      BY <1>6, <2>1
  <1>8. FlattenSeq(a) = x \o FlattenSeq(b)
    BY <1>7, FlattenFirst
  <1> QED
    BY <1>1, <1>3, <1>4, <1>5, <1>8, FlattenIsSeq

LEMMA CarriedIs ==
  ASSUME NEW c \in Conns, NEW r \in Kinds, NEW n \in 0..Len(r.chunks)
  PROVE  /\ CarriedBy(c, r, n) \in Seq(Unit)
         /\ n = 0 => CarriedBy(c, r, n) = <<>>
         /\ n = Len(r.chunks) => CarriedBy(c, r, n) = FlattenSeq(Carried(c, r))
         /\ n < Len(r.chunks) =>
               CarriedBy(c, r, n + 1) = CarriedBy(c, r, n) \o Repeat(<<"data", c>>, r.chunks[n + 1])
  <1>1. PICK s : s = Carried(c, r)
    OBVIOUS
  <1>2. /\ s \in Seq(Seq(Unit)) /\ Len(s) = Len(r.chunks) /\ Len(s) \in Nat
        /\ \A i \in 1..Len(s) : s[i] = Repeat(<<"data", c>>, r.chunks[i])
    BY <1>1, ListedIsSeq
  <1>3. \A i : CarriedBy(c, r, i) = FlattenSeq(SubSeq(s, 1, i))
    BY <1>1 DEF CarriedBy
  <1>4. SubSeq(s, 1, n) \in Seq(Seq(Unit))
    BY <1>2, UptoIs
  <1>5. CarriedBy(c, r, n) \in Seq(Unit)
    BY <1>3, <1>4, FlattenIsSeq
  <1>6. ASSUME n = 0 PROVE CarriedBy(c, r, n) = <<>>
    <2>1. SubSeq(s, 1, 0) = <<>>
      BY SubSeqEmpty
    <2>2. FlattenSeq(SubSeq(s, 1, 0)) = <<>>
      BY <2>1, FlattenNone
    <2> QED
      BY <1>3, <1>6, <2>2
  <1>7. ASSUME n = Len(s) PROVE CarriedBy(c, r, n) = FlattenSeq(s)
    BY <1>2, <1>3, <1>7, SubSeqFull
  <1>8. ASSUME n < Len(s)
        PROVE  CarriedBy(c, r, n + 1) = CarriedBy(c, r, n) \o Repeat(<<"data", c>>, r.chunks[n + 1])
    <2>1. s[n + 1] = Repeat(<<"data", c>>, r.chunks[n + 1])
      <3>1. n + 1 \in 1..Len(s)
        BY <1>2, <1>8
      <3> QED
        BY <1>2, <3>1
    <2>2. FlattenSeq(SubSeq(s, 1, n + 1)) = FlattenSeq(SubSeq(s, 1, n)) \o s[n + 1]
      <3>1. s \in Seq(Seq(Unit)) /\ n \in Nat
        BY <1>2
      <3> QED
        BY <1>8, <3>1, FlattenUpto
    <2> QED
      BY <1>3, <2>1, <2>2
  <1> QED
    BY <1>1, <1>2, <1>5, <1>6, <1>7, <1>8

LEMMA ChunksFromIs ==
  ASSUME NEW c \in Conns, NEW r \in Kinds, NEW m \in Nat \ {0}, m <= Len(r.chunks) + 1
  PROVE  /\ ChunksFrom(c, r, m) \in Seq(Unit)
         /\ m > Len(r.chunks) => ChunksFrom(c, r, m) = ChunkUnits(c, 0, "lower")
         /\ m <= Len(r.chunks) =>
               /\ ChunksFrom(c, r, m + 1) \in Seq(Unit)
               /\ ChunksFrom(c, r, m) =
                     ChunkUnits(c, r.chunks[m], r.digits) \o ChunksFrom(c, r, m + 1)
  <1>1. PICK s : s = Listed(c, r)
    OBVIOUS
  <1>2. /\ s \in Seq(Seq(Unit)) /\ Len(s) = Len(r.chunks) /\ Len(s) \in Nat
        /\ \A i \in 1..Len(s) : s[i] = ChunkUnits(c, r.chunks[i], r.digits)
    BY <1>1, ListedIsSeq
  <1>3. PICK z : z = ChunkUnits(c, 0, "lower")
    OBVIOUS
  <1>4. z \in Seq(Unit)
    <2>1. "lower" \in {x.digits : x \in Kinds} \cup {"lower"} /\ 0 \in Nat
      OBVIOUS
    <2> QED
      BY <1>3, <2>1, ChunkUnitsIs
  <1>5. \A i : ChunksFrom(c, r, i) = FlattenSeq(SubSeq(s, i, Len(s))) \o z
    BY <1>1, <1>2, <1>3 DEF ChunksFrom
  <1>6. CASE m > Len(s)
    <2>1. SubSeq(s, m, Len(s)) = <<>>
      BY <1>2, <1>6, SubSeqEmpty
    <2>2. ChunksFrom(c, r, m) = z
      <3>1. FlattenSeq(SubSeq(s, m, Len(s))) = <<>>
        BY <2>1, FlattenNone
      <3> QED
        BY <1>4, <1>5, <3>1, ConcatEmptySeq
    <2> QED
      BY <1>2, <1>3, <1>4, <1>6, <2>2
  <1>7. CASE m <= Len(s)
    <2>1. m \in 1..Len(s)
      BY <1>2, <1>7
    <2>2. PICK f : f = FlattenSeq(SubSeq(s, m + 1, Len(s)))
      OBVIOUS
    <2>3. FlattenSeq(SubSeq(s, m, Len(s))) = s[m] \o f /\ s[m] \in Seq(Unit) /\ f \in Seq(Unit)
      BY <1>2, <2>1, <2>2, FlattenFrom
    <2>4. ChunksFrom(c, r, m) = (s[m] \o f) \o z /\ ChunksFrom(c, r, m + 1) = f \o z
      BY <1>5, <2>2, <2>3
    <2>5. (s[m] \o f) \o z = s[m] \o (f \o z)
      <3>1. PICK y : y = s[m]
        OBVIOUS
      <3>2. y \in Seq(Unit) /\ f \in Seq(Unit) /\ z \in Seq(Unit)
        BY <1>4, <2>3, <3>1
      <3>3. (y \o f) \o z = y \o (f \o z)
        BY <3>2, ConcatAssociative
      <3> QED
        BY <3>1, <3>3
    <2>6. f \o z \in Seq(Unit)
      BY <1>4, <2>3, ConcatProperties
    <2>7. s[m] \o (f \o z) \in Seq(Unit)
      BY <2>3, <2>6, ConcatProperties
    <2>8. s[m] = ChunkUnits(c, r.chunks[m], r.digits)
      BY <1>2, <2>1
    <2>9. ChunksFrom(c, r, m) = ChunkUnits(c, r.chunks[m], r.digits) \o ChunksFrom(c, r, m + 1)
      BY <2>4, <2>5, <2>8, Zenon
    <2>10. ChunksFrom(c, r, m) \in Seq(Unit) /\ ChunksFrom(c, r, m + 1) \in Seq(Unit)
      BY <2>4, <2>5, <2>6, <2>7, Zenon
    <2>11. ~(m > Len(r.chunks))
      BY <1>2, <1>7
    <2> QED
      BY <2>9, <2>10, <2>11
  <1> QED
    BY <1>2, <1>6, <1>7

-----------------------------------------------------------------------------
(* The decoder on the chunks of an honest client. *)
ChunkState(S) ==
    [buf : Seq(S), reading : BOOLEAN, size : Sizes, stop : BOOLEAN,
     body : Seq(S), done : BOOLEAN]

(* The size that the i-th size line says. *)
Due(r, i) == IF i <= Len(r.chunks) THEN r.chunks[i] ELSE 0

Sized(F) ==
    /\ F \in Seq(Unit) /\ Len(F) \in Nat /\ Len(F) >= 3 /\ F[1] # Crlf /\ F[2] = Crlf
    /\ F[1][1] = "size" /\ F[1][3] # "upper"

LEMMA LoadIs ==
  ASSUME NEW c \in Conns, NEW n \in Nat
  PROVE  /\ Load(c, n) \in Seq(Unit) /\ Len(Load(c, n)) = n + 1
         /\ Repeat(<<"data", c>>, n) \in Seq(Unit) /\ Len(Repeat(<<"data", c>>, n)) = n
         /\ \A i \in 1..n : Load(c, n)[i] = Repeat(<<"data", c>>, n)[i]
  <1>1. <<"data", c>> \in Unit /\ Crlf \in Unit
    BY DEF Unit
  <1>2. PICK a : a = Repeat(<<"data", c>>, n)
    OBVIOUS
  <1>3. a \in Seq(Unit) /\ Len(a) = n
    BY <1>1, <1>2, RepeatIs
  <1>4. PICK t : t = a \o <<Crlf>>
    OBVIOUS
  <1>5. <<Crlf>> \in Seq(Unit) /\ Len(<<Crlf>>) = 1
    BY <1>1
  <1>6. t \in Seq(Unit) /\ Len(t) = n + 1 /\ \A i \in 1..n : t[i] = a[i]
    BY <1>3, <1>4, <1>5, Joined
  <1> QED
    BY <1>2, <1>3, <1>4, <1>6 DEF Load

LEMMA AfterSize ==
  ASSUME NEW c \in Conns, NEW n \in Nat, NEW d
  PROVE  \A b \in Seq(Unit) : ChunkUnits(c, n, d) \in Seq(Unit)
                              => After(ChunkUnits(c, n, d) \o b, 2) = Load(c, n) \o b
  <1> SUFFICES ASSUME NEW b \in Seq(Unit), ChunkUnits(c, n, d) \in Seq(Unit)
               PROVE  After(ChunkUnits(c, n, d) \o b, 2) = Load(c, n) \o b
    OBVIOUS
  <1>1. PICK a : a = <<<<"size", n, d>>, Crlf>>
    OBVIOUS
  <1>2. PICK p : p = Repeat(<<"data", c>>, n)
    OBVIOUS
  <1>3. PICK e : e = <<Crlf>>
    OBVIOUS
  <1> DEFINE S == Unit \cup {<<"size", n, d>>}
  <1>4. a \in Seq(S) /\ Len(a) = 2 /\ e \in Seq(S)
    <2>1. <<"size", n, d>> \in S /\ Crlf \in S
      BY Tags
    <2> QED
      BY <1>1, <1>3, <2>1
  <1>5. p \in Seq(Unit) /\ b \in Seq(Unit)
    BY <1>2, LoadIs
  <1>6. p \in Seq(S) /\ b \in Seq(S)
    BY <1>5
  <1> HIDE DEF S
  <1>7. (a \o p) \o e = a \o (p \o e)
    <2>1. a \in Seq(S) /\ e \in Seq(S)
      BY <1>4
    <2> QED
      BY <1>6, <2>1, ConcatAssociative
  <1>8. PICK v : v = p \o e
    OBVIOUS
  <1>9. v \in Seq(S)
    BY <1>4, <1>6, <1>8, ConcatProperties
  <1>10. (a \o v) \o b = a \o (v \o b)
    <2>1. a \in Seq(S)
      BY <1>4
    <2> QED
      BY <1>6, <1>9, <2>1, ConcatAssociative
  <1>11. PICK y : y = v \o b
    OBVIOUS
  <1>12. y \in Seq(S)
    BY <1>6, <1>9, <1>11, ConcatProperties
  <1>13. After(a \o y, Len(a)) = y
    <2>1. a \in Seq(S)
      BY <1>4
    <2>2. PICK t : t = a \o y
      OBVIOUS
    <2>3. After(t, Len(a)) = y
      BY <1>12, <2>1, <2>2, AfterAll
    <2> QED
      BY <2>2, <2>3
  <1>14. ChunkUnits(c, n, d) = a \o v
    BY <1>1, <1>2, <1>3, <1>7, <1>8 DEF ChunkUnits
  <1>15. ChunkUnits(c, n, d) \o b = a \o y
    BY <1>10, <1>11, <1>14
  <1>16. y = Load(c, n) \o b
    BY <1>2, <1>3, <1>8, <1>11 DEF Load
  <1> QED
    BY <1>4, <1>13, <1>15, <1>16

LEMMA SizeLine ==
  ASSUME Honest, NEW c \in Conns, NEW r \in Kinds, ChunkedPost(r),
         NEW i \in Nat \ {0}, i <= Len(r.chunks) + 1
  PROVE  /\ Sized(ChunksFrom(c, r, i)) /\ ChunksFrom(c, r, i)[1][2] = Due(r, i)
         /\ i > Len(r.chunks) =>
               Due(r, i) = 0 /\ Len(ChunksFrom(c, r, i)) = 3 /\ ChunksFrom(c, r, i)[3] = Crlf
         /\ i <= Len(r.chunks) =>
               /\ Due(r, i) \in Nat /\ Due(r, i) > 0 /\ Due(r, i) = r.chunks[i]
               /\ After(ChunksFrom(c, r, i), 2) = Load(c, r.chunks[i]) \o ChunksFrom(c, r, i + 1)
  <1>1. /\ r.digits # "upper" /\ \A k \in 1..Len(r.chunks) : r.chunks[k] > 0
    BY DEF Honest, ChunkedPost
  <1>2. Len(r.chunks) \in Nat /\ \A k \in 1..Len(r.chunks) : r.chunks[k] \in Nat
    BY ListedIsSeq
  <1>3. PICK F : F = ChunksFrom(c, r, i)
    OBVIOUS
  <1>4. PICK m : m = Due(r, i)
    OBVIOUS
  <1>5. CASE i > Len(r.chunks)
    <2>1. PICK z : z = ChunkUnits(c, 0, "lower")
      OBVIOUS
    <2>2. F = z
      BY <1>3, <1>5, <2>1, ChunksFromIs
    <2>3. m = 0
      BY <1>2, <1>4, <1>5 DEF Due
    <2>4. /\ z \in Seq(Unit) /\ Len(z) = 0 + 3 /\ z[1] = <<"size", 0, "lower">>
          /\ z[2] = Crlf /\ z[0 + 3] = Crlf
      <3>1. "lower" \in {x.digits : x \in Kinds} \cup {"lower"} /\ 0 \in Nat
        OBVIOUS
      <3> QED
        BY <2>1, <3>1, ChunkUnitsIs
    <2>5. z[3] = Crlf /\ Len(z) = 3
      BY <2>4
    <2>6. ~(i <= Len(r.chunks))
      BY <1>2, <1>5
    <2> QED
      BY <1>3, <1>4, <2>2, <2>3, <2>4, <2>5, <2>6, Tags DEF Sized
  <1>6. CASE i <= Len(r.chunks)
    <2>1. PICK z : z = ChunkUnits(c, m, r.digits)
      OBVIOUS
    <2>2. PICK G : G = ChunksFrom(c, r, i + 1)
      OBVIOUS
    <2>3. i \in 1..Len(r.chunks) /\ m = r.chunks[i]
      BY <1>2, <1>4, <1>6 DEF Due
    <2>4. m \in Nat /\ m > 0
      BY <1>1, <1>2, <2>3
    <2>5. F = z \o G /\ G \in Seq(Unit)
      BY <1>3, <1>6, <2>1, <2>2, <2>3, ChunksFromIs
    <2>6. /\ z \in Seq(Unit) /\ Len(z) = m + 3 /\ z[1] = <<"size", m, r.digits>>
          /\ z[2] = Crlf
      <3>1. r.digits \in {x.digits : x \in Kinds} \cup {"lower"}
        OBVIOUS
      <3> QED
        BY <2>1, <2>4, <3>1, ChunkUnitsIs
    <2>7. /\ F \in Seq(Unit) /\ Len(F) = Len(z) + Len(G) /\ Len(G) \in Nat
          /\ \A k \in 1..Len(z) : F[k] = z[k]
      <3>1. z \in Seq(Unit) /\ G \in Seq(Unit)
        BY <2>5, <2>6
      <3>2. PICK t : t = z \o G
        OBVIOUS
      <3>3. /\ t \in Seq(Unit) /\ Len(t) = Len(z) + Len(G) /\ Len(G) \in Nat
            /\ \A k \in 1..Len(z) : t[k] = z[k]
        BY <3>1, <3>2, Joined
      <3>4. F = t
        BY <2>5, <3>2
      <3> QED
        BY <3>3, <3>4
    <2>8. 1 \in 1..Len(z) /\ 2 \in 1..Len(z) /\ Len(F) >= 3 /\ Len(F) \in Nat
      BY <2>4, <2>6, <2>7
    <2>9. F[1] = <<"size", m, r.digits>> /\ F[2] = Crlf
      BY <2>6, <2>7, <2>8
    <2>10. After(F, 2) = Load(c, m) \o G
      <3>1. \A b \in Seq(Unit) : ChunkUnits(c, m, r.digits) \in Seq(Unit)
               => After(ChunkUnits(c, m, r.digits) \o b, 2) = Load(c, m) \o b
        BY <2>4, AfterSize
      <3>2. ChunkUnits(c, m, r.digits) \in Seq(Unit) /\ G \in Seq(Unit)
        BY <2>1, <2>5, <2>6
      <3>3. F = ChunkUnits(c, m, r.digits) \o G
        BY <2>1, <2>5
      <3> QED
        BY <3>1, <3>2, <3>3, Zenon
    <2>11. ~(i > Len(r.chunks))
      BY <1>2, <1>6
    <2>12. F[1] # Crlf /\ F[1][1] = "size" /\ F[1][2] = m /\ F[1][3] # "upper"
      BY <1>1, <2>9, Tags
    <2>13. Sized(F)
      BY <2>7, <2>8, <2>9, <2>12 DEF Sized
    <2> QED
      BY <1>3, <1>4, <2>2, <2>3, <2>4, <2>10, <2>11, <2>12, <2>13
  <1> QED
    BY <1>2, <1>5, <1>6

LEMMA ReadSize ==
  ASSUME NEW b \in Seq(Unit), NEW w \in Seq(Unit), Sized(b \o w)
  PROVE  \/ FindCrlf(b, 1) = 0 /\ w # <<>>
         \/ /\ FindCrlf(b, 1) = 2 /\ 2 <= Len(b)
            /\ HexToDec(Before(b, 2)) = (b \o w)[1][2]
            /\ After(b, 2) \in Seq(Unit) /\ After(b, 2) \o w = After(b \o w, 2)
  <1>7. PICK k : k = FindCrlf(b, 1)
    OBVIOUS
  <1>8. PICK F : F = b \o w
    OBVIOUS
  <1>0. /\ F \in Seq(Unit) /\ Len(F) >= 3 /\ F[1] # Crlf /\ F[2] = Crlf
        /\ F[1][1] = "size" /\ F[1][3] # "upper"
    BY <1>8, Zenon DEF Sized
  <1>1. Len(b) \in Nat /\ Len(F) \in Nat
    BY <1>0, LenProperties
  <1>2. \A i \in 1..Len(b) : F[i] = b[i]
    BY <1>8, Joined
  <1>3. \/ k = 0 /\ \A j \in 1..Len(b) : b[j] # Crlf
        \/ k \in 1..Len(b) /\ b[k] = Crlf /\ \A j \in 1..(k - 1) : b[j] # Crlf
    BY <1>7, <1>1, FindCrlfIs
  <1>4. CASE k = 0
    <2>1. CASE w = <<>>
      <3>1. b = F
        BY <1>8, <2>1, ConcatEmptySeq
      <3>2. 2 \in 1..Len(b)
        BY <1>0, <1>1, <3>1
      <3>3. b[2] # Crlf
        BY <1>3, <1>4, <3>2
      <3> QED
        BY <1>0, <3>1, <3>3
    <2> QED
      BY <1>4, <1>7, <2>1
  <1>5. CASE k # 0
    <2>1. k \in 1..Len(b) /\ b[k] = Crlf /\ \A j \in 1..(k - 1) : b[j] # Crlf
      BY <1>3, <1>5
    <2>2. k # 1
      <3>1. 1 \in 1..Len(b)
        BY <1>1, <2>1
      <3>2. b[1] # Crlf
        BY <1>0, <1>2, <3>1
      <3> QED
        BY <2>1, <3>2
    <2>3. ASSUME k > 2 PROVE FALSE
      <3>1. 2 \in 1..(k - 1) /\ 2 \in 1..Len(b)
        BY <1>1, <2>1, <2>3
      <3>2. b[2] = Crlf
        BY <1>0, <1>2, <3>1
      <3> QED
        BY <2>1, <3>1, <3>2
    <2>4. k = 2 /\ 2 <= Len(b)
      BY <1>1, <2>1, <2>2, <2>3
    <2>5. HexToDec(Before(b, 2)) = F[1][2]
      <3>1. PICK h : h = SubSeq(b, 1, 1)
        OBVIOUS
      <3>2. 1 \in 0..Len(b) /\ 1 \in 1..1 /\ 1 \in 1..Len(b)
        BY <1>1, <2>4
      <3>3. Len(h) = 1 /\ h[1] = b[1]
        BY <3>1, <3>2, UptoIs
      <3>4. h[1] = F[1]
        BY <1>2, <3>2, <3>3
      <3>5. HexToDec(h) = h[1][2]
        BY <1>0, <3>3, <3>4 DEF HexToDec
      <3>6. Before(b, 2) = h
        BY <3>1 DEF Before
      <3> QED
        BY <3>4, <3>5, <3>6
    <2>6. 2 \in 0..Len(b)
      BY <1>1, <2>4
    <2>7. After(b, 2) \in Seq(Unit)
      BY <2>6, AfterIs
    <2>8. After(b, 2) \o w = After(b \o w, 2)
      <3>1. IsText(b) /\ IsText(w)
        BY DEF IsText
      <3> QED
        BY <2>6, <3>1, AfterJoined
    <2> QED
      BY <1>7, <1>8, <2>4, <2>5, <2>7, <2>8
  <1> QED
    BY <1>7, <1>4, <1>5

(* The decoder after a turn that finds too little, and after the last.      *)
LEMMA TooLittle ==
  ASSUME NEW S, NEW x \in ChunkState(S), NEW y, y = [x EXCEPT !.stop = TRUE]
  PROVE  /\ y \in ChunkState(S) /\ y.buf = x.buf /\ y.size = x.size /\ y.body = x.body
         /\ y.stop /\ (y.reading <=> x.reading) /\ (y.done <=> x.done)
  BY DEF ChunkState

LEMMA LastRead ==
  ASSUME NEW S, NEW p \in Seq(S),
         NEW y, y = [buf |-> <<>>, reading |-> TRUE, size |-> 0, stop |-> TRUE,
                     body |-> p, done |-> TRUE]
  PROVE  /\ y \in ChunkState(S) /\ y.buf = <<>> /\ y.size = 0 /\ y.body = p
         /\ y.stop /\ y.reading /\ y.done
  BY DEF ChunkState, Sizes

(* After the last chunk there is a CRLF, which may come late. *)
LEMMA LastCrlf ==
  ASSUME NEW t \in Seq(Unit), NEW w \in Seq(Unit), Len(t \o w) = 1, (t \o w)[1] = Crlf
  PROVE  /\ w = <<>> \/ w = t \o w
         /\ (IF FindCrlf(t, 1) = 0 THEN t ELSE After(t, FindCrlf(t, 1))) = <<>>
  <1>1. PICK s : s = t \o w
    OBVIOUS
  <1>2. /\ Len(s) = Len(t) + Len(w) /\ Len(t) \in Nat /\ Len(w) \in Nat
        /\ \A i \in 1..Len(t) : s[i] = t[i]
        /\ \A i \in 1..Len(w) : s[Len(t) + i] = w[i]
    BY <1>1, Joined
  <1>3. Len(s) = 1 /\ s[1] = Crlf
    BY <1>1
  <1>4. PICK k : k = FindCrlf(t, 1)
    OBVIOUS
  <1>5. \/ k = 0 /\ \A j \in 1..Len(t) : t[j] # Crlf
        \/ k \in 1..Len(t) /\ t[k] = Crlf
    BY <1>2, <1>4, FindCrlfIs
  <1>6. CASE Len(t) = 0
    <2>1. t = <<>> /\ k = 0
      BY <1>5, <1>6, EmptySeq
    <2>2. w = t \o w
      BY <2>1, ConcatEmptySeq
    <2> QED
      BY <1>4, <2>1, <2>2
  <1>7. CASE Len(t) = 1
    <2>1. w = <<>>
      BY <1>2, <1>3, <1>7, EmptySeq
    <2>2. t[1] = Crlf /\ k = 1
      BY <1>2, <1>3, <1>5, <1>7
    <2>3. PICK v : v = After(t, 1)
      OBVIOUS
    <2>4. v = <<>>
      BY <1>7, <2>3 DEF After
    <2> QED
      BY <1>4, <2>1, <2>2, <2>3, <2>4
  <1> QED
    BY <1>2, <1>3, <1>6, <1>7

Same(s, t) == s = t

LEMMA LoadCut ==
  ASSUME NEW c \in Conns, NEW n \in Nat, NEW b, NEW w, NEW G,
         IsText(b), IsText(w), IsText(G), Same(b \o w, Load(c, n) \o G)
  PROVE  /\ Len(b) < ChunkEnd(n) => w # <<>>
         /\ ~(Len(b) < ChunkEnd(n)) =>
               /\ SubSeq(b, 1, n) = Repeat(<<"data", c>>, n)
               /\ After(b, ChunkEnd(n)) \in Seq(Unit) /\ After(b, ChunkEnd(n)) \o w = G
  <1>0. b \in Seq(Unit) /\ w \in Seq(Unit) /\ G \in Seq(Unit)
    BY DEF IsText
  <1>1. PICK a : a = Load(c, n)
    OBVIOUS
  <1>2. PICK p : p = Repeat(<<"data", c>>, n)
    OBVIOUS
  <1>3. PICK m : m = ChunkEnd(n)
    OBVIOUS
  <1>4. m = n + 1 /\ m \in Nat
    BY <1>3 DEF ChunkEnd
  <1>5. /\ a \in Seq(Unit) /\ Len(a) = m /\ p \in Seq(Unit) /\ Len(p) = n
        /\ \A i \in 1..n : a[i] = p[i]
    BY <1>1, <1>2, <1>4, LoadIs
  <1>6. PICK s : s = b \o w
    OBVIOUS
  <1>7. /\ Len(s) = Len(b) + Len(w) /\ Len(b) \in Nat /\ Len(w) \in Nat
        /\ \A i \in 1..Len(b) : s[i] = b[i]
    BY <1>0, <1>6, Joined
  <1>8. Len(s) = Len(a) + Len(G) /\ Len(G) \in Nat /\ \A i \in 1..Len(a) : s[i] = a[i]
    <2>1. a \in Seq(Unit) /\ G \in Seq(Unit)
      BY <1>0, <1>5
    <2>2. s = a \o G
      BY <1>1, <1>6 DEF Same
    <2> QED
      BY <2>1, <2>2, Joined
  <1>9. ASSUME Len(b) < m PROVE w # <<>>
    BY <1>4, <1>5, <1>7, <1>8, <1>9
  <1>10. ASSUME ~(Len(b) < m)
         PROVE  SubSeq(b, 1, n) = p /\ After(b, m) \in Seq(Unit) /\ After(b, m) \o w = G
    <2>1. n \in 0..Len(b) /\ m \in 0..Len(b)
      BY <1>4, <1>7, <1>10
    <2>2. PICK q : q = SubSeq(b, 1, n)
      OBVIOUS
    <2>3. q \in Seq(Unit) /\ Len(q) = n /\ \A i \in 1..n : q[i] = b[i]
      BY <1>0, <2>1, <2>2, UptoIs
    <2>4. q = p
      <3>1. ASSUME NEW i \in 1..Len(q) PROVE q[i] = p[i]
        <4>1. i \in 1..n /\ i \in 1..Len(b) /\ i \in 1..Len(a)
          BY <1>4, <1>5, <2>1, <2>3
        <4> QED
          BY <1>5, <1>7, <1>8, <2>3, <4>1
      <3> QED
        BY <1>5, <2>3, <3>1, SeqEqual
    <2>5. After(b, m) \in Seq(Unit)
      BY <1>0, <2>1, AfterIs
    <2>6. After(b, m) \o w = After(b \o w, m)
      BY <2>1, AfterJoined
    <2>7. After(s, m) = G
      <3>1. a \in Seq(Unit) /\ G \in Seq(Unit)
        BY <1>0, <1>5
      <3>2. s = a \o G
        BY <1>1, <1>6 DEF Same
      <3>3. After(s, Len(a)) = G
        BY <3>1, <3>2, AfterAll
      <3> QED
        BY <1>5, <3>3
    <2> QED
      BY <1>6, <2>2, <2>4, <2>5, <2>6, <2>7
  <1> QED
    BY <1>2, <1>3, <1>9, <1>10

LEMMA ChunkStep ==
  ASSUME Honest, NEW c \in Conns, NEW r \in Kinds, ChunkedPost(r),
         NEW x \in ChunkState(Unit), ~x.stop, ~x.done,
         NEW w \in Seq(Unit), Decoding(c, r, x, x.body, w),
         NEW y, y = NextChunk(x)
  PROVE  /\ y \in ChunkState(Unit)
         /\ \/ /\ ~y.done /\ Decoding(c, r, y, y.body, w)
               /\ y.stop => w # <<>>
            \/ /\ y.stop /\ y.done /\ y.buf = <<>> /\ y.reading /\ y.size = 0
               /\ y.body = Payload(c, r) /\ w \in {<<>>, <<Crlf>>}
  <1>1. /\ x.buf \in Seq(Unit) /\ x.reading \in BOOLEAN /\ x.size \in Sizes
        /\ x.stop \in BOOLEAN /\ x.body \in Seq(Unit) /\ x.done \in BOOLEAN
    BY DEF ChunkState
  <1>2. PICK i \in 1..(Len(r.chunks) + 1) :
          /\ x.body = CarriedBy(c, r, i - 1)
          /\ IF x.reading THEN x.buf \o w = ChunksFrom(c, r, i)
             ELSE /\ i <= Len(r.chunks) /\ x.size = r.chunks[i]
                  /\ x.buf \o w = Load(c, x.size) \o ChunksFrom(c, r, i + 1)
    BY DEF Decoding
  <1>3. Len(r.chunks) \in Nat /\ \A k \in 1..Len(r.chunks) : r.chunks[k] \in Nat
    BY ListedIsSeq
  <1>4. i \in Nat \ {0} /\ i <= Len(r.chunks) + 1
    BY <1>2, <1>3
  <1>5. /\ Sized(ChunksFrom(c, r, i)) /\ ChunksFrom(c, r, i)[1][2] = Due(r, i)
        /\ i > Len(r.chunks) =>
              Due(r, i) = 0 /\ Len(ChunksFrom(c, r, i)) = 3 /\ ChunksFrom(c, r, i)[3] = Crlf
        /\ i <= Len(r.chunks) =>
              /\ Due(r, i) \in Nat /\ Due(r, i) > 0 /\ Due(r, i) = r.chunks[i]
              /\ After(ChunksFrom(c, r, i), 2) = Load(c, r.chunks[i]) \o ChunksFrom(c, r, i + 1)
    BY <1>4, SizeLine
  <1>6. CASE x.reading
    <2>1. PICK k : k = FindCrlf(x.buf, 1)
      OBVIOUS
    <2>2. PICK t : t = After(x.buf, k)
      OBVIOUS
    <2> DEFINE Out(h) ==
                 IF k = 0 THEN [x EXCEPT !.stop = TRUE]
                 ELSE IF h = 0
                 THEN [buf |-> <<>>, reading |-> TRUE, size |-> 0, stop |-> TRUE,
                       body |-> x.body \o (IF FindCrlf(t, 1) = 0 THEN t
                                           ELSE After(t, FindCrlf(t, 1))),
                       done |-> TRUE]
                 ELSE [x EXCEPT !.buf = t, !.reading = FALSE, !.size = h]
    <2>3. y = Out(HexToDec(Before(x.buf, k)))
      BY <1>6, <2>1, <2>2, Zenon DEF NextChunk
    <2> HIDE DEF Out
    <2>4. x.buf \o w = ChunksFrom(c, r, i)
      BY <1>2, <1>6
    <2>5. \/ k = 0 /\ w # <<>>
          \/ /\ k = 2 /\ HexToDec(Before(x.buf, k)) = Due(r, i)
             /\ t \in Seq(Unit) /\ t \o w = After(ChunksFrom(c, r, i), 2)
      <3>1. PICK b : b = x.buf
        OBVIOUS
      <3>2. b \in Seq(Unit) /\ Sized(b \o w)
        BY <1>1, <1>5, <2>4, <3>1
      <3>3. \/ FindCrlf(b, 1) = 0 /\ w # <<>>
            \/ /\ FindCrlf(b, 1) = 2 /\ 2 <= Len(b)
               /\ HexToDec(Before(b, 2)) = (b \o w)[1][2]
               /\ After(b, 2) \in Seq(Unit) /\ After(b, 2) \o w = After(b \o w, 2)
        BY <3>2, ReadSize
      <3> QED
        BY <1>5, <2>1, <2>2, <2>4, <3>1, <3>3
    <2>6. CASE k = 0
      <3>1. y = [x EXCEPT !.stop = TRUE] /\ w # <<>>
        BY <2>3, <2>5, <2>6 DEF Out
      <3>2. /\ y \in ChunkState(Unit) /\ y.buf = x.buf /\ y.size = x.size /\ y.body = x.body
            /\ y.stop /\ (y.reading <=> x.reading) /\ (y.done <=> x.done)
        BY <3>1, TooLittle
      <3>3. Decoding(c, r, y, y.body, w)
        <4>1. y.buf \in Seq(Unit) /\ y.reading /\ y.buf \o w = ChunksFrom(c, r, i)
              /\ y.body = CarriedBy(c, r, i - 1)
          BY <1>1, <1>2, <1>6, <2>4, <3>2
        <4> QED
          BY <1>2, <4>1, Zenon DEF Decoding
      <3> QED
        BY <3>1, <3>2, <3>3
    <2>7. CASE k = 2
      <3>1. /\ t \in Seq(Unit) /\ t \o w = After(ChunksFrom(c, r, i), 2)
            /\ y = Out(Due(r, i)) /\ k # 0
        BY <2>3, <2>5, <2>7
      <3>2. CASE i > Len(r.chunks)
        <4>1. After(ChunksFrom(c, r, i), 2) = <<Crlf>>
          <5>1. PICK F : F = ChunksFrom(c, r, i)
            OBVIOUS
          <5>2. F \in Seq(Unit) /\ Len(F) = 3 /\ F[3] = Crlf
            BY <1>5, <3>2, <5>1 DEF Sized
          <5>3. PICK e : e = After(F, 2)
            OBVIOUS
          <5>4. 2 \in 0..Len(F)
            BY <5>2
          <5>5. e \in Seq(Unit) /\ Len(e) = Len(F) - 2 /\ \A j \in 1..Len(e) : e[j] = F[2 + j]
            <6>1. F \in Seq(Unit)
              BY <5>2
            <6> QED
              BY <5>3, <5>4, <6>1, AfterIs
          <5>6. e[1] = Crlf /\ Len(e) = 1
            BY <5>2, <5>5
          <5> QED
            BY <5>1, <5>3, <5>5, <5>6
        <4>2. PICK v : v = IF FindCrlf(t, 1) = 0 THEN t ELSE After(t, FindCrlf(t, 1))
          OBVIOUS
        <4>3. v = <<>> /\ w \in {<<>>, <<Crlf>>}
          <5>1. Len(t \o w) = 1 /\ (t \o w)[1] = Crlf
            BY <3>1, <4>1
          <5>2. (w = <<>> \/ w = t \o w) /\ v = <<>>
            BY <3>1, <4>2, <5>1, LastCrlf
          <5> QED
            BY <3>1, <4>1, <5>2
        <4>4. x.body = Payload(c, r)
          <5>1. i - 1 = Len(r.chunks) /\ i - 1 \in 0..Len(r.chunks)
            BY <1>3, <1>4, <3>2
          <5>2. CarriedBy(c, r, i - 1) = FlattenSeq(Carried(c, r))
            BY <5>1, CarriedIs
          <5>3. Payload(c, r) = FlattenSeq(Carried(c, r))
            BY DEF Payload, Carried, ChunkedPost
          <5> QED
            BY <1>2, <5>2, <5>3
        <4>5. x.body \o v = x.body
          BY <1>1, <4>3, ConcatEmptySeq
        <4>6. y = [buf |-> <<>>, reading |-> TRUE, size |-> 0, stop |-> TRUE,
                   body |-> x.body \o v, done |-> TRUE]
          <5>1. Due(r, i) = 0
            BY <1>5, <3>2
          <5> QED
            BY <3>1, <4>2, <5>1, Zenon DEF Out
        <4>7. /\ y \in ChunkState(Unit) /\ y.buf = <<>> /\ y.size = 0 /\ y.body = x.body
              /\ y.stop /\ y.reading /\ y.done
          BY <1>1, <4>5, <4>6, LastRead
        <4> QED
          BY <4>3, <4>4, <4>7
      <3>3. CASE i <= Len(r.chunks)
        <4>1. /\ Due(r, i) \in Nat /\ Due(r, i) > 0 /\ Due(r, i) = r.chunks[i]
              /\ t \o w = Load(c, r.chunks[i]) \o ChunksFrom(c, r, i + 1)
          BY <1>5, <3>1, <3>3
        <4>2. PICK m : m = Due(r, i)
          OBVIOUS
        <4>3. y = [x EXCEPT !.buf = t, !.reading = FALSE, !.size = m]
          BY <3>1, <4>1, <4>2 DEF Out
        <4>4. m \in Sizes
          BY <4>1, <4>2 DEF Sizes
        <4>5. /\ y \in ChunkState(Unit) /\ y.buf = t /\ y.size = m /\ y.body = x.body
              /\ (y.stop <=> x.stop) /\ ~y.reading /\ (y.done <=> x.done)
          BY <3>1, <4>3, <4>4 DEF ChunkState
        <4>6. Decoding(c, r, y, y.body, w)
          <5>1. y.buf \in Seq(Unit) /\ ~y.reading /\ i <= Len(r.chunks)
                /\ y.size = r.chunks[i]
                /\ y.buf \o w = Load(c, y.size) \o ChunksFrom(c, r, i + 1)
                /\ y.body = CarriedBy(c, r, i - 1)
            BY <1>2, <3>1, <3>3, <4>1, <4>2, <4>5
          <5> QED
            BY <1>2, <5>1, Zenon DEF Decoding
        <4> QED
          BY <4>5, <4>6
      <3> QED
        BY <1>3, <1>4, <3>2, <3>3
    <2> QED
      BY <2>5, <2>6, <2>7
  <1>7. CASE ~x.reading
    <2>1. PICK n : n = x.size
      OBVIOUS
    <2>2. PICK G : G = ChunksFrom(c, r, i + 1)
      OBVIOUS
    <2>3. /\ i <= Len(r.chunks) /\ n = r.chunks[i] /\ x.buf \o w = Load(c, n) \o G
      BY <1>2, <1>7, <2>1, <2>2
    <2>4. n \in Nat /\ n # Huge /\ G \in Seq(Unit)
      <3>1. i \in 1..Len(r.chunks)
        BY <1>3, <1>4, <2>3
      <3>2. n \in Nat
        BY <1>3, <2>3, <3>1
      <3>3. G \in Seq(Unit)
        BY <1>4, <2>2, <2>3, ChunksFromIs
      <3> QED
        BY <3>2, <3>3 DEF Huge
    <2>5. y = IF Len(x.buf) < ChunkEnd(n) THEN [x EXCEPT !.stop = TRUE]
              ELSE [x EXCEPT !.body = x.body \o SubSeq(x.buf, 1, n),
                             !.buf = After(x.buf, ChunkEnd(n)), !.reading = TRUE]
      BY <1>7, <2>1, <2>4, Zenon DEF NextChunk
    <2>6. /\ Len(x.buf) < ChunkEnd(n) => w # <<>>
          /\ ~(Len(x.buf) < ChunkEnd(n)) =>
                /\ SubSeq(x.buf, 1, n) = Repeat(<<"data", c>>, n)
                /\ After(x.buf, ChunkEnd(n)) \in Seq(Unit)
                /\ After(x.buf, ChunkEnd(n)) \o w = G
      <3>1. PICK b : b = x.buf
        OBVIOUS
      <3>2. b \in Seq(Unit) /\ n \in Nat /\ G \in Seq(Unit)
        BY <1>1, <2>4, <3>1
      <3>3. Same(b \o w, Load(c, n) \o G)
        BY <2>3, <3>1 DEF Same
      <3>4. /\ Len(b) < ChunkEnd(n) => w # <<>>
            /\ ~(Len(b) < ChunkEnd(n)) =>
                  /\ SubSeq(b, 1, n) = Repeat(<<"data", c>>, n)
                  /\ After(b, ChunkEnd(n)) \in Seq(Unit)
                  /\ After(b, ChunkEnd(n)) \o w = G
        <4>1. IsText(b) /\ IsText(w) /\ IsText(G)
          BY <3>2 DEF IsText
        <4>2. n \in Nat
          BY <2>4
        <4> QED
          BY <3>3, <4>1, <4>2, LoadCut
      <3> QED
        BY <3>1, <3>4
    <2>7. CASE Len(x.buf) < ChunkEnd(n)
      <3>1. y = [x EXCEPT !.stop = TRUE] /\ w # <<>>
        BY <2>5, <2>6, <2>7
      <3>2. /\ y \in ChunkState(Unit) /\ y.buf = x.buf /\ y.size = x.size /\ y.body = x.body
            /\ y.stop /\ (y.reading <=> x.reading) /\ (y.done <=> x.done)
        BY <3>1, TooLittle
      <3>3. Decoding(c, r, y, y.body, w)
        <4>1. y.buf \in Seq(Unit) /\ ~y.reading /\ i <= Len(r.chunks)
              /\ y.size = r.chunks[i]
              /\ y.buf \o w = Load(c, y.size) \o ChunksFrom(c, r, i + 1)
              /\ y.body = CarriedBy(c, r, i - 1)
          BY <1>1, <1>2, <1>7, <2>1, <2>2, <2>3, <3>2
        <4> QED
          BY <1>2, <4>1, Zenon DEF Decoding
      <3> QED
        BY <3>1, <3>2, <3>3
    <2>8. CASE ~(Len(x.buf) < ChunkEnd(n))
      <3>1. PICK t : t = After(x.buf, ChunkEnd(n))
        OBVIOUS
      <3>2. PICK p : p = x.body \o Repeat(<<"data", c>>, n)
        OBVIOUS
      <3>3. t \in Seq(Unit) /\ t \o w = G
        BY <2>6, <2>8, <3>1
      <3>4. y = [x EXCEPT !.body = p, !.buf = t, !.reading = TRUE]
        BY <2>5, <2>6, <2>8, <3>1, <3>2
      <3>5. p = CarriedBy(c, r, i) /\ p \in Seq(Unit)
        <4>1. PICK j : j = i - 1
          OBVIOUS
        <4>2. j \in 0..Len(r.chunks) /\ j < Len(r.chunks) /\ j + 1 = i
              /\ i \in 0..Len(r.chunks)
          BY <1>3, <1>4, <2>3, <4>1
        <4>3. CarriedBy(c, r, j + 1) = CarriedBy(c, r, j) \o Repeat(<<"data", c>>, r.chunks[j + 1])
          BY <4>2, CarriedIs
        <4>4. CarriedBy(c, r, i) \in Seq(Unit)
          BY <4>2, CarriedIs
        <4> QED
          BY <1>2, <2>3, <3>2, <4>1, <4>2, <4>3, <4>4
      <3>6. /\ y \in ChunkState(Unit) /\ y.buf = t /\ y.size = x.size /\ y.body = p
            /\ (y.stop <=> x.stop) /\ y.reading /\ (y.done <=> x.done)
        BY <3>3, <3>4, <3>5 DEF ChunkState
      <3>7. Decoding(c, r, y, y.body, w)
        <4>1. PICK k : k = i + 1
          OBVIOUS
        <4>2. k \in 1..(Len(r.chunks) + 1) /\ k - 1 = i
          BY <1>3, <1>4, <2>3, <4>1
        <4>3. y.buf \in Seq(Unit) /\ y.reading /\ y.buf \o w = ChunksFrom(c, r, k)
              /\ y.body = CarriedBy(c, r, k - 1)
          BY <2>2, <3>3, <3>5, <3>6, <4>1, <4>2
        <4> QED
          BY <4>2, <4>3, Zenon DEF Decoding
      <3> QED
        BY <3>6, <3>7
    <2> QED
      BY <2>7, <2>8
  <1> QED
    BY <1>1, <1>6, <1>7

-----------------------------------------------------------------------------
(* The loop of refactor_data, by its recursive function. *)
AfterTurns(x) ==
    CHOOSE f : f = [n \in 0..Turns(x) |-> IF n = 0 THEN x ELSE Turn(f[n - 1])]

LEMMA TurnsExist ==
  ASSUME NEW x, Turns(x) \in Nat
  PROVE  /\ AfterTurns(x)[0] = x /\ Chunks(x) = AfterTurns(x)[Turns(x)]
         /\ \A n \in Nat : n + 1 <= Turns(x) => AfterTurns(x)[n + 1] = Turn(AfterTurns(x)[n])
  <1>1. PICK N \in Nat : N = Turns(x)
    OBVIOUS
  <1> DEFINE Upto(n) == \E f : f = [i \in 0..n |-> IF i = 0 THEN x ELSE Turn(f[i - 1])]
             H == {n \in Nat : Upto(n)}
  <1>2. 0 \in H
    <2> DEFINE f == [i \in 0..0 |-> x]
    <2>1. f = [i \in 0..0 |-> IF i = 0 THEN x ELSE Turn(f[i - 1])]
      OBVIOUS
    <2> HIDE DEF f
    <2>2. Upto(0)
      BY <2>1
    <2> HIDE DEF Upto
    <2> QED
      BY <2>2
  <1>3. ASSUME NEW n \in H PROVE n + 1 \in H
    <2>1. PICK f : f = [i \in 0..n |-> IF i = 0 THEN x ELSE Turn(f[i - 1])]
      OBVIOUS
    <2> DEFINE g == [i \in 0..(n + 1) |-> IF i = n + 1 THEN Turn(f[n]) ELSE f[i]]
    <2>2. ASSUME NEW i \in 0..(n + 1)
          PROVE  g[i] = IF i = 0 THEN x ELSE Turn(g[i - 1])
      <3>1. CASE i = n + 1
        <4>1. g[i] = Turn(f[n]) /\ i # 0 /\ i - 1 = n /\ g[i - 1] = f[n]
          BY <3>1
        <4> HIDE DEF g
        <4> QED
          BY <4>1
      <3>2. CASE i # n + 1
        <4>1. i \in 0..n /\ (i # 0 => i - 1 \in 0..n)
          BY <3>2
        <4>2. f[i] = IF i = 0 THEN x ELSE Turn(f[i - 1])
          BY <2>1, <4>1
        <4>3. g[i] = f[i] /\ (i # 0 => g[i - 1] = f[i - 1])
          BY <3>2, <4>1
        <4> HIDE DEF g
        <4> QED
          BY <4>2, <4>3
      <3> QED
        BY <3>1, <3>2
    <2>3. g = [i \in 0..(n + 1) |-> IF i = 0 THEN x ELSE Turn(g[i - 1])]
      BY <2>2
    <2> HIDE DEF g
    <2>4. Upto(n + 1)
      BY <2>3
    <2> HIDE DEF Upto
    <2> QED
      BY <2>4
  <1> HIDE DEF Upto
  <1>4. H = Nat
    BY <1>2, <1>3, AllNaturals
  <1>5. Upto(N)
    BY <1>4
  <1>6. PICK f : f = AfterTurns(x)
    OBVIOUS
  <1>7. f = [i \in 0..N |-> IF i = 0 THEN x ELSE Turn(f[i - 1])]
    BY <1>1, <1>5, <1>6 DEF AfterTurns, Upto
  <1>8. \A i \in 0..N : f[i] = IF i = 0 THEN x ELSE Turn(f[i - 1])
    BY <1>7
  <1>9. f[0] = x
    BY <1>8
  <1>10. ASSUME NEW n \in Nat, n + 1 <= N PROVE f[n + 1] = Turn(f[n])
    <2>1. n + 1 \in 0..N /\ n + 1 # 0 /\ (n + 1) - 1 = n
      BY <1>10
    <2> QED
      BY <1>8, <2>1
  <1>11. Chunks(x) = f[N]
    BY <1>1, <1>6 DEF Chunks, AfterTurns
  <1> QED
    BY <1>1, <1>6, <1>9, <1>10, <1>11

(* What holds of the decoder at first, and after each turn, holds when the  *)
(* loop returns.                                                            *)
LEMMA Turned ==
  ASSUME NEW x, Turns(x) \in Nat, NEW G, x \in G, \A y \in G : Turn(y) \in G
  PROVE  Chunks(x) \in G
  <1>1. PICK N \in Nat : N = Turns(x)
    OBVIOUS
  <1>2. PICK f : f = AfterTurns(x)
    OBVIOUS
  <1>3. /\ f[0] = x /\ Chunks(x) = f[N]
        /\ \A n \in Nat : n + 1 <= N => f[n + 1] = Turn(f[n])
    BY <1>1, <1>2, TurnsExist
  <1> DEFINE H == {n \in Nat : n <= N => f[n] \in G}
  <1>4. 0 \in H
    BY <1>3
  <1>5. ASSUME NEW n \in H PROVE n + 1 \in H
    BY <1>3
  <1>6. H = Nat
    BY <1>4, <1>5, AllNaturals
  <1>7. N \in H
    BY <1>6
  <1> QED
    BY <1>3, <1>7

(* What a turn may leave to be done: two turns for each unit of the buffer, *)
(* and one more, or two.                                                    *)
Weight(y) == 2 * Len(y.buf) + IF y.reading THEN 1 ELSE 2

(* Units, what is left of them, and sizes as hex_to_dec reads them. *)
Bytes(S) == <<"junk">> \in S /\ \A u \in S : u[1] = "size" => u[2] \in Nat

LEMMA TurnLess ==
  ASSUME NEW S, Bytes(S), NEW x \in ChunkState(S), NEW y, y = NextChunk(x)
  PROVE  y \in ChunkState(S) /\ (y.stop \/ Weight(y) < Weight(x))
  <1>1. /\ x.buf \in Seq(S) /\ x.reading \in BOOLEAN /\ x.size \in Sizes
        /\ x.stop \in BOOLEAN /\ x.body \in Seq(S) /\ x.done \in BOOLEAN
    BY DEF ChunkState
  <1>2. PICK b : b = x.buf
    OBVIOUS
  <1>3. b \in Seq(S) /\ Len(b) \in Nat
    BY <1>1, <1>2, LenProperties
  <1>4. CASE x.reading
    <2>1. PICK k : k = FindCrlf(b, 1)
      OBVIOUS
    <2>2. PICK t : t = After(b, k)
      OBVIOUS
    <2>3. PICK h : h = HexToDec(Before(b, k))
      OBVIOUS
    <2>4. PICK e : e = IF FindCrlf(t, 1) = 0 THEN t ELSE After(t, FindCrlf(t, 1))
      OBVIOUS
    <2>5. y = IF k = 0 THEN [x EXCEPT !.stop = TRUE]
              ELSE IF h = 0
              THEN [buf |-> <<>>, reading |-> TRUE, size |-> 0, stop |-> TRUE,
                    body |-> x.body \o e, done |-> TRUE]
              ELSE [x EXCEPT !.buf = t, !.reading = FALSE, !.size = h]
      BY <1>2, <1>4, <2>1, <2>2, <2>3, <2>4, Zenon DEF NextChunk
    <2>6. k = 0 \/ k \in 1..Len(b)
      BY <1>3, <2>1, FindCrlfIs
    <2>7. CASE k = 0
      BY <2>5, <2>7, TooLittle
    <2>8. CASE k # 0
      <3>1. k \in 0..Len(b) /\ k \in 1..Len(b)
        BY <1>3, <2>6, <2>8
      <3>2. t \in Seq(S) /\ Len(t) = Len(b) - k
        BY <1>3, <2>2, <3>1, AfterIs
      <3>3. e \in Seq(S)
        <4>1. Len(t) \in Nat
          BY <3>2, LenProperties
        <4>2. PICK m : m = FindCrlf(t, 1)
          OBVIOUS
        <4>3. m = 0 \/ m \in 0..Len(t)
          <5>1. m = 0 \/ m \in 1..Len(t)
            BY <4>1, <4>2, FindCrlfIs
          <5> QED
            BY <4>1, <5>1
        <4>4. m \in 0..Len(t) => After(t, m) \in Seq(S)
          BY <3>2, AfterIs
        <4> QED
          BY <2>4, <3>2, <4>2, <4>3, <4>4
      <3>4. CASE h = 0
        <4>1. x.body \o e \in Seq(S)
          BY <1>1, <3>3, ConcatProperties
        <4>2. y = [buf |-> <<>>, reading |-> TRUE, size |-> 0, stop |-> TRUE,
                   body |-> x.body \o e, done |-> TRUE]
          BY <2>5, <2>8, <3>4
        <4> QED
          BY <4>1, <4>2, LastRead
      <3>5. CASE h # 0
        <4>1. y = [x EXCEPT !.buf = t, !.reading = FALSE, !.size = h]
          BY <2>5, <2>8, <3>5
        <4>2. h \in Sizes
          <5>1. PICK a : a = Before(b, k)
            OBVIOUS
          <5>2. PICK j : j = k - 1
            OBVIOUS
          <5>3. j \in 0..Len(b)
            BY <1>3, <3>1, <5>2
          <5>4. a \in Seq(S) /\ Len(a) = j
            BY <1>3, <5>1, <5>2, <5>3, UptoIs DEF Before
          <5>5. Len(a) = 1 => a[1] \in S
            <6>1. Len(a) = 1 => 1 \in 1..Len(a)
              BY <5>4
            <6> QED
              BY <5>4, <6>1, ElementOfSeq
          <5>6. h = Huge \/ (a[1] \in S /\ a[1][1] = "size" /\ h = a[1][2])
            BY <2>3, <5>1, <5>5 DEF HexToDec
          <5> QED
            BY <5>6 DEF Bytes, Sizes
        <4>3. /\ y \in ChunkState(S) /\ y.buf = t /\ ~y.reading
          BY <3>2, <4>1, <4>2 DEF ChunkState
        <4>4. Weight(y) < Weight(x)
          <5>1. Weight(y) = 2 * Len(t) + 2 /\ Weight(x) = 2 * Len(b) + 1
            BY <1>2, <1>4, <4>3 DEF Weight
          <5> QED
            BY <1>3, <3>1, <3>2, <5>1
        <4> QED
          BY <4>3, <4>4
      <3> QED
        BY <3>4, <3>5
    <2> QED
      BY <2>7, <2>8
  <1>5. ASSUME ~x.reading, NEW t \in Seq(S), NEW p \in Seq(S), Len(t) <= Len(b),
               y = [x EXCEPT !.body = p, !.buf = t, !.reading = TRUE]
        PROVE  y \in ChunkState(S) /\ (y.stop \/ Weight(y) < Weight(x))
    <2>1. y \in ChunkState(S) /\ y.buf = t /\ y.reading
      BY <1>5 DEF ChunkState
    <2>2. Weight(y) = 2 * Len(t) + 1 /\ Weight(x) = 2 * Len(b) + 2 /\ Len(t) \in Nat
      BY <1>2, <1>5, <2>1 DEF Weight
    <2> QED
      BY <1>3, <1>5, <2>1, <2>2
  <1>6. CASE ~x.reading /\ x.size = Huge
    <2>1. PICK t : t = DropByte(b)
      OBVIOUS
    <2>2. PICK p : p = x.body \o b
      OBVIOUS
    <2>3. y = IF b = <<>> THEN [x EXCEPT !.stop = TRUE]
              ELSE [x EXCEPT !.body = p, !.buf = t, !.reading = TRUE]
      BY <1>2, <1>6, <2>1, <2>2, Zenon DEF NextChunk
    <2>4. CASE b = <<>>
      BY <2>3, <2>4, TooLittle
    <2>5. CASE b # <<>>
      <3>1. p \in Seq(S)
        BY <1>1, <1>3, <2>2, ConcatProperties
      <3>2. t \in Seq(S) /\ Len(t) <= Len(b)
        <4>1. 1 \in 0..Len(b)
          BY <1>3, <2>5, EmptySeq
        <4>2. PICK a : a = After(b, 1)
          OBVIOUS
        <4>3. a \in Seq(S) /\ Len(a) = Len(b) - 1
          BY <1>3, <4>1, <4>2, AfterIs
        <4>4. PICK j : j = <<<<"junk">>>>
          OBVIOUS
        <4>5. j \in Seq(S) /\ Len(j) = 1
          BY <4>4 DEF Bytes
        <4>6. PICK v : v = j \o a
          OBVIOUS
        <4>7. v \in Seq(S) /\ Len(v) = 1 + Len(a)
          BY <4>3, <4>5, <4>6, ConcatProperties
        <4>8. t = a \/ t = v
          BY <2>1, <4>2, <4>4, <4>6, Zenon DEF DropByte
        <4> QED
          BY <1>3, <4>3, <4>7, <4>8
      <3> QED
        BY <1>5, <1>6, <2>3, <2>5, <3>1, <3>2
    <2> QED
      BY <2>4, <2>5
  <1>7. CASE ~x.reading /\ x.size # Huge
    <2>1. PICK n : n = x.size
      OBVIOUS
    <2>2. n \in Nat
      BY <1>1, <1>7, <2>1 DEF Sizes
    <2>3. PICK m : m = ChunkEnd(n)
      OBVIOUS
    <2>4. m = n + 1
      BY <2>3 DEF ChunkEnd
    <2>5. PICK t : t = After(b, m)
      OBVIOUS
    <2>6. PICK p : p = x.body \o SubSeq(b, 1, n)
      OBVIOUS
    <2>7. y = IF Len(b) < m THEN [x EXCEPT !.stop = TRUE]
              ELSE [x EXCEPT !.body = p, !.buf = t, !.reading = TRUE]
      BY <1>2, <1>7, <2>1, <2>3, <2>5, <2>6, Zenon DEF NextChunk
    <2>8. CASE Len(b) < m
      BY <2>7, <2>8, TooLittle
    <2>9. CASE ~(Len(b) < m)
      <3>1. m \in 0..Len(b) /\ n \in 0..Len(b)
        BY <1>3, <2>2, <2>4, <2>9
      <3>2. t \in Seq(S) /\ Len(t) = Len(b) - m
        BY <1>3, <2>5, <3>1, AfterIs
      <3>3. SubSeq(b, 1, n) \in Seq(S)
        BY <1>3, <3>1, UptoIs
      <3>4. p \in Seq(S)
        BY <1>1, <2>6, <3>3, ConcatProperties
      <3>5. Len(t) <= Len(b)
        BY <1>3, <3>1, <3>2
      <3> QED
        BY <1>5, <1>7, <2>7, <2>9, <3>2, <3>4, <3>5
    <2> QED
      BY <2>8, <2>9
  <1> QED
    BY <1>1, <1>4, <1>6, <1>7

(* The loop of refactor_data (unchunk.cpp:181) ends: on every buffer, of    *)
(* whatever units it is made, in every state of the static variables, it    *)
(* has come to one of its breaks after two turns for each unit and two      *)
(* more.  Upper-case digits are no exception: the chunk of SIZE_MAX bytes   *)
(* takes the whole buffer as data and leaves it one byte shorter, or as     *)
(* long, but reading a size, for which it then needs a CRLF.                *)
THEOREM ChunksEnd ==
  ASSUME NEW S, Bytes(S), NEW x \in ChunkState(S)
  PROVE  Chunks(x).stop /\ Chunks(x) \in ChunkState(S)
  <1>1. x.buf \in Seq(S) /\ Len(x.buf) \in Nat
    BY LenProperties DEF ChunkState
  <1>2. PICK N : N = Turns(x)
    OBVIOUS
  <1>3. N \in Nat /\ Weight(x) <= N
    BY <1>1, <1>2 DEF Turns, Weight
  <1>4. PICK f : f = AfterTurns(x)
    OBVIOUS
  <1>5. /\ f[0] = x /\ Chunks(x) = f[N]
        /\ \A n \in Nat : n + 1 <= N => f[n + 1] = Turn(f[n])
    BY <1>2, <1>3, <1>4, TurnsExist
  <1> DEFINE H == {n \in Nat : n <= N =>
                      f[n] \in ChunkState(S) /\ (f[n].stop \/ Weight(f[n]) + n <= N)}
  <1>6. ASSUME NEW y \in ChunkState(S) PROVE Weight(y) \in Nat \ {0}
    <2>1. PICK n : n = Len(y.buf)
      OBVIOUS
    <2>2. n \in Nat
      BY <1>6, <2>1, LenProperties DEF ChunkState
    <2>3. Weight(y) = 2 * n + 1 \/ Weight(y) = 2 * n + 2
      BY <2>1 DEF Weight
    <2> QED
      BY <2>2, <2>3
  <1>7. 0 \in H
    BY <1>3, <1>5, <1>6
  <1>8. ASSUME NEW n \in H PROVE n + 1 \in H
    <2>1. SUFFICES ASSUME n + 1 <= N
          PROVE  f[n + 1] \in ChunkState(S)
                 /\ (f[n + 1].stop \/ Weight(f[n + 1]) + (n + 1) <= N)
      OBVIOUS
    <2>2. PICK y : y = f[n]
      OBVIOUS
    <2>3. PICK z : z = f[n + 1]
      OBVIOUS
    <2>4. z = Turn(y) /\ y \in ChunkState(S) /\ (y.stop \/ Weight(y) + n <= N)
      BY <1>3, <1>5, <2>1, <2>2, <2>3
    <2>5. CASE y.stop
      BY <2>3, <2>4, <2>5 DEF Turn
    <2>6. CASE ~y.stop
      <3>1. z = NextChunk(y)
        BY <2>4, <2>6 DEF Turn
      <3>2. z \in ChunkState(S) /\ (z.stop \/ Weight(z) < Weight(y))
        BY <2>4, <3>1, TurnLess
      <3>3. Weight(z) \in Nat /\ Weight(y) \in Nat
        BY <1>6, <2>4, <3>2
      <3> QED
        BY <1>3, <2>3, <2>4, <2>6, <3>2, <3>3
    <2> QED
      BY <2>5, <2>6
  <1>9. H = Nat
    BY <1>7, <1>8, AllNaturals
  <1>10. f[N] \in ChunkState(S) /\ (f[N].stop \/ Weight(f[N]) + N <= N)
    BY <1>3, <1>9
  <1>11. Weight(f[N]) \in Nat \ {0}
    BY <1>6, <1>10
  <1> QED
    BY <1>3, <1>5, <1>10, <1>11

-----------------------------------------------------------------------------
(* The chunks of an honest client: the loop of refactor_data stops for the  *)
(* next unit, or has put out the body.                                      *)
Begins(c, r, x, w) ==
    x \in ChunkState(Unit) /\ ~x.stop /\ ~x.done /\ Decoding(c, r, x, x.body, w)

Decoded(c, r, y, w) ==
    /\ y \in ChunkState(Unit)
    /\ \/ ~y.done /\ Decoding(c, r, y, y.body, w) /\ w # <<>>
       \/ /\ y.done /\ y.buf = <<>> /\ y.reading /\ y.size = 0
          /\ y.body = Payload(c, r) /\ w \in {<<>>, <<Crlf>>}

LEMMA ChunksHonest ==
  ASSUME Honest, NEW c \in Conns, NEW r \in Kinds, ChunkedPost(r),
         NEW w \in Seq(Unit), NEW x, Begins(c, r, x, w)
  PROVE  Decoded(c, r, Chunks(x), w)
  <1> DEFINE Goes(z) == ~z.done /\ Decoding(c, r, z, z.body, w) /\ (z.stop => w # <<>>)
             Ends(z) == /\ z.stop /\ z.done /\ z.buf = <<>> /\ z.reading /\ z.size = 0
                        /\ z.body = Payload(c, r) /\ w \in {<<>>, <<Crlf>>}
             G == {z \in ChunkState(Unit) : Goes(z) \/ Ends(z)}
  <1>1. x \in ChunkState(Unit) /\ ~x.stop /\ ~x.done /\ Decoding(c, r, x, x.body, w)
    BY DEF Begins
  <1>2. PICK y : y = Chunks(x)
    OBVIOUS
  <1>3. Len(x.buf) \in Nat
    BY <1>1, LenProperties DEF ChunkState
  <1>4. Turns(x) \in Nat
    BY <1>3 DEF Turns
  <1>5. x \in G
    BY <1>1
  <1>6. ASSUME NEW z \in G PROVE Turn(z) \in G
    <2>1. CASE z.stop
      BY <1>6, <2>1 DEF Turn
    <2>2. CASE ~z.stop
      <3>1. PICK v : v = NextChunk(z)
        OBVIOUS
      <3>2. Turn(z) = v
        BY <2>2, <3>1 DEF Turn
      <3>3. z \in ChunkState(Unit) /\ ~z.stop /\ ~z.done /\ Decoding(c, r, z, z.body, w)
        BY <1>6, <2>2
      <3>4. /\ v \in ChunkState(Unit)
            /\ \/ /\ ~v.done /\ Decoding(c, r, v, v.body, w)
                  /\ v.stop => w # <<>>
               \/ /\ v.stop /\ v.done /\ v.buf = <<>> /\ v.reading /\ v.size = 0
                  /\ v.body = Payload(c, r) /\ w \in {<<>>, <<Crlf>>}
        BY <3>1, <3>3, ChunkStep
      <3> QED
        BY <3>2, <3>4
    <2> QED
      BY <2>1, <2>2
  <1>7. y \in G
    <2> HIDE DEF G
    <2> QED
      BY <1>2, <1>4, <1>5, <1>6, Turned
  <1>8. y.stop
    <2> DEFINE S == Unit \cup {<<"junk">>}
    <2>1. \A s \in Seq(Unit) : s \in Seq(S)
      BY DEF Unit
    <2>2. Bytes(S)
      <3>1. <<"junk">> \in S
        OBVIOUS
      <3>2. ASSUME NEW u \in S, u[1] = "size" PROVE u[2] \in Nat
        <4>1. CASE u \in Unit
          BY <3>2, <4>1 DEF Unit, Crlf
        <4>2. CASE u = <<"junk">>
          BY <3>2, <4>2
        <4> QED
          BY <4>1, <4>2
      <3> QED
        BY <3>1, <3>2 DEF Bytes
    <2> HIDE DEF S
    <2>3. x \in ChunkState(S)
      BY <1>1, <2>1 DEF ChunkState
    <2> QED
      BY <1>2, <2>2, <2>3, ChunksEnd
  <1>9. y \in ChunkState(Unit) /\ (Goes(y) \/ Ends(y))
    BY <1>7
  <1> QED
    BY <1>2, <1>8, <1>9 DEF Decoded

(* refactor_data, when it knows the body is chunked or finds it out.        *)
Known(D, data, b) ==
    \/ D.head = "chunked" /\ b = D.buf \o data
    \/ /\ D.head = "none" /\ FindBlank(D.buf \o data, 1) = 4
       /\ SaysChunked(Before(D.buf \o data, 4)) /\ b = After(D.buf \o data, 5)

Entry(D, body, b) ==
    [buf |-> b, reading |-> D.reading, size |-> D.size,
     stop |-> FALSE, body |-> body, done |-> FALSE]

Exit(y) ==
    [dec |-> [head |-> IF y.done THEN "none" ELSE "chunked", buf |-> y.buf,
              reading |-> y.reading, size |-> y.size],
     body |-> y.body, done |-> y.done]

LEMMA Refactored ==
  ASSUME NEW D, NEW body, NEW data, NEW b, Known(D, data, b)
  PROVE  RefactorData(D, body, data) = Exit(Chunks(Entry(D, body, b)))
  <1> DEFINE y == Chunks(Entry(D, body, b))
  <1> DEFINE Out(h, bf, z, bl) ==
               IF D.head = "none" /\ bl = 0
               THEN [dec |-> [D EXCEPT !.buf = D.buf \o data], body |-> body, done |-> FALSE]
               ELSE IF h = "other"
               THEN [dec |-> [D EXCEPT !.head = h, !.buf = <<>>], body |-> body \o bf,
                     done |-> TRUE]
               ELSE [dec |-> [head |-> IF z.done THEN "none" ELSE h, buf |-> z.buf,
                              reading |-> z.reading, size |-> z.size],
                     body |-> z.body, done |-> z.done]
  <1>1. PICK bl : bl = FindBlank(D.buf \o data, 1)
    OBVIOUS
  <1>2. PICK h : h = IF D.head # "none" THEN D.head
                     ELSE IF SaysChunked(Before(D.buf \o data, bl)) THEN "chunked" ELSE "other"
    OBVIOUS
  <1>3. PICK bf : bf = IF D.head # "none" THEN D.buf \o data ELSE After(D.buf \o data, bl + 1)
    OBVIOUS
  <1>4. PICK z : z = Chunks(Entry(D, body, bf))
    OBVIOUS
  <1>5. RefactorData(D, body, data) = Out(h, bf, z, bl)
    BY <1>1, <1>2, <1>3, <1>4, Zenon DEF RefactorData, Entry
  <1>6. h = "chunked" /\ bf = b /\ ~(D.head = "none" /\ bl = 0)
    <2>1. CASE D.head = "chunked"
      BY <1>2, <1>3, <2>1 DEF Known
    <2>2. CASE D.head # "chunked"
      <3>1. bl = 4 /\ bl + 1 = 5 /\ D.head = "none"
        BY <1>1, <2>2 DEF Known
      <3> QED
        BY <1>2, <1>3, <2>2, <3>1 DEF Known
    <2> QED
      BY <2>1, <2>2
  <1>7. z = y
    BY <1>4, <1>6
  <1> HIDE DEF y
  <1>8. Out("chunked", b, y, bl) = Exit(y)
    <2>1. "chunked" # "other"
      OBVIOUS
    <2> QED
      BY <1>6, <2>1, Zenon DEF Exit
  <1> HIDE DEF Out
  <1>9. RefactorData(D, body, data) = Exit(y)
    BY <1>5, <1>6, <1>7, <1>8, Zenon
  <1> QED
    BY <1>9 DEF y

(* A chunked body. *)
LEMMA ChunkStage ==
  ASSUME Honest, NEW c \in Conns, NEW r \in Kinds, ChunkedPost(r),
         NEW B, NEW w, NEW q, Stream(c, B, w, q), q = <<r>>, 5 <= Len(B),
         NEW P, HasHead(P, r), P.buffer = B, NEW l,
         NEW D, NEW b, Known(D, After(B, P.last), b), Begins(c, r, Entry(D, P.acc, b), w)
  PROVE  Fed(c, TakeChunks(P, D), w, l, q)
  <1>1. B \in Seq(Unit) /\ w \in Seq(Unit) /\ B \o w = Sent(c, q)
    BY DEF Stream
  <1>2. PICK R : R = TakeChunks(P, D)
    OBVIOUS
  <1>3. PICK y : y = Chunks(Entry(D, P.acc, b))
    OBVIOUS
  <1>4. Decoded(c, r, y, w)
    BY <1>1, <1>3, ChunksHonest, Zenon
  <1>5. /\ y \in ChunkState(Unit)
        /\ \/ ~y.done /\ Decoding(c, r, y, y.body, w) /\ w # <<>>
           \/ /\ y.done /\ y.buf = <<>> /\ y.reading /\ y.size = 0
              /\ y.body = Payload(c, r) /\ w \in {<<>>, <<Crlf>>}
    BY <1>4, Zenon DEF Decoded
  <1>6. /\ y.buf \in Seq(Unit) /\ y.reading \in BOOLEAN /\ y.size \in Sizes
        /\ y.body \in Seq(Unit) /\ y.done \in BOOLEAN
    BY <1>5 DEF ChunkState
  <1>7. PICK res : res = RefactorData(D, P.acc, After(B, P.last))
    OBVIOUS
  <1>8. res = Exit(y)
    BY <1>3, <1>7, Refactored, Zenon
  <1>9. R = IF res.done THEN [P |-> Ended(P, res.body, Len(B)), D |-> res.dec]
            ELSE [P |-> Waits(P, res.body, Len(B)), D |-> res.dec]
    BY <1>2, <1>7, Zenon DEF TakeChunks, Ended, Waits
  <1>10. q # <<>> /\ Head(q) = r /\ q = <<Head(q)>>
    OBVIOUS
  <1>11. Accepted(r) /\ r.method = "POST" /\ r.te = "chunked"
    BY DEF ChunkedPost
  <1>12. CASE y.done
    <2>1. PICK F : F = R.P
      OBVIOUS
    <2>2. PICK n : n = Len(B)
      OBVIOUS
    <2>3. F = Ended(P, y.body, n) /\ R.D = res.dec
      BY <1>8, <1>9, <1>12, <2>1, <2>2 DEF Exit
    <2>4. Holds(F, r, B, y.body, n, "complete")
      <3>1. \A d, i : Holds(Ended(P, d, i), r, P.buffer, d, i, "complete")
        BY HasHeadIs
      <3> QED
        BY <2>3, <3>1, Zenon
    <2>5. /\ F.state = "complete" /\ F.pos = n /\ F.line = r /\ F.head = r /\ F.body = y.body
          /\ F.error = 0 /\ F.buffer = B /\ F.keep = (r.connection # "close")
      BY <2>4, Zenon DEF Holds
    <2>6. R.D = Fresh
      <3>1. res.dec = [head |-> "none", buf |-> y.buf, reading |-> y.reading, size |-> y.size]
        BY <1>8, <1>12 DEF Exit
      <3>2. y.buf = <<>> /\ y.size = 0 /\ y.reading = TRUE
        BY <1>5, <1>6, <1>12
      <3> QED
        BY <2>3, <3>1, <3>2, Zenon DEF Fresh
    <2>7. F.pos \in 0..Len(F.buffer) /\ F.pos = Len(F.buffer)
      <3>1. n \in 0..Len(B)
        BY <1>1, <2>2, LenProperties
      <3> QED
        BY <2>2, <2>5, <3>1
    <2>8. y.body = Payload(c, r) /\ w \in {<<>>, <<Crlf>>}
      BY <1>5, <1>12
    <2>9. Complete(c, F, Fresh, w, q)
      <3>1. F.body = IF r.method = "POST" THEN Payload(c, r) ELSE <<>>
        BY <1>11, <2>5, <2>8, Zenon
      <3> QED
        BY <1>10, <1>11, <2>5, <2>7, <2>8, <3>1, Zenon DEF Complete
    <2>10. Quiet(Fresh)
      BY DEF Quiet
    <2> QED
      BY <1>1, <1>2, <2>1, <2>5, <2>6, <2>9, <2>10, Zenon DEF Fed, Parsing
  <1>13. CASE ~y.done
    <2>1. PICK F : F = R.P
      OBVIOUS
    <2>2. PICK n : n = Len(B)
      OBVIOUS
    <2>3. F = Waits(P, y.body, n) /\ R.D = res.dec
      BY <1>8, <1>9, <1>13, <2>1, <2>2 DEF Exit
    <2>4. HasHead(F, r) /\ F.buffer = B /\ F.acc = y.body /\ F.last = n
      <3>1. \A d, i : LET S == Waits(P, d, i) IN
               HasHead(S, r) /\ S.buffer = P.buffer /\ S.acc = d /\ S.last = i
        BY HasHeadIs
      <3> QED
        BY <2>3, <3>1, Zenon
    <2>5. F.state = "body"
      BY <2>4, HasHeadIs
    <2>6. PICK E : E = R.D
      OBVIOUS
    <2>7. E = [head |-> "chunked", buf |-> y.buf, reading |-> y.reading, size |-> y.size]
      BY <1>8, <1>13, <2>3, <2>6 DEF Exit
    <2>8. E \in Decoders /\ E.buf = y.buf /\ E.size = y.size /\ (E.reading <=> y.reading)
      BY <1>6, <2>7 DEF Decoders
    <2>9. Decoding(c, r, E, F.acc, w) /\ w # <<>>
      <3>1. Decoding(c, r, y, y.body, w) /\ w # <<>>
        BY <1>5, <1>13
      <3> QED
        BY <2>4, <2>8, <3>1, Zenon DEF Decoding
    <2>10. AtBody(c, F, E, w, q)
      <3>1. F.buffer \o w = Sent(c, q) /\ 5 <= Len(F.buffer) /\ F.last = Len(F.buffer)
        BY <1>1, <2>2, <2>4
      <3> QED
        BY <1>10, <1>11, <2>4, <2>8, <2>9, <3>1, Zenon DEF AtBody
    <2>11. Quiet(E)
      BY <2>8, Zenon DEF Quiet
    <2> QED
      BY <1>1, <1>2, <2>1, <2>4, <2>5, <2>6, <2>10, <2>11, Zenon DEF Fed, Parsing
  <1> QED
    BY <1>6, <1>12, <1>13

(* The first time refactor_data is given the buffer from its start on, and  *)
(* finds the header fields and what comes after them; later it is given     *)
(* what is new.                                                             *)
LEMMA HeadBlank ==
  ASSUME NEW r, NEW B \in Seq(Unit), 5 <= Len(B), B[1] # Crlf, B[3] = <<"head", r>>,
         B[4] = Crlf, B[5] = Crlf
  PROVE  FindBlank(B, 1) = 4
  <1>1. Len(B) \in Nat /\ 1 \in Nat \ {0}
    BY LenProperties
  <1>2. PICK k : k = FindBlank(B, 1)
    OBVIOUS
  <1>3. \/ /\ k = 0
           /\ \A j \in 1..(Len(B) - 1) : ~(B[j] = Crlf /\ B[j + 1] = Crlf)
        \/ /\ k \in 1..(Len(B) - 1) /\ B[k] = Crlf /\ B[k + 1] = Crlf
           /\ \A j \in 1..(k - 1) : ~(B[j] = Crlf /\ B[j + 1] = Crlf)
    BY <1>1, <1>2, FindBlankIs
  <1>4. 4 \in 1..(Len(B) - 1) /\ B[4] = Crlf /\ B[4 + 1] = Crlf /\ B[3] # Crlf
    BY <1>1, Tags
  <1>5. k \in 1..(Len(B) - 1) /\ B[k] = Crlf /\ B[k + 1] = Crlf
    BY <1>3, <1>4
  <1>6. k # 1 /\ k # 3
    BY <1>4, <1>5
  <1>7. k # 2
    <2>1. k = 2 => k + 1 = 3
      OBVIOUS
    <2> QED
      BY <1>4, <1>5, <2>1
  <1>8. ASSUME k > 4 PROVE FALSE
    <2>1. 4 \in 1..(k - 1)
      BY <1>5, <1>8
    <2> QED
      BY <1>3, <1>4, <1>5, <2>1
  <1> QED
    BY <1>1, <1>2, <1>5, <1>6, <1>7, <1>8

LEMMA FirstChunks ==
  ASSUME Honest, NEW c \in Conns, NEW r \in Kinds, ChunkedPost(r),
         NEW q \in Seq(Kinds), q # <<>>, Head(q) = r, Tail(q) = <<>>,
         NEW B \in Seq(Unit), NEW w \in Seq(Unit), B \o w = Sent(c, q), 5 <= Len(B)
  PROVE  Known(Fresh, After(B, 0), After(B, 5)) /\ Begins(c, r, Entry(Fresh, <<>>, After(B, 5)), w)
  <1>1. PICK s : s = Sent(c, q)
    OBVIOUS
  <1>2. PICK u : u = BodyUnits(c, r)
    OBVIOUS
  <1>3. /\ s \in Seq(Unit) /\ u \in Seq(Unit) /\ Len(u) \in Nat
        /\ s[1] = <<"line", r>> /\ s[3] = <<"head", r>> /\ s[4] = Crlf /\ s[5] = Crlf
        /\ s = Wire(c, r)
    <2>1. s = Wire(c, r)
      <3>1. Sent(c, q) = Wire(c, Head(q)) \o Sent(c, Tail(q))
        BY SentIs
      <3>2. <<>> \in Seq(Kinds) => Sent(c, <<>>) = <<>>
        BY SentIs, Zenon
      <3>3. Sent(c, Tail(q)) = <<>>
        BY <3>2, EmptySeq
      <3>4. Wire(c, r) \o <<>> = Wire(c, r)
        BY WireIs, ConcatEmptySeq
      <3> QED
        BY <1>1, <3>1, <3>3, <3>4
    <2>2. u \in Seq(Unit) /\ Len(u) \in Nat
      BY <1>2, BodyUnitsIs, LenProperties
    <2> QED
      BY <2>1, <2>2, WireIs
  <1>4. Len(B) \in Nat /\ \A i \in 1..Len(B) : s[i] = B[i]
    <2>1. PICK v : v = B \o w
      OBVIOUS
    <2>2. Len(B) \in Nat /\ \A i \in 1..Len(B) : v[i] = B[i]
      BY <2>1, Joined
    <2> QED
      BY <1>1, <2>1, <2>2
  <1>5. /\ B[1] = <<"line", r>> /\ B[3] = <<"head", r>> /\ B[4] = Crlf /\ B[5] = Crlf
    <2>1. 1 \in 1..Len(B) /\ 3 \in 1..Len(B) /\ 4 \in 1..Len(B) /\ 5 \in 1..Len(B)
      BY <1>4
    <2> QED
      BY <1>3, <1>4, <2>1
  <1>6. FindBlank(B, 1) = 4
    <2>1. B[1] # Crlf
      BY <1>5, Tags
    <2> QED
      BY <1>5, <2>1, HeadBlank
  <1>7. After(B, 0) = B
    BY <1>4, SubSeqFull DEF After
  <1>8. SaysChunked(Before(B, 4))
    <2>1. PICK h : h = Before(B, 4)
      OBVIOUS
    <2>2. h = SubSeq(B, 1, 3)
      BY <2>1 DEF Before
    <2>3. 3 \in 0..Len(B)
      BY <1>4
    <2>4. Len(h) = 3 /\ \A i \in 1..3 : h[i] = B[i]
      BY <2>2, <2>3, UptoIs
    <2>5. 3 \in 1..Len(h) /\ h[3] = <<"head", r>>
      BY <1>5, <2>4
    <2>6. r.te = "chunked" /\ r.spelled
      BY DEF Honest, ChunkedPost
    <2>7. h[3][1] = "head" /\ h[3][2].te = "chunked" /\ h[3][2].spelled
      BY <2>5, <2>6
    <2> QED
      BY <2>1, <2>5, <2>7 DEF SaysChunked
  <1>9. Known(Fresh, After(B, 0), After(B, 5))
    <2>1. Fresh.head = "none" /\ Fresh.buf = <<>>
      BY DEF Fresh
    <2>2. Fresh.buf \o After(B, 0) = B
      BY <1>7, <2>1, ConcatEmptySeq
    <2> QED
      BY <1>6, <1>8, <2>1, <2>2, Zenon DEF Known
  <1>10. PICK t : t = After(B, 5)
    OBVIOUS
  <1>11. t \in Seq(Unit) /\ t \o w = u
    <2>1. 5 \in 0..Len(B)
      BY <1>4
    <2>2. t \in Seq(Unit)
      BY <1>10, <2>1, AfterIs
    <2>3. After(B, 5) \o w = After(B \o w, 5)
      <3>1. IsText(B) /\ IsText(w)
        BY DEF IsText
      <3> QED
        BY <2>1, <3>1, AfterJoined
    <2>4. After(s, 5) = u
      <3>1. PICK a : a = <<<<"line", r>>, Crlf, <<"head", r>>, Crlf, Crlf>>
        OBVIOUS
      <3>2. s = a \o u
        BY <1>2, <1>3, <3>1 DEF Wire
      <3>3. Len(a) = 5 /\ a \in Seq(Unit)
        BY <3>1 DEF Unit
      <3>4. After(s, Len(a)) = u
        BY <1>3, <3>2, <3>3, AfterAll
      <3> QED
        BY <3>3, <3>4
    <2> QED
      BY <1>1, <1>10, <2>2, <2>3, <2>4
  <1>12. u = ChunksFrom(c, r, 1)
    BY <1>2, BodyUnitsIs DEF ChunkedPost
  <1>13. PICK x : x = Entry(Fresh, <<>>, t)
    OBVIOUS
  <1>14. /\ x \in ChunkState(Unit) /\ ~x.stop /\ ~x.done /\ x.reading /\ x.buf = t /\ x.body = <<>>
    BY <1>11, <1>13 DEF Entry, Fresh, ChunkState, Sizes
  <1>15. Decoding(c, r, x, x.body, w)
    <2>1. Len(r.chunks) \in Nat
      BY ListedIsSeq
    <2>2. 1 \in 1..(Len(r.chunks) + 1) /\ 1 - 1 = 0 /\ 0 \in 0..Len(r.chunks)
      BY <2>1
    <2>3. x.body = CarriedBy(c, r, 1 - 1)
      BY <1>14, <2>2, CarriedIs
    <2>4. x.buf \in Seq(Unit) /\ x.buf \o w = ChunksFrom(c, r, 1)
      BY <1>11, <1>12, <1>14
    <2> QED
      BY <1>14, <2>2, <2>3, <2>4, Zenon DEF Decoding
  <1>16. Begins(c, r, x, w)
    BY <1>14, <1>15 DEF Begins
  <1> QED
    BY <1>9, <1>10, <1>13, <1>16

LEMMA NextChunks ==
  ASSUME NEW c \in Conns, NEW r \in Kinds, NEW d \in Seq(Unit), NEW w \in Seq(Unit),
         NEW D \in Decoders, NEW a, Decoding(c, r, D, a, d \o w)
  PROVE  /\ Known(D, d, D.buf \o d) /\ Begins(c, r, Entry(D, a, D.buf \o d), w)
  <1>1. D.head = "chunked" /\ D.buf \in Seq(Unit) /\ D.reading \in BOOLEAN /\ D.size \in Sizes
    BY DEF Decoders
  <1>2. Known(D, d, D.buf \o d)
    BY <1>1, Zenon DEF Known
  <1>3. PICK i \in 1..(Len(r.chunks) + 1) :
          /\ a = CarriedBy(c, r, i - 1)
          /\ IF D.reading THEN D.buf \o (d \o w) = ChunksFrom(c, r, i)
             ELSE /\ i <= Len(r.chunks) /\ D.size = r.chunks[i]
                  /\ D.buf \o (d \o w) = Load(c, D.size) \o ChunksFrom(c, r, i + 1)
    BY DEF Decoding
  <1>4. a \in Seq(Unit)
    <2>1. Len(r.chunks) \in Nat
      BY ListedIsSeq
    <2>2. PICK j : j = i - 1
      OBVIOUS
    <2>3. j \in 0..Len(r.chunks)
      BY <2>1, <2>2
    <2> QED
      BY <1>3, <2>2, <2>3, CarriedIs
  <1>5. PICK b : b = D.buf \o d
    OBVIOUS
  <1>6. b \in Seq(Unit) /\ b \o w = D.buf \o (d \o w)
    <2>1. b \in Seq(Unit)
      BY <1>1, <1>5, ConcatProperties
    <2>2. (D.buf \o d) \o w = D.buf \o (d \o w)
      <3>1. PICK e : e = D.buf
        OBVIOUS
      <3>2. e \in Seq(Unit)
        BY <1>1, <3>1
      <3>3. (e \o d) \o w = e \o (d \o w)
        BY <3>2, ConcatAssociative
      <3> QED
        BY <3>1, <3>3
    <2> QED
      BY <1>5, <2>1, <2>2
  <1>7. PICK x : x = Entry(D, a, b)
    OBVIOUS
  <1>8. /\ x \in ChunkState(Unit) /\ ~x.stop /\ ~x.done /\ (x.reading <=> D.reading)
        /\ x.buf = b /\ x.body = a /\ x.size = D.size
    BY <1>1, <1>4, <1>6, <1>7 DEF Entry, ChunkState
  <1>9. Decoding(c, r, x, x.body, w)
    <2>1. CASE D.reading
      <3>1. x.buf \in Seq(Unit) /\ x.buf \o w = ChunksFrom(c, r, i) /\ x.reading
            /\ x.body = CarriedBy(c, r, i - 1)
        BY <1>3, <1>6, <1>8, <2>1
      <3> QED
        BY <3>1, Zenon DEF Decoding
    <2>2. CASE ~D.reading
      <3>1. x.buf \in Seq(Unit) /\ ~x.reading /\ i <= Len(r.chunks) /\ x.size = r.chunks[i]
            /\ x.buf \o w = Load(c, x.size) \o ChunksFrom(c, r, i + 1)
            /\ x.body = CarriedBy(c, r, i - 1)
        BY <1>3, <1>6, <1>8, <2>2
      <3> QED
        BY <3>1, Zenon DEF Decoding
    <2> QED
      BY <1>1, <2>1, <2>2
  <1> QED
    BY <1>2, <1>5, <1>7, <1>8, <1>9 DEF Begins

-----------------------------------------------------------------------------
(* What feed_data does with a request whose line and header fields are      *)
(* accepted; with one whose line is; and with whatever has come.            *)
LEMMA OnlyRequest ==
  ASSUME OneDecoder, NEW q \in Seq(Kinds), q # <<>>, Alone(q), ChunkedPost(Head(q))
  PROVE  Tail(q) = <<>> /\ q = <<Head(q)>>
  <1>1. Len(q) \in Nat \ {0} /\ Head(q) = q[1] /\ Head(q) \in Kinds
    BY EmptySeq, HeadTailProperties
  <1>2. Len(q) = 1
    <2>1. 1 \in DOMAIN q
      BY <1>1
    <2>2. Head(q) \in ToSet(q)
      BY <1>1, <2>1, Zenon DEF ToSet
    <2>3. ~(Head(q) \in Pipelined)
      BY <1>1, Zenon DEF OneDecoder
    <2>4. ~(Len(q) > 1)
      BY <2>2, <2>3 DEF Alone
    <2>5. PICK n : n = Len(q)
      OBVIOUS
    <2> QED
      BY <1>1, <2>4, <2>5
  <1>3. Tail(q) = <<>>
    <2>1. Len(Tail(q)) = 0 /\ Tail(q) \in Seq(Kinds)
      BY <1>1, <1>2, HeadTailProperties
    <2> QED
      BY <2>1, EmptySeq
  <1> QED
    BY <1>1, <1>2, <1>3

(* A request without a body, or one that nobody takes. *)
LEMMA NoBody ==
  ASSUME NEW c \in Conns, NEW B, NEW w, NEW q, Stream(c, B, w, q), 5 <= Len(B),
         Accepted(Head(q)), Head(q).method = "POST" => Head(q).te # "chunked" /\ Head(q).body = 0,
         NEW P, Headed(P, Head(q), "complete"), P.buffer = B
  PROVE  P.state = "complete" /\ Complete(c, P, Fresh, w, q)
  <1>1. PICK r : r = Head(q)
    OBVIOUS
  <1>2. /\ B \in Seq(Unit) /\ w \in Seq(Unit) /\ q \in Seq(Kinds) /\ q # <<>>
        /\ B \o w = Sent(c, q)
    BY DEF Stream
  <1>3. /\ P.state = "complete" /\ P.pos = 5 /\ P.line = r /\ P.head = r
        /\ P.body = <<>> /\ P.error = 0 /\ P.keep = (r.connection # "close")
    <2>1. Headed(P, r, "complete")
      BY <1>1, Zenon
    <2> QED
      BY <2>1, HeadedIs
  <1>4. Accepted(r) /\ (r.method = "POST" => r.te # "chunked" /\ r.body = 0) /\ ~ChunkedPost(r)
    BY <1>1 DEF ChunkedPost
  <1>5. PICK n : n = 5 + (IF r.method = "POST" THEN r.body ELSE 0)
    OBVIOUS
  <1>6. n = 5 /\ n \in Nat /\ n <= Len(B)
    BY <1>4, <1>5
  <1>7. P.body = IF r.method = "POST" THEN Payload(c, r) ELSE <<>>
    <2>1. r.method = "POST" => Payload(c, r) = <<>>
      <3>1. SUFFICES ASSUME r.method = "POST" PROVE Payload(c, r) = <<>>
        OBVIOUS
      <3>2. r.te # "chunked" /\ r.body = 0
        BY <1>4, <3>1
      <3>3. Payload(c, r) = Repeat(<<"data", c>>, 0)
        BY <3>2 DEF Payload
      <3>4. Repeat(<<"data", c>>, 0) = <<>>
        BY DEF Repeat
      <3> QED
        BY <3>3, <3>4
    <2> QED
      BY <1>3, <2>1
  <1>8. P.pos = n
    BY <1>3, <1>6
  <1>9. Complete(c, P, Fresh, w, q)
    BY <1>1, <1>2, <1>3, <1>4, <1>5, <1>6, <1>7, <1>8, Completes, Zenon
  <1> QED
    BY <1>3, <1>9

LEMMA BodyStage ==
  ASSUME Honest, OneDecoder, NEW c \in Conns, NEW B, NEW w, NEW q, NEW l,
         Stream(c, B, w, q), 5 <= Len(B), Alone(q), Accepted(Head(q)),
         NEW P, Headed(P, Head(q), "body"), P.buffer = B
  PROVE  Fed(c, ParseBody(P, Fresh), w, l, q)
  <1>1. PICK r : r = Head(q)
    OBVIOUS
  <1>2. /\ B \in Seq(Unit) /\ w \in Seq(Unit) /\ q \in Seq(Kinds) /\ q # <<>>
        /\ B \o w = Sent(c, q)
    BY DEF Stream
  <1>3. r \in Kinds /\ Accepted(r) /\ Headed(P, r, "body")
    BY <1>1, <1>2, HeadTailProperties
  <1>4. P.line = r /\ P.head = r
    BY <1>3, HeadedIs
  <1>5. PICK F : F = ParseBody(P, Fresh)
    OBVIOUS
  <1>6. F = IF r.method # "POST" THEN [P |-> [P EXCEPT !.state = "complete"], D |-> Fresh]
            ELSE IF r.te = "chunked" THEN TakeChunks(P, Fresh)
            ELSE IF HasLength(r) THEN [P |-> TakeBody(P), D |-> Fresh]
            ELSE [P |-> [P EXCEPT !.state = "complete"], D |-> Fresh]
    BY <1>4, <1>5, Zenon DEF ParseBody
  <1>7. ASSUME r.method = "POST" => r.te # "chunked" /\ r.body = 0
        PROVE  Fed(c, [P |-> [P EXCEPT !.state = "complete"], D |-> Fresh], w, l, q)
    <2>1. PICK R : R = [P EXCEPT !.state = "complete"]
      OBVIOUS
    <2>2. R.buffer = B /\ Headed(R, r, "complete")
      BY <1>3, <2>1, HeadedIs
    <2>3. R.state = "complete" /\ Complete(c, R, Fresh, w, q)
      BY <1>1, <1>7, <2>2, NoBody, Zenon
    <2>4. Parsing(c, R, Fresh, w, l, q) /\ R.buffer \in Seq(Unit)
      BY <1>2, <2>2, <2>3, Zenon DEF Parsing
    <2> QED
      BY <2>1, <2>4, FedIs, Zenon
  <1>8. CASE r.method # "POST"
    <2>1. F = [P |-> [P EXCEPT !.state = "complete"], D |-> Fresh]
      BY <1>6, <1>8
    <2> QED
      BY <1>5, <1>7, <1>8, <2>1
  <1>9. CASE r.method = "POST" /\ r.te = "chunked"
    <2>1. ChunkedPost(r)
      BY <1>3, <1>9 DEF ChunkedPost
    <2>2. Tail(q) = <<>> /\ q = <<r>>
      BY <1>1, <1>2, <2>1, OnlyRequest, Zenon
    <2>3. HasHead(P, r) /\ P.last = 0 /\ P.acc = <<>>
      BY <1>3, HeadedWaits
    <2>4. Known(Fresh, After(B, P.last), After(B, 5)) /\ Begins(c, r, Entry(Fresh, P.acc, After(B, 5)), w)
      <3>1. Known(Fresh, After(B, 0), After(B, 5)) /\ Begins(c, r, Entry(Fresh, <<>>, After(B, 5)), w)
        BY <1>1, <1>2, <1>3, <2>1, <2>2, FirstChunks, Zenon
      <3> QED
        BY <2>3, <3>1, Zenon
    <2>5. F = TakeChunks(P, Fresh)
      BY <1>6, <1>9
    <2>6. Fed(c, TakeChunks(P, Fresh), w, l, q)
      BY <1>3, <2>1, <2>2, <2>3, <2>4, ChunkStage, Zenon
    <2> QED
      BY <1>5, <2>5, <2>6, Zenon
  <1>10. CASE r.method = "POST" /\ r.te # "chunked" /\ HasLength(r)
    <2>1. F = [P |-> TakeBody(P), D |-> Fresh]
      BY <1>6, <1>10
    <2>2. Fed(c, [P |-> TakeBody(P), D |-> Fresh], w, l, q)
      BY <1>1, <1>3, <1>10, TakeStage, Zenon
    <2> QED
      BY <1>5, <2>1, <2>2
  <1>11. CASE r.method = "POST" /\ r.te # "chunked" /\ ~HasLength(r)
    <2>1. r.body = 0
      BY <1>3, <1>11 DEF Honest
    <2>2. F = [P |-> [P EXCEPT !.state = "complete"], D |-> Fresh]
      BY <1>6, <1>11
    <2> QED
      BY <1>5, <1>7, <1>11, <2>1, <2>2
  <1> QED
    BY <1>5, <1>8, <1>9, <1>10, <1>11

LEMMA HasLineIs ==
  ASSUME NEW P, NEW r, HasLine(P, r)
  PROVE  /\ P.state = "headers" /\ P.keep \in BOOLEAN
         /\ \A B : LET R == Gets(P, B) IN HasLine(R, r) /\ R.buffer = B
         /\ Refuses(Full(P))
  <1> DEFINE K(B) == [Clean EXCEPT !.buffer = B, !.state = "headers", !.pos = 2, !.line = r]
  <1>1. \A A : HasLine(A, r) <=> A = K(A.buffer)
    BY Zenon DEF HasLine
  <1>2. PICK B : B = P.buffer
    OBVIOUS
  <1>3. P = K(B)
    BY <1>1, <1>2, Zenon
  <1>4. ASSUME NEW A, NEW C, A = K(C)
        PROVE  A.state = "headers" /\ A.buffer = C /\ A.keep = Clean.keep
    BY <1>4, CleanIs
  <1>5. \A C : Gets(K(B), C) = K(C)
    BY CleanIs DEF Gets
  <1> HIDE DEF K
  <1>6. P.state = "headers" /\ P.keep \in BOOLEAN
    <2>1. Clean.keep = TRUE
      BY DEF Clean
    <2>2. P.state = "headers" /\ P.keep = Clean.keep
      BY <1>3, <1>4
    <2> QED
      BY <2>1, <2>2, Zenon
  <1>7. ASSUME NEW C
        PROVE  LET R == Gets(P, C) IN HasLine(R, r) /\ R.buffer = C
    <2>1. PICK R : R = Gets(P, C)
      OBVIOUS
    <2>2. R = K(C)
      BY <1>3, <1>5, <2>1, Zenon
    <2>3. R.buffer = C
      BY <1>4, <2>2
    <2> QED
      BY <1>1, <2>1, <2>2, <2>3, Zenon
  <1>8. Refuses(Full(P))
    <2>1. PICK F : F = Full(K(B))
      OBVIOUS
    <2>2. /\ F.state = "error" /\ F.error = 413 /\ F.buffer = <<>> /\ F.pos = 0
          /\ F.keep = Clean.keep
      BY <2>1, CleanIs DEF Full, Fail, K
    <2>3. Clean.keep \in BOOLEAN
      <3>1. Clean.keep = TRUE
        BY DEF Clean
      <3> QED
        BY <3>1, Zenon
    <2> QED
      BY <1>3, <2>1, <2>2, <2>3, Zenon DEF Refuses
  <1> QED
    BY <1>6, <1>7, <1>8, Zenon

LEMMA HeadersFed ==
  ASSUME Honest, OneDecoder, NEW c \in Conns, NEW q, NEW l, NEW B, NEW w,
         Stream(c, B, w, q), 2 <= Len(B), Alone(q), CheckLine(Head(q)) = 0,
         NEW P, HasLine(P, Head(q)), P.buffer = B, NEW R, R = ParseHeaders(P)
  PROVE  Fed(c, IF R.state = "body" THEN ParseBody(R, Fresh) ELSE [P |-> R, D |-> Fresh],
             w, l, q)
  <1>1. PICK r : r = Head(q)
    OBVIOUS
  <1>2. B \in Seq(Unit) /\ q # <<>> /\ B \o w = Sent(c, q)
    BY DEF Stream
  <1>3. \/ R = P /\ FindBlank(B, 3) = 0
        \/ R.state = "error" /\ R.buffer \in {B, <<>>} /\ Refused(c, R, l, q)
        \/ /\ Accepted(r) /\ 5 <= Len(B) /\ R.buffer = B
           /\ Headed(R, r, AfterHead(r))
    <2>1. AtEnd(c, q, l, B, P, R)
      BY HeadersStage
    <2> QED
      BY <1>1, <2>1, Zenon DEF AtEnd
  <1> DEFINE F == [P |-> R, D |-> Fresh]
  <1>4. CASE R = P /\ FindBlank(B, 3) = 0
    <2>1. R.state = "headers"
      BY <1>4, HasLineIs
    <2>2. AtHeaders(c, R, Fresh, w, q)
      BY <1>2, <1>4, Zenon DEF AtHeaders
    <2>3. Parsing(c, R, Fresh, w, l, q) /\ R.buffer \in Seq(Unit)
      BY <1>2, <1>4, <2>1, <2>2, Zenon DEF Parsing
    <2>4. Fed(c, F, w, l, q)
      BY <2>3, FedIs, Zenon
    <2> HIDE DEF F
    <2>5. R.state # "body"
      BY <2>1
    <2> QED
      BY <2>4, <2>5, Zenon DEF F
  <1>5. CASE R.state = "error" /\ R.buffer \in {B, <<>>} /\ Refused(c, R, l, q)
    <2>1. Parsing(c, R, Fresh, w, l, q)
      BY <1>5, Zenon DEF Parsing
    <2>2. R.buffer \in Seq(Unit)
      BY <1>2, <1>5, EmptySeq
    <2>3. Fed(c, F, w, l, q)
      BY <2>1, <2>2, FedIs, Zenon
    <2> HIDE DEF F
    <2>4. R.state # "body"
      BY <1>5
    <2> QED
      BY <2>3, <2>4, Zenon DEF F
  <1>6. CASE Accepted(r) /\ 5 <= Len(B) /\ R.buffer = B /\ Headed(R, r, AfterHead(r))
    <2>1. R.state = AfterHead(r)
      BY <1>6, HeadedIs
    <2>2. CASE AfterHead(r) = "body"
      <3>1. Headed(R, r, "body") /\ R.state = "body"
        BY <1>6, <2>1, <2>2, Zenon
      <3>2. Fed(c, ParseBody(R, Fresh), w, l, q)
        BY <1>1, <1>6, <3>1, BodyStage, Zenon
      <3> QED
        BY <3>1, <3>2, Zenon
    <2>3. CASE AfterHead(r) = "complete"
      <3>1. r.method # "POST"
        BY <2>3 DEF AfterHead
      <3>2. Headed(R, r, "complete")
        BY <1>6, <2>3, Zenon
      <3>3. R.state = "complete" /\ Complete(c, R, Fresh, w, q)
        BY <1>1, <1>6, <3>1, <3>2, NoBody, Zenon
      <3>4. Parsing(c, R, Fresh, w, l, q) /\ R.buffer \in Seq(Unit)
        BY <1>2, <1>6, <3>3, Zenon DEF Parsing
      <3>5. Fed(c, F, w, l, q)
        BY <3>4, FedIs, Zenon
      <3> HIDE DEF F
      <3>6. R.state # "body"
        BY <3>3
      <3> QED
        BY <3>5, <3>6, Zenon DEF F
    <2> QED
      BY <2>2, <2>3 DEF AfterHead
  <1> QED
    BY <1>3, <1>4, <1>5, <1>6

LEMMA LineFed ==
  ASSUME Honest, OneDecoder, NEW c \in Conns, NEW q, NEW l, NEW B, NEW w,
         Start(c, B, w, l, q), Alone(q), NEW P, P = [Clean EXCEPT !.buffer = B],
         NEW P1, P1 = ParseStartLine(P),
         NEW P2, P2 = IF P1.state = "headers" THEN ParseHeaders(P1) ELSE P1
  PROVE  Fed(c, IF P2.state = "body" THEN ParseBody(P2, Fresh) ELSE [P |-> P2, D |-> Fresh],
             w, l, q)
  <1>1. \/ P1 = P /\ FindCrlf(B, 1) = 0
        \/ P1.state = "error" /\ P1.buffer = B /\ Refused(c, P1, l, q)
        \/ /\ Stream(c, B, w, q) /\ 2 <= Len(B)
           /\ CheckLine(Head(q)) = 0 /\ HasLine(P1, Head(q)) /\ P1.buffer = B
    BY LineStage
  <1>2. /\ B \in Seq(Unit)
        /\ B \o w = l \o Sent(c, q) \/ (l = <<Crlf>> /\ B \o w = Sent(c, q))
    BY DEF Start
  <1> DEFINE F == [P |-> P2, D |-> Fresh]
  <1>3. CASE P1 = P /\ FindCrlf(B, 1) = 0
    <2>1. P.state = "line" /\ P.buffer = B /\ P = [Clean EXCEPT !.buffer = P.buffer]
      BY DEF Clean
    <2>2. P2 = P
      BY <1>3, <2>1
    <2>3. AtLine(c, P, Fresh, w, l, q)
      BY <1>2, <1>3, <2>1, Zenon DEF AtLine
    <2>4. Parsing(c, P2, Fresh, w, l, q) /\ P2.buffer \in Seq(Unit)
      BY <1>2, <2>1, <2>2, <2>3, Zenon DEF Parsing
    <2>5. Fed(c, F, w, l, q)
      BY <2>4, FedIs, Zenon
    <2> HIDE DEF F
    <2>6. P2.state # "body"
      BY <2>1, <2>2
    <2> QED
      BY <2>5, <2>6, Zenon DEF F
  <1>4. CASE P1.state = "error" /\ P1.buffer = B /\ Refused(c, P1, l, q)
    <2>1. P2 = P1
      BY <1>4
    <2>2. Parsing(c, P2, Fresh, w, l, q) /\ P2.buffer \in Seq(Unit)
      BY <1>2, <1>4, <2>1, Zenon DEF Parsing
    <2>3. Fed(c, F, w, l, q)
      BY <2>2, FedIs, Zenon
    <2> HIDE DEF F
    <2>4. P2.state # "body"
      BY <1>4, <2>1
    <2> QED
      BY <2>3, <2>4, Zenon DEF F
  <1>5. CASE /\ Stream(c, B, w, q) /\ 2 <= Len(B)
             /\ CheckLine(Head(q)) = 0 /\ HasLine(P1, Head(q)) /\ P1.buffer = B
    <2>1. P1.state = "headers"
      BY <1>5, HasLineIs, Zenon
    <2>2. P2 = ParseHeaders(P1)
      BY <2>1
    <2> QED
      BY <1>5, <2>2, HeadersFed, Zenon
  <1> QED
    BY <1>1, <1>3, <1>4, <1>5

LEMMA CleanGets ==
  ASSUME NEW P, P = [Clean EXCEPT !.buffer = P.buffer]
  PROVE  /\ P.state = "line" /\ P.keep \in BOOLEAN /\ Refuses(Full(P))
         /\ \A B : Gets(P, B) = [Clean EXCEPT !.buffer = B] /\ Gets(P, B).buffer = B
  <1> DEFINE K(B) == [Clean EXCEPT !.buffer = B]
  <1>1. PICK B : B = P.buffer
    OBVIOUS
  <1>2. P = K(B)
    BY <1>1, Zenon
  <1>3. \A C : Gets(K(B), C) = K(C)
    BY CleanIs DEF Gets
  <1>4. ASSUME NEW A, NEW C, A = K(C)
        PROVE  A.state = "line" /\ A.buffer = C /\ A.keep = Clean.keep
    BY <1>4, CleanIs
  <1>5. Clean.keep \in BOOLEAN
    <2>1. Clean.keep = TRUE
      BY DEF Clean
    <2> QED
      BY <2>1, Zenon
  <1>6. Refuses(Full(K(B)))
    <2>1. PICK F : F = Full(K(B))
      OBVIOUS
    <2>2. /\ F.state = "error" /\ F.error = 413 /\ F.buffer = <<>> /\ F.pos = 0
          /\ F.keep = Clean.keep
      BY <2>1, CleanIs DEF Full, Fail
    <2> HIDE DEF K
    <2> QED
      BY <1>5, <2>1, <2>2, Zenon DEF Refuses
  <1>7. P.state = "line" /\ P.keep \in BOOLEAN
    BY <1>2, <1>4, <1>5
  <1>8. ASSUME NEW C PROVE Gets(P, C) = K(C) /\ Gets(P, C).buffer = C
    BY <1>2, <1>3, <1>4
  <1> HIDE DEF K
  <1>9. Refuses(Full(P))
    BY <1>2, <1>6, Zenon
  <1> QED
    BY <1>7, <1>8, <1>9, Zenon DEF K

LEMMA TooLong ==
  ASSUME NEW c \in Conns, NEW q \in Seq(Kinds), NEW l \in Seq(Unit),
         NEW B \in Seq(Unit), NEW w \in Seq(Unit), Len(B) > MaxBuffer,
         Same(B \o w, Sent(c, q)) \/ Same(B \o w, l \o Sent(c, q)),
         NEW P, Refuses(Full(P))
  PROVE  Full(P).state = "error" /\ Full(P).buffer \in Seq(Unit) /\ Refused(c, Full(P), l, q)
  <1>1. PICK s : s = Sent(c, q)
    OBVIOUS
  <1>2. s \in Seq(Unit)
    BY <1>1, SentIs
  <1>3. PICK m, n, k : m = Len(B) /\ n = Len(B \o w) /\ k = Len(l \o s)
    OBVIOUS
  <1>4. m <= n /\ n \in Nat /\ m \in Nat
    BY <1>3, ConcatProperties, LenProperties
  <1>5. k = Len(l) + Len(s) /\ Len(l) \in Nat /\ Len(s) \in Nat
    BY <1>2, <1>3, ConcatProperties, LenProperties
  <1>6. n = Len(s) \/ n = k
    BY <1>1, <1>3 DEF Same
  <1>7. k > MaxBuffer
    BY <1>3, <1>4, <1>5, <1>6, ParserAssumption
  <1>8. Len(l \o Sent(c, q)) > MaxBuffer
    BY <1>1, <1>3, <1>7
  <1>9. PICK F : F = Full(P)
    OBVIOUS
  <1>10. /\ F.state = "error" /\ F.error = 413 /\ F.buffer = <<>> /\ F.pos = 0
         /\ F.keep \in BOOLEAN
    BY <1>9, Zenon DEF Refuses
  <1>11. F.pos \in 0..Len(F.buffer) /\ F.error \in {400, 413, 414, 415, 431, 501}
    BY <1>10, EmptySeq
  <1>12. Refused(c, F, l, q)
    BY <1>8, <1>10, <1>11, Zenon DEF Refused
  <1> QED
    BY <1>9, <1>10, <1>12, EmptySeq

(* What was received, d, joins the buffer, b; w is left of v, what was sent. *)
Piece(b, d, w, v) ==
    b \in Seq(Unit) /\ d \in Seq(Unit) /\ w \in Seq(Unit) /\ Same(v, d \o w)

LEMMA Joins ==
  ASSUME NEW b, NEW d, NEW w, NEW v, Piece(b, d, w, v)
  PROVE  b \o d \in Seq(Unit) /\ Same((b \o d) \o w, b \o v) /\ Len(b) <= Len(b \o d)
  <1>1. /\ b \o d \in Seq(Unit) /\ Len(b \o d) = Len(b) + Len(d)
        /\ Len(b) \in Nat /\ Len(d) \in Nat
    BY ConcatProperties, LenProperties DEF Piece
  <1>2. (b \o d) \o w = b \o (d \o w)
    BY ConcatAssociative DEF Piece
  <1> QED
    BY <1>1, <1>2 DEF Piece, Same

LEMMA FeedLine ==
  ASSUME Honest, OneDecoder, NEW c \in Conns, NEW q \in Seq(Kinds), Alone(q), NEW l, Rest(l),
         NEW P, P.buffer \in Seq(Unit), NEW d \in Seq(Unit), ~(Len(P.buffer \o d) > MaxBuffer),
         NEW w \in Seq(Unit), NEW v, Same(v, d \o w), NEW D, AtLine(c, P, D, v, l, q)
  PROVE  Fed(c, FeedData(P, D, d), w, l, q)
  <1>1. PICK B : B = P.buffer \o d
    OBVIOUS
  <1>2. B \in Seq(Unit) /\ B \o w = P.buffer \o v
    <2>1. Piece(P.buffer, d, w, v)
      BY DEF Piece
    <2>2. /\ P.buffer \o d \in Seq(Unit) /\ Same((P.buffer \o d) \o w, P.buffer \o v)
         /\ Len(P.buffer) <= Len(P.buffer \o d)
      BY <2>1, Joins, Zenon
    <2> QED
      BY <1>1, <2>2 DEF Same
  <1>3. /\ P = [Clean EXCEPT !.buffer = P.buffer] /\ D = Fresh
        /\ P.buffer \o v = l \o Sent(c, q) \/ (l = <<Crlf>> /\ P.buffer \o v = Sent(c, q))
    BY DEF AtLine
  <1>4. Start(c, B, w, l, q)
    BY <1>2, <1>3 DEF Start
  <1>5. PICK P0 : P0 = Gets(P, B)
    OBVIOUS
  <1>6. P0 = [Clean EXCEPT !.buffer = B] /\ P0.buffer = B
    BY <1>3, <1>5, CleanGets
  <1>7. P0.state = "line"
    BY <1>6, CleanIs
  <1>8. PICK P1 : P1 = ParseStartLine(P0)
    OBVIOUS
  <1>9. PICK P2 : P2 = IF P1.state = "headers" THEN ParseHeaders(P1) ELSE P1
    OBVIOUS
  <1>10. FeedData(P, D, d) = IF P2.state = "body" THEN ParseBody(P2, D) ELSE [P |-> P2, D |-> D]
    <2>1. P0 = [P EXCEPT !.buffer = P.buffer \o d]
      BY <1>1, <1>5 DEF Gets
    <2>2. ~(Len(P0.buffer) > MaxBuffer)
      BY <1>1, <1>6
    <2> QED
      BY <1>7, <1>8, <1>9, <2>1, <2>2, Zenon DEF FeedData
  <1>11. Fed(c, IF P2.state = "body" THEN ParseBody(P2, Fresh) ELSE [P |-> P2, D |-> Fresh], w, l, q)
    BY <1>4, <1>6, <1>8, <1>9, LineFed, Zenon
  <1> QED
    BY <1>3, <1>10, <1>11, Zenon

LEMMA FeedHeaders ==
  ASSUME Honest, OneDecoder, NEW c \in Conns, NEW q \in Seq(Kinds), Alone(q), NEW l,
         NEW P, P.buffer \in Seq(Unit), NEW d \in Seq(Unit), ~(Len(P.buffer \o d) > MaxBuffer),
         NEW w \in Seq(Unit), NEW v, Same(v, d \o w), NEW D, AtHeaders(c, P, D, v, q)
  PROVE  Fed(c, FeedData(P, D, d), w, l, q)
  <1>1. PICK B : B = P.buffer \o d
    OBVIOUS
  <1>2. B \in Seq(Unit) /\ B \o w = P.buffer \o v /\ Len(P.buffer) <= Len(B)
    <2>1. Piece(P.buffer, d, w, v)
      BY DEF Piece
    <2>2. /\ P.buffer \o d \in Seq(Unit) /\ Same((P.buffer \o d) \o w, P.buffer \o v)
         /\ Len(P.buffer) <= Len(P.buffer \o d)
      BY <2>1, Joins, Zenon
    <2> QED
      BY <1>1, <2>2 DEF Same
  <1>3. /\ q # <<>> /\ P.buffer \o v = Sent(c, q) /\ CheckLine(Head(q)) = 0
        /\ HasLine(P, Head(q)) /\ 2 <= Len(P.buffer) /\ D = Fresh
    BY DEF AtHeaders
  <1>4. Stream(c, B, w, q)
    BY <1>2, <1>3 DEF Stream
  <1>5. 2 <= Len(B)
    BY <1>2, <1>3, LenProperties
  <1>6. PICK P0 : P0 = Gets(P, B)
    OBVIOUS
  <1>7. HasLine(P0, Head(q)) /\ P0.buffer = B
    BY <1>3, <1>6, HasLineIs
  <1>8. P0.state = "headers"
    BY <1>7, HasLineIs, Zenon
  <1>9. PICK R : R = ParseHeaders(P0)
    OBVIOUS
  <1>10. FeedData(P, D, d) = IF R.state = "body" THEN ParseBody(R, D) ELSE [P |-> R, D |-> D]
    <2>1. P0 = [P EXCEPT !.buffer = P.buffer \o d]
      BY <1>1, <1>6 DEF Gets
    <2>2. ~(Len(P0.buffer) > MaxBuffer)
      BY <1>1, <1>7
    <2>3. P0.state # "line"
      BY <1>8
    <2> QED
      BY <1>8, <1>9, <2>1, <2>2, <2>3, Zenon DEF FeedData
  <1>11. Fed(c, IF R.state = "body" THEN ParseBody(R, Fresh) ELSE [P |-> R, D |-> Fresh], w, l, q)
    BY <1>3, <1>4, <1>5, <1>7, <1>9, HeadersFed, Zenon
  <1> QED
    BY <1>3, <1>10, <1>11, Zenon

LEMMA FeedBody ==
  ASSUME Honest, OneDecoder, NEW c \in Conns, NEW q \in Seq(Kinds), Alone(q), NEW l,
         NEW P, P.buffer \in Seq(Unit), NEW d \in Seq(Unit), ~(Len(P.buffer \o d) > MaxBuffer),
         NEW w \in Seq(Unit), NEW v, Same(v, d \o w), NEW D, AtBody(c, P, D, v, q)
  PROVE  Fed(c, FeedData(P, D, d), w, l, q)
  <1>1. PICK B : B = P.buffer \o d
    OBVIOUS
  <1>2. B \in Seq(Unit) /\ B \o w = P.buffer \o v /\ Len(P.buffer) <= Len(B)
    <2>1. Piece(P.buffer, d, w, v)
      BY DEF Piece
    <2>2. /\ P.buffer \o d \in Seq(Unit) /\ Same((P.buffer \o d) \o w, P.buffer \o v)
         /\ Len(P.buffer) <= Len(P.buffer \o d)
      BY <2>1, Joins, Zenon
    <2> QED
      BY <1>1, <2>2 DEF Same
  <1>3. PICK r : r = Head(q)
    OBVIOUS
  <1>4. /\ q # <<>> /\ P.buffer \o v = Sent(c, q) /\ 5 <= Len(P.buffer)
        /\ Accepted(r) /\ r.method = "POST" /\ HasHead(P, r)
        /\ r.te = "chunked" => /\ q = <<r>> /\ P.last = Len(P.buffer)
                               /\ D \in Decoders /\ Decoding(c, r, D, P.acc, v)
        /\ r.te # "chunked" => HasLength(r) /\ P.last = 0 /\ P.acc = <<>> /\ D = Fresh
    BY <1>3, Zenon DEF AtBody
  <1>5. Stream(c, B, w, q)
    BY <1>2, <1>4 DEF Stream
  <1>6. 5 <= Len(B) /\ r \in Kinds
    BY <1>2, <1>3, <1>4, LenProperties, HeadTailProperties
  <1>7. PICK P0 : P0 = Gets(P, B)
    OBVIOUS
  <1>8. HasHead(P0, r) /\ P0.buffer = B /\ P0.acc = P.acc /\ P0.last = P.last
    BY <1>4, <1>7, HasHeadIs
  <1>9. P0.state = "body" /\ P0.line = r /\ P0.head = r
    BY <1>8, HasHeadIs, Zenon
  <1>10. FeedData(P, D, d) = ParseBody(P0, D)
    <2>1. P0 = [P EXCEPT !.buffer = P.buffer \o d]
      BY <1>1, <1>7 DEF Gets
    <2>2. ~(Len(P0.buffer) > MaxBuffer)
      BY <1>1, <1>8
    <2>3. P0.state # "line" /\ P0.state # "headers"
      BY <1>9
    <2> QED
      BY <1>9, <2>1, <2>2, <2>3, Zenon DEF FeedData
  <1>11. CASE r.te = "chunked"
    <2>1. ParseBody(P0, D) = TakeChunks(P0, D)
      BY <1>4, <1>9, <1>11, Zenon DEF ParseBody
    <2>2. ChunkedPost(r)
      BY <1>4, <1>11 DEF ChunkedPost
    <2>3. After(B, P0.last) = d
      <3>1. After(B, Len(P.buffer)) = d
        BY <1>1, AfterAll, Zenon
      <3> QED
        BY <1>4, <1>8, <1>11, <3>1
    <2>4. D \in Decoders /\ Decoding(c, r, D, P.acc, d \o w)
      BY <1>4, <1>11 DEF Same
    <2>5. Known(D, d, D.buf \o d) /\ Begins(c, r, Entry(D, P.acc, D.buf \o d), w)
      BY <1>6, <2>4, NextChunks
    <2>6. Fed(c, TakeChunks(P0, D), w, l, q)
      BY <1>4, <1>5, <1>6, <1>8, <1>11, <2>2, <2>3, <2>5, ChunkStage
    <2> QED
      BY <1>10, <2>1, <2>6
  <1>12. CASE r.te # "chunked"
    <2>1. ParseBody(P0, D) = [P |-> TakeBody(P0), D |-> Fresh]
      BY <1>4, <1>9, <1>12, Zenon DEF ParseBody
    <2>2. Headed(P0, r, "body")
      BY <1>4, <1>8, <1>12, HeadedWaits
    <2>3. Fed(c, [P |-> TakeBody(P0), D |-> Fresh], w, l, q)
      BY <1>3, <1>4, <1>5, <1>6, <1>8, <1>12, <2>2, TakeStage
    <2> QED
      BY <1>10, <2>1, <2>3
  <1> QED
    BY <1>11, <1>12

LEMMA FeedStep ==
  ASSUME Honest, OneDecoder, NEW c \in Conns, NEW q \in Seq(Kinds), Alone(q), NEW l, Rest(l),
         NEW P, P.buffer \in Seq(Unit), NEW d \in Seq(Unit), P.state \in {"line", "headers", "body"},
         NEW w \in Seq(Unit), NEW v, Same(v, d \o w), NEW D, Quiet(D), Parsing(c, P, D, v, l, q)
  PROVE  Fed(c, FeedData(P, D, d), w, l, q)
  <1>1. \/ AtLine(c, P, D, v, l, q)
        \/ AtHeaders(c, P, D, v, q)
        \/ AtBody(c, P, D, v, q)
    BY DEF Parsing
  <1>2. ASSUME Len(P.buffer \o d) > MaxBuffer
        PROVE  Fed(c, FeedData(P, D, d), w, l, q)
    <2>1. PICK B : B = P.buffer \o d
      OBVIOUS
    <2>2. B \in Seq(Unit) /\ B \o w = P.buffer \o v
      <3>1. Piece(P.buffer, d, w, v)
        BY DEF Piece
      <3>2. /\ P.buffer \o d \in Seq(Unit) /\ Same((P.buffer \o d) \o w, P.buffer \o v)
           /\ Len(P.buffer) <= Len(P.buffer \o d)
        BY <3>1, Joins, Zenon
      <3> QED
        BY <2>1, <3>2 DEF Same
    <2>3. PICK P0 : P0 = Gets(P, B)
      OBVIOUS
    <2>4. P0.buffer = B /\ Refuses(Full(P))
      <3>1. CASE AtLine(c, P, D, v, l, q)
        <4>1. P = [Clean EXCEPT !.buffer = P.buffer]
          BY <3>1 DEF AtLine
        <4> QED
          BY <2>3, <4>1, CleanGets
      <3>2. CASE AtHeaders(c, P, D, v, q)
        <4>1. HasLine(P, Head(q))
          BY <3>2 DEF AtHeaders
        <4> QED
          BY <2>3, <4>1, HasLineIs
      <3>3. CASE AtBody(c, P, D, v, q)
        <4>1. HasHead(P, Head(q))
          BY <3>3 DEF AtBody
        <4> QED
          BY <2>3, <4>1, HasHeadIs
      <3> QED
        BY <1>1, <3>1, <3>2, <3>3
    <2>5. FeedData(P, D, d) = [P |-> Full(P), D |-> D]
      <3>1. P0 = [P EXCEPT !.buffer = P.buffer \o d]
        BY <2>1, <2>3 DEF Gets
      <3>2. Len(P0.buffer) > MaxBuffer
        BY <1>2, <2>1, <2>4
      <3> QED
        BY <3>1, <3>2, Zenon DEF FeedData, Full
    <2>6. B \o w = Sent(c, q) \/ B \o w = l \o Sent(c, q)
      BY <1>1, <2>2 DEF AtLine, AtHeaders, AtBody
    <2>7. /\ Full(P).state = "error" /\ Full(P).buffer \in Seq(Unit)
          /\ Refused(c, Full(P), l, q)
      <3>1. Same(B \o w, Sent(c, q)) \/ Same(B \o w, l \o Sent(c, q))
        BY <2>6 DEF Same
      <3>2. l \in Seq(Unit) /\ Len(B) > MaxBuffer
        BY <1>2, <2>1 DEF Rest
      <3> QED
        BY <2>2, <2>4, <3>1, <3>2, TooLong
    <2>8. PICK R : R = Full(P)
      OBVIOUS
    <2>9. R.buffer \in Seq(Unit) /\ Parsing(c, R, D, w, l, q)
      BY <2>7, <2>8, Zenon DEF Parsing
    <2>10. ASSUME NEW F, F = [P |-> R, D |-> D]
           PROVE  F.P = R /\ F.D = D
      BY <2>10
    <2> QED
      BY <2>5, <2>8, <2>9, <2>10, Zenon DEF Fed
  <1>3. ASSUME ~(Len(P.buffer \o d) > MaxBuffer)
        PROVE  Fed(c, FeedData(P, D, d), w, l, q)
    <2>1. CASE AtLine(c, P, D, v, l, q)
      BY <1>3, <2>1, FeedLine
    <2>2. CASE AtHeaders(c, P, D, v, q)
      BY <1>3, <2>2, FeedHeaders
    <2>3. CASE AtBody(c, P, D, v, q)
      BY <1>3, <2>3, FeedBody
    <2> QED
      BY <1>1, <2>1, <2>2, <2>3
  <1> QED
    BY <1>2, <1>3

-----------------------------------------------------------------------------
(* A client asks for more. *)
LEMMA AppendIs ==
  ASSUME NEW q \in Seq(Kinds), NEW r \in Kinds
  PROVE  /\ Append(q, r) \in Seq(Kinds) /\ Append(q, r) # <<>>
         /\ q # <<>> => Head(Append(q, r)) = Head(q)
         /\ Len(Append(q, r)) > 1 => q # <<>>
         /\ ToSet(Append(q, r)) = ToSet(q) \cup {r}
  <1>1. /\ Append(q, r) \in Seq(Kinds) /\ Append(q, r) # <<>>
        /\ Len(Append(q, r)) = Len(q) + 1 /\ Len(q) \in Nat
        /\ \A i \in 1..Len(q) : Append(q, r)[i] = q[i]
        /\ Append(q, r)[Len(q) + 1] = r
    BY AppendProperties, LenProperties
  <1>2. q # <<>> => Head(Append(q, r)) = Head(q)
    BY <1>1, HeadTailProperties, EmptySeq
  <1>3. Len(Append(q, r)) > 1 => q # <<>>
    BY <1>1, EmptySeq
  <1>4. ToSet(Append(q, r)) = ToSet(q) \cup {r}
    BY <1>1 DEF ToSet
  <1> QED
    BY <1>1, <1>2, <1>3, <1>4

More(c, q, Q, b, w, v, l) ==
    /\ b \o w = l \o Sent(c, q) => b \o v = l \o Sent(c, Q)
    /\ b \o w = Sent(c, q) => b \o v = Sent(c, Q)
    /\ v # <<>> /\ v \in Seq(Unit)
    /\ Len(l \o Sent(c, q)) > MaxBuffer => Len(l \o Sent(c, Q)) > MaxBuffer

LEMMA SentMore ==
  ASSUME NEW c \in Conns, NEW q \in Seq(Kinds), NEW r \in Kinds, NEW b \in Seq(Unit),
         NEW w \in Seq(Unit), NEW l \in Seq(Unit)
  PROVE  More(c, q, Append(q, r), b, w, w \o Wire(c, r), l)
  <1>1. PICK s, t, u : s = Sent(c, q) /\ t = Wire(c, r) /\ u = Sent(c, Append(q, r))
    OBVIOUS
  <1>2. s \in Seq(Unit) /\ t \in Seq(Unit) /\ u = s \o t /\ Len(t) >= 5
    <2>1. s \in Seq(Unit) /\ u = s \o t
      BY <1>1, SentIs
    <2>2. t \in Seq(Unit) /\ Len(t) = 5 + Len(BodyUnits(c, r)) /\ BodyUnits(c, r) \in Seq(Unit)
      BY <1>1, WireIs, BodyUnitsIs
    <2> QED
      BY <2>1, <2>2, LenProperties
  <1>3. (b \o w) \o t = b \o (w \o t)
    <2>1. t \in Seq(Unit)
      BY <1>2
    <2> QED
      BY <2>1, ConcatAssociative
  <1>4. (l \o s) \o t = l \o (s \o t)
    <2>1. s \in Seq(Unit) /\ t \in Seq(Unit)
      BY <1>2
    <2> QED
      BY <2>1, ConcatAssociative
  <1>5. w \o t # <<>> /\ w \o t \in Seq(Unit)
    BY <1>2, ConcatProperties, LenProperties, EmptySeq
  <1>6. Len((l \o s) \o t) >= Len(l \o s) /\ Len(l \o s) \in Nat /\ Len((l \o s) \o t) \in Nat
    BY <1>2, ConcatProperties, LenProperties
  <1>7. Len(l \o s) > MaxBuffer => Len(l \o u) > MaxBuffer
    BY <1>2, <1>4, <1>6, ParserAssumption
  <1> QED
    BY <1>1, <1>2, <1>3, <1>4, <1>5, <1>7 DEF More

LEMMA AskStep ==
  ASSUME OneDecoder, NEW c \in Conns, NEW q \in Seq(Kinds), NEW r \in Kinds,
         q # <<>> => {r} \cup ToSet(q) \subseteq Pipelined,
         NEW P, P.buffer \in Seq(Unit), NEW w \in Seq(Unit), NEW l, Rest(l),
         NEW D, Parsing(c, P, D, w, l, q)
  PROVE  Alone(Append(q, r)) /\ Parsing(c, P, D, w \o Wire(c, r), l, Append(q, r))
  <1>1. PICK Q, v : Q = Append(q, r) /\ v = w \o Wire(c, r)
    OBVIOUS
  <1>2. /\ Q \in Seq(Kinds) /\ Q # <<>> /\ (q # <<>> => Head(Q) = Head(q))
        /\ (Len(Q) > 1 => q # <<>>) /\ ToSet(Q) = ToSet(q) \cup {r}
    BY <1>1, AppendIs
  <1>3. PICK b : b = P.buffer
    OBVIOUS
  <1>4. b \in Seq(Unit) /\ l \in Seq(Unit)
    BY <1>3 DEF Rest
  <1>5. /\ b \o w = l \o Sent(c, q) => b \o v = l \o Sent(c, Q)
        /\ b \o w = Sent(c, q) => b \o v = Sent(c, Q)
        /\ v # <<>> /\ v \in Seq(Unit)
        /\ Len(l \o Sent(c, q)) > MaxBuffer => Len(l \o Sent(c, Q)) > MaxBuffer
    <2>1. More(c, q, Append(q, r), b, w, w \o Wire(c, r), l)
      BY <1>4, SentMore
    <2>2. More(c, q, Q, b, w, v, l)
      BY <1>1, <2>1
    <2> QED
      BY <2>2 DEF More
  <1>6. Alone(Q)
    BY <1>2 DEF Alone
  <1>7. ASSUME q # <<>>, Accepted(Head(q)), Head(q).method = "POST"
        PROVE  Head(q).te # "chunked"
    <2>1. Head(q) \in Kinds /\ Head(q) \in ToSet(q)
      <3>1. Len(q) \in Nat /\ Len(q) >= 1 /\ Head(q) = q[1] /\ q[1] \in Kinds
        BY <1>7, LenProperties, EmptySeq, HeadTailProperties, ElementOfSeq
      <3> QED
        BY <3>1 DEF ToSet
    <2>2. Head(q) \in Pipelined
      BY <1>7, <2>1
    <2> QED
      BY <1>7, <2>1, <2>2 DEF OneDecoder, ChunkedPost
  <1>8. CASE P.state = "line" /\ AtLine(c, P, D, w, l, q)
    <2>1. AtLine(c, P, D, v, l, Q)
      BY <1>3, <1>5, <1>8, Zenon DEF AtLine
    <2> QED
      BY <1>1, <1>6, <1>8, <2>1, Zenon DEF Parsing
  <1>9. CASE P.state = "headers" /\ AtHeaders(c, P, D, w, q)
    <2>1. AtHeaders(c, P, D, v, Q)
      BY <1>2, <1>3, <1>5, <1>9, Zenon DEF AtHeaders
    <2> QED
      BY <1>1, <1>6, <1>9, <2>1, Zenon DEF Parsing
  <1>10. CASE P.state = "body" /\ AtBody(c, P, D, w, q)
    <2>1. q # <<>> /\ Accepted(Head(q)) /\ Head(q).method = "POST"
      BY <1>10 DEF AtBody
    <2>2. Head(q).te # "chunked" /\ Head(Q) = Head(q)
      BY <1>2, <1>7, <2>1
    <2>3. AtBody(c, P, D, v, Q)
      BY <1>2, <1>3, <1>5, <1>10, <2>2, Zenon DEF AtBody
    <2> QED
      BY <1>1, <1>6, <1>10, <2>3, Zenon DEF Parsing
  <1>11. CASE P.state = "complete" /\ Complete(c, P, D, w, q)
    <2>1. q # <<>> /\ Accepted(Head(q))
      BY <1>11 DEF Complete
    <2>2. ~ChunkedPost(Head(q)) /\ Head(Q) = Head(q)
      BY <1>2, <1>7, <2>1 DEF ChunkedPost
    <2>3. Complete(c, P, D, v, Q)
      BY <1>2, <1>3, <1>5, <1>11, <2>2, Zenon DEF Complete
    <2> QED
      BY <1>1, <1>6, <1>11, <2>3, Zenon DEF Parsing
  <1>12. CASE P.state = "error" /\ Refused(c, P, l, q)
    <2>1. ASSUME Undeserved(P, l) \/ (P.error = 413 /\ Len(l \o Sent(c, q)) > MaxBuffer)
          PROVE  Refused(c, P, l, Q)
      BY <1>5, <1>12, <2>1 DEF Refused
    <2>2. ASSUME ~(Undeserved(P, l) \/ (P.error = 413 /\ Len(l \o Sent(c, q)) > MaxBuffer))
          PROVE  Refused(c, P, l, Q)
      <3>1. q # <<>>
        BY <1>12, <2>2 DEF Refused
      <3>2. Head(Q) = Head(q)
        BY <1>2, <3>1
      <3>3. PICK h : h = Head(q)
        OBVIOUS
      <3>4. \/ P.error = 431 /\ FindBlank(Wire(c, h), 1) > MaxHeader
            \/ /\ P.error \notin {413, 431}
               /\ P.error = FirstFailure(<<CheckLine(h), CheckHeaders(h)>>)
        BY <1>12, <2>2, <3>3 DEF Refused
      <3>5. h = Head(Q) /\ P.pos \in 0..Len(P.buffer) /\ P.keep \in BOOLEAN
            /\ P.error \in {400, 413, 414, 415, 431, 501}
        BY <1>12, <3>2, <3>3 DEF Refused
      <3> QED
        BY <1>2, <3>4, <3>5 DEF Refused
    <2>3. Refused(c, P, l, Q)
      BY <2>1, <2>2
    <2> QED
      BY <1>1, <1>6, <1>12, <2>3, Zenon DEF Parsing
  <1> QED
    BY <1>8, <1>9, <1>10, <1>11, <1>12 DEF Parsing

(* The response has been sent, and the parser goes back to its start. *)
LEMMA TailIs ==
  ASSUME NEW q \in Seq(Kinds), q # <<>>, Alone(q)
  PROVE  /\ Tail(q) \in Seq(Kinds) /\ Alone(Tail(q)) /\ ToSet(Tail(q)) \subseteq Pipelined
         /\ Head(q) \in Kinds
  <1>1. /\ Head(q) \in Kinds /\ Tail(q) \in Seq(Kinds) /\ Len(Tail(q)) = Len(q) - 1
        /\ \A i \in 1..Len(Tail(q)) : Tail(q)[i] = q[i + 1]
        /\ Len(q) \in Nat /\ Len(q) >= 1
    BY HeadTailProperties, LenProperties, EmptySeq
  <1>2. ToSet(Tail(q)) \subseteq Pipelined
    <2>1. CASE Len(q) > 1
      <3>1. \A i \in 1..Len(q) : q[i] \in Pipelined
        BY <2>1 DEF Alone, ToSet
      <3> QED
        BY <1>1, <3>1 DEF ToSet
    <2>2. CASE Len(q) = 1
      <3>1. Tail(q) = <<>>
        <4>1. Tail(q) \in Seq(Kinds) /\ Len(Tail(q)) = 0
          BY <1>1, <2>2
        <4> QED
          BY <4>1, EmptySeq
      <3>2. ToSet(<<>>) = {}
        BY DEF ToSet
      <3> QED
        BY <3>1, <3>2
    <2> QED
      BY <1>1, <2>1, <2>2
  <1> QED
    BY <1>1, <1>2 DEF Alone

(* What comes after the line and the header fields. *)
LEMMA AfterHeader ==
  ASSUME NEW c \in Conns, NEW q \in Seq(Kinds), q # <<>>
  PROVE  After(Sent(c, q), 5) = BodyUnits(c, Head(q)) \o Sent(c, Tail(q))
  <1>1. PICK r, b, t : r = Head(q) /\ b = BodyUnits(c, r) /\ t = Sent(c, Tail(q))
    OBVIOUS
  <1>2. r \in Kinds /\ Tail(q) \in Seq(Kinds)
    BY <1>1, HeadTailProperties
  <1>3. b \in Seq(Unit) /\ t \in Seq(Unit)
    BY <1>1, <1>2, BodyUnitsIs, SentIs
  <1>4. PICK a : a = <<<<"line", r>>, Crlf, <<"head", r>>, Crlf, Crlf>>
    OBVIOUS
  <1>5. a \in Seq(Unit) /\ Len(a) = 5
    BY <1>2, <1>4, Tags DEF Unit
  <1>6. Sent(c, q) = (a \o b) \o t
    <2>1. Sent(c, q) = Wire(c, r) \o t
      BY <1>1, SentIs
    <2>2. Wire(c, r) = a \o b
      BY <1>1, <1>4, Zenon DEF Wire
    <2> QED
      BY <2>1, <2>2
  <1>7. (a \o b) \o t = a \o (b \o t)
    <2>1. a \in Seq(Unit) /\ b \in Seq(Unit) /\ t \in Seq(Unit)
      BY <1>3, <1>5
    <2> QED
      BY <2>1, ConcatAssociative
  <1>8. b \o t \in Seq(Unit)
    BY <1>3, ConcatProperties
  <1>9. After(Sent(c, q), Len(a)) = b \o t
    BY <1>5, <1>6, <1>7, <1>8, AfterAll, Zenon
  <1> QED
    BY <1>1, <1>5, <1>9

LEMMA LeavesIs ==
  ASSUME NEW c \in Conns, NEW r \in Kinds
  PROVE  Rest(Leaves(c, r))
  <1>1. BodyUnits(c, r) \in Seq(Unit) /\ (BodyUnits(c, r) # <<>> => BodyUnits(c, r)[1][1] # "line")
    BY BodyUnitsIs
  <1>2. <<Crlf>> \in Seq(Unit) /\ <<Crlf>>[1][1] # "line"
    BY Tags
  <1>3. <<>> \in Seq(Unit)
    BY EmptySeq
  <1>4. Leaves(c, r) \in {BodyUnits(c, r), <<Crlf>>, <<>>}
    BY DEF Leaves
  <1> QED
    BY <1>1, <1>2, <1>3, <1>4 DEF Rest

LEMMA ResetIs ==
  ASSUME NEW P, NEW b, b = After(P.buffer, P.pos), NEW R, R = Reset(P)
  PROVE  R = [Clean EXCEPT !.buffer = R.buffer] /\ R.state = "line" /\ R.buffer = b
  <1>1. R = [Clean EXCEPT !.buffer = b]
    BY DEF Reset
  <1> QED
    BY <1>1, CleanIs

LEMMA RespondStep ==
  ASSUME Honest, NEW c \in Conns, NEW q \in Seq(Kinds), Alone(q),
         NEW P, P.buffer \in Seq(Unit), NEW w \in Seq(Unit), NEW D, Complete(c, P, D, w, q)
  PROVE  /\ Tail(q) \in Seq(Kinds) /\ Alone(Tail(q)) /\ Rest(Leaves(c, P.head))
         /\ Reset(P).buffer \in Seq(Unit)
         /\ Parsing(c, Reset(P), Fresh, w, Leaves(c, P.head), Tail(q))
  <1>1. PICK r, t, l : r = Head(q) /\ t = Tail(q) /\ l = Leaves(c, r)
    OBVIOUS
  <1>2. /\ q # <<>> /\ P.pos \in 0..Len(P.buffer) /\ Accepted(r) /\ P.head = r
        /\ ChunkedPost(r) => q = <<r>> /\ P.pos = Len(P.buffer) /\ w \in {<<>>, <<Crlf>>}
        /\ ~ChunkedPost(r) => /\ P.buffer \o w = Sent(c, q)
                              /\ P.pos = 5 + IF r.method = "POST" THEN r.body ELSE 0
    BY <1>1, Zenon DEF Complete
  <1>3. t \in Seq(Kinds) /\ Alone(t) /\ ToSet(t) \subseteq Pipelined /\ r \in Kinds
    BY <1>1, <1>2, TailIs
  <1>4. Rest(l) /\ l \in Seq(Unit)
    BY <1>1, <1>3, LeavesIs DEF Rest
  <1>5. PICK b : b = After(P.buffer, P.pos)
    OBVIOUS
  <1>6. PICK R : R = Reset(P)
    OBVIOUS
  <1>7. R = [Clean EXCEPT !.buffer = R.buffer] /\ R.state = "line" /\ R.buffer = b
    BY <1>5, <1>6, ResetIs
  <1>8. b \in Seq(Unit)
    BY <1>2, <1>5, AfterIs
  <1>9. ASSUME b \o w = l \o Sent(c, t) \/ (b \o w = Sent(c, t) /\ l = <<Crlf>> /\ FindCrlf(b, 1) = 0)
        PROVE  AtLine(c, R, Fresh, w, l, t)
    BY <1>3, <1>7, <1>9, Zenon DEF AtLine
  <1>10. CASE ChunkedPost(r)
    <2>1. b = <<>>
      <3>1. Len(b) = 0
        BY <1>2, <1>5, <1>10, AfterIs, LenProperties
      <3> QED
        BY <1>8, <3>1, EmptySeq
    <2>2. l = <<Crlf>>
      BY <1>1, <1>10 DEF Leaves, ChunkedPost
    <2>3. Sent(c, t) = <<>>
      <3>1. t = <<>>
        <4>1. t \in Seq(Kinds) /\ Len(t) = 0
          BY <1>1, <1>2, <1>3, <1>10, HeadTailProperties
        <4> QED
          BY <4>1, EmptySeq
      <3> QED
        BY <1>3, <3>1, SentIs
    <2>4. FindCrlf(b, 1) = 0
      <3>1. Len(b) = 0
        BY <2>1
      <3>2. {j \in 1..Len(b) : b[j] = Crlf} = {}
        BY <3>1
      <3> QED
        BY <3>2 DEF FindCrlf
    <2>5. b \o w = w /\ l \o Sent(c, t) = <<Crlf>>
      BY <1>4, <2>1, <2>2, <2>3, ConcatEmptySeq
    <2>6. ASSUME w = <<>> PROVE AtLine(c, R, Fresh, w, l, t)
      BY <1>9, <2>2, <2>3, <2>4, <2>5, <2>6
    <2>7. ASSUME w = <<Crlf>> PROVE AtLine(c, R, Fresh, w, l, t)
      BY <1>9, <2>5, <2>7
    <2>8. AtLine(c, R, Fresh, w, l, t)
      BY <1>2, <1>10, <2>6, <2>7
    <2> QED
      BY <1>1, <1>2, <1>3, <1>4, <1>6, <1>7, <1>8, <2>8, Zenon DEF Parsing
  <1>11. CASE ~ChunkedPost(r)
    <2>1. b \o w = After(Sent(c, q), P.pos)
      <3>1. PICK B, n : B = P.buffer /\ n = P.pos
        OBVIOUS
      <3>2. IsText(B) /\ IsText(w) /\ n \in 0..Len(B)
        BY <1>2, <3>1 DEF IsText
      <3>3. After(B, n) \o w = After(B \o w, n)
        BY <3>2, AfterJoined
      <3> QED
        BY <1>2, <1>5, <1>11, <3>1, <3>3
    <2>2. Sent(c, t) \in Seq(Unit)
      BY <1>3, SentIs
    <2>3. ASSUME r.method = "POST" PROVE AtLine(c, R, Fresh, w, l, t)
      <3>1. r.te # "chunked" /\ Len(BodyUnits(c, r)) = r.body
        <4>1. r.te # "chunked"
          BY <1>2, <1>11, <2>3 DEF ChunkedPost
        <4>2. r.body \in Nat /\ <<"data", c>> \in Unit
          BY <1>3, KindsAssumption DEF Unit
        <4> QED
          BY <1>3, <4>1, <4>2, BodyUnitsIs, RepeatIs
      <3>2. After(Sent(c, q), 5 + Len(BodyUnits(c, r))) = Sent(c, t)
        <4>1. PICK s, B : s = Sent(c, q) /\ B = BodyUnits(c, r)
          OBVIOUS
        <4>2. After(s, 5 + Len(B)) = Sent(c, Tail(q))
          BY <1>1, <1>2, <4>1, SentStarts
        <4> QED
          BY <1>1, <4>1, <4>2
      <3>3. l = <<>>
        BY <1>1, <2>3, <3>1 DEF Leaves
      <3>4. l \o Sent(c, t) = Sent(c, t)
        BY <2>2, <3>3, ConcatEmptySeq
      <3> QED
        BY <1>2, <1>9, <1>11, <2>1, <2>3, <3>1, <3>2, <3>4
    <2>4. ASSUME r.method # "POST" PROVE AtLine(c, R, Fresh, w, l, t)
      <3>1. l = BodyUnits(c, r)
        BY <1>1, <2>4 DEF Leaves
      <3>2. After(Sent(c, q), 5) = l \o Sent(c, t)
        BY <1>1, <1>2, <3>1, AfterHeader, Zenon
      <3> QED
        BY <1>2, <1>9, <1>11, <2>1, <2>4, <3>2
    <2>5. AtLine(c, R, Fresh, w, l, t)
      BY <2>3, <2>4
    <2> QED
      BY <1>1, <1>2, <1>3, <1>4, <1>6, <1>7, <1>8, <2>5, Zenon DEF Parsing
  <1> QED
    BY <1>10, <1>11

-----------------------------------------------------------------------------
(* The steps. *)
LEMMA SetAt ==
  ASSUME NEW S, NEW f, f = [x \in S |-> f[x]], NEW c \in S, NEW e,
         NEW g, g = [f EXCEPT ![c] = e]
  PROVE  /\ g = [x \in S |-> g[x]] /\ g[c] = e
         /\ \A d \in S : d # c => g[d] = f[d]
  <1>1. DOMAIN f = S
    OBVIOUS
  <1>2. DOMAIN g = S /\ \A x \in S : g[x] = IF x = c THEN e ELSE f[x]
    BY <1>1
  <1>3. g = [x \in S |-> g[x]]
    BY <1>1, <1>2
  <1> QED
    BY <1>2, <1>3

(* The decoder of a connection that has company. *)
LEMMA Company ==
  ASSUME OneDecoder, NEW c \in Conns, NEW d \in Conns, c # d, NEW D, Quiet(D)
  PROVE  D = Fresh
  BY DEF OneDecoder, Quiet

(* A step of c leaves the other connections alone. *)
Untouched(d) ==
    /\ parser'[d] = parser[d] /\ wire'[d] = wire[d] /\ asked'[d] = asked[d]
    /\ open'[d] = open[d] /\ left'[d] = left[d]

LEMMA Others ==
  ASSUME OneDecoder, IInv, NEW c \in Conns, ConnInv(c)', Quiet(decoder'),
         NEW d \in Conns, d # c => Untouched(d)
  PROVE  ConnInv(d)'
  <1>1. CASE d = c
    BY <1>1
  <1>2. CASE d # c
    <2>1. ConnInv(d) /\ Quiet(decoder)
      BY DEF IInv
    <2>2. decoder = Fresh /\ decoder' = Fresh
      BY <1>2, <2>1, Company
    <2>3. decoder' = decoder
      BY <2>2
    <2> QED
      BY <1>2, <2>1, <2>3 DEF Untouched, ConnInv
  <1> QED
    BY <1>1, <1>2

LEMMA InitInv ==
  ASSUME Init
  PROVE  IInv
  <1>1. /\ wire = [c \in Conns |-> <<>>] /\ asked = [c \in Conns |-> <<>>]
        /\ count = [c \in Conns |-> 0] /\ open = [c \in Conns |-> TRUE]
        /\ left = [c \in Conns |-> <<>>] /\ parser = [c \in Conns |-> Clean]
        /\ decoder = Fresh
    BY DEF Init
  <1>2. <<>> \in Seq(Unit) /\ <<>> \in Seq(Kinds)
    BY EmptySeq
  <1>3. /\ count \in [Conns -> 0..MaxRequests] /\ open \in [Conns -> BOOLEAN]
        /\ asked \in [Conns -> Seq(Kinds)] /\ wire \in [Conns -> Seq(Unit)]
        /\ left \in [Conns -> Seq(Unit)] /\ parser = [c \in Conns |-> parser[c]]
        /\ Quiet(decoder)
    BY <1>1, <1>2, ParserAssumption DEF Quiet
  <1>4. ASSUME NEW c \in Conns
        PROVE  ConnInv(c)
    <2>1. /\ wire[c] = <<>> /\ asked[c] = <<>> /\ open[c] /\ left[c] = <<>> /\ parser[c] = Clean
      BY <1>1
    <2>2. PICK P : P = Clean
      OBVIOUS
    <2>3. P.buffer = <<>> /\ P.state = "line" /\ P = [Clean EXCEPT !.buffer = P.buffer]
      BY <2>2 DEF Clean
    <2>4. Rest(<<>>) /\ Alone(<<>>)
      BY <1>2 DEF Rest, Alone
    <2>5. Sent(c, <<>>) = <<>>
      BY <1>2, SentIs
    <2>6. <<>> \o <<>> = <<>>
      OBVIOUS
    <2>7. FindCrlf(<<>>, 1) = 0
      BY DEF FindCrlf
    <2>8. AtLine(c, P, Fresh, <<>>, <<>>, <<>>)
      BY <2>3, <2>5, <2>6, <2>7, Zenon DEF AtLine
    <2>9. Parsing(c, P, Fresh, <<>>, <<>>, <<>>)
      BY <2>3, <2>8, Zenon DEF Parsing
    <2> QED
      BY <1>1, <1>2, <2>1, <2>2, <2>3, <2>4, <2>9 DEF ConnInv
  <1> QED
    BY <1>3, <1>4 DEF IInv

LEMMA AskInv ==
  ASSUME OneDecoder, IInv, NEW c \in Conns, Ask(c)
  PROVE  IInv'
  <1>1. PICK r \in Kinds :
            /\ asked[c] # <<>> => {r} \cup ToSet(asked[c]) \subseteq Pipelined
            /\ asked' = [asked EXCEPT ![c] = Append(asked[c], r)]
            /\ wire' = [wire EXCEPT ![c] = wire[c] \o Wire(c, r)]
    BY DEF Ask
  <1>2. /\ open[c] /\ count[c] < MaxRequests /\ count' = [count EXCEPT ![c] = count[c] + 1]
        /\ open' = open /\ left' = left /\ parser' = parser /\ decoder' = decoder
    BY DEF Ask
  <1>3. /\ count \in [Conns -> 0..MaxRequests] /\ open \in [Conns -> BOOLEAN]
        /\ asked \in [Conns -> Seq(Kinds)] /\ wire \in [Conns -> Seq(Unit)]
        /\ left \in [Conns -> Seq(Unit)] /\ parser = [x \in Conns |-> parser[x]]
        /\ Quiet(decoder) /\ ConnInv(c)
    BY DEF IInv
  <1>4. PICK q, w : q = asked[c] /\ w = wire[c]
    OBVIOUS
  <1>5. q \in Seq(Kinds) /\ w \in Seq(Unit)
    BY <1>3, <1>4
  <1>6. /\ parser[c].buffer \in Seq(Unit) /\ Rest(left[c])
        /\ Parsing(c, parser[c], decoder, w, left[c], q)
    BY <1>2, <1>3, <1>4 DEF ConnInv
  <1>7. Alone(Append(q, r)) /\ Parsing(c, parser[c], decoder, w \o Wire(c, r), left[c], Append(q, r))
    BY <1>1, <1>4, <1>5, <1>6, AskStep
  <1>8. Append(q, r) \in Seq(Kinds) /\ w \o Wire(c, r) \in Seq(Unit)
    <2>1. Wire(c, r) \in Seq(Unit)
      BY WireIs
    <2> QED
      BY <1>5, <2>1, AppendIs, ConcatProperties
  <1>9. asked'[c] = Append(q, r) /\ wire'[c] = w \o Wire(c, r)
    BY <1>1, <1>3, <1>4
  <1>10. ConnInv(c)'
    BY <1>2, <1>6, <1>7, <1>9 DEF ConnInv
  <1>11. /\ count' \in [Conns -> 0..MaxRequests] /\ open' \in [Conns -> BOOLEAN]
         /\ asked' \in [Conns -> Seq(Kinds)] /\ wire' \in [Conns -> Seq(Unit)]
         /\ left' \in [Conns -> Seq(Unit)] /\ parser' = [x \in Conns |-> parser'[x]]
         /\ Quiet(decoder')
    <2>1. count' \in [Conns -> 0..MaxRequests]
      BY <1>2, <1>3, ParserAssumption
    <2> QED
      BY <1>1, <1>2, <1>3, <1>4, <1>8, <2>1
  <1>12. ASSUME NEW d \in Conns PROVE ConnInv(d)'
    <2>1. d # c => Untouched(d)
      BY <1>1, <1>2, <1>3 DEF Untouched
    <2> QED
      BY <1>10, <1>11, <2>1, Others
  <1> QED
    BY <1>11, <1>12 DEF IInv

LEMMA ReceiveInv ==
  ASSUME Honest, OneDecoder, IInv, NEW c \in Conns, Receive(c)
  PROVE  IInv'
  <1>1. PICK n \in 1..Len(wire[c]) :
            LET fed == FeedData(parser[c], decoder, SubSeq(wire[c], 1, n)) IN
            /\ wire' = [wire EXCEPT ![c] = After(wire[c], n)]
            /\ parser' = [parser EXCEPT ![c] = fed.P]
            /\ decoder' = fed.D
    BY DEF Receive
  <1>2. /\ open[c] /\ parser[c].state \in {"line", "headers", "body"}
        /\ asked' = asked /\ count' = count /\ open' = open /\ left' = left
    BY DEF Receive, Reading
  <1>3. /\ count \in [Conns -> 0..MaxRequests] /\ open \in [Conns -> BOOLEAN]
        /\ asked \in [Conns -> Seq(Kinds)] /\ wire \in [Conns -> Seq(Unit)]
        /\ left \in [Conns -> Seq(Unit)] /\ parser = [x \in Conns |-> parser[x]]
        /\ Quiet(decoder) /\ ConnInv(c)
    BY DEF IInv
  <1>4. PICK v, d, w : v = wire[c] /\ d = SubSeq(v, 1, n) /\ w = After(v, n)
    OBVIOUS
  <1>5. v \in Seq(Unit) /\ n \in 0..Len(v)
    BY <1>3, <1>4, LenProperties
  <1>6. d \in Seq(Unit) /\ w \in Seq(Unit) /\ Same(v, d \o w)
    <2>1. d \in Seq(Unit)
      BY <1>4, <1>5, UptoIs
    <2>2. w \in Seq(Unit)
      BY <1>4, <1>5, AfterIs
    <2>3. d \o w = v
      BY <1>4, <1>5, CutJoin
    <2> QED
      BY <2>1, <2>2, <2>3 DEF Same
  <1>7. PICK P, q, l : P = parser[c] /\ q = asked[c] /\ l = left[c]
    OBVIOUS
  <1>8. PICK F : F = FeedData(P, decoder, d)
    OBVIOUS
  <1>9. /\ q \in Seq(Kinds) /\ Alone(q) /\ Rest(l) /\ P.buffer \in Seq(Unit)
        /\ P.state \in {"line", "headers", "body"} /\ Quiet(decoder)
        /\ Parsing(c, P, decoder, v, l, q)
    BY <1>2, <1>3, <1>4, <1>7 DEF ConnInv
  <1>10. Fed(c, F, w, l, q)
    BY <1>6, <1>8, <1>9, FeedStep
  <1>11. F.P.buffer \in Seq(Unit) /\ Quiet(F.D) /\ Parsing(c, F.P, F.D, w, l, q)
    BY <1>10 DEF Fed
  <1>12. /\ wire' = [wire EXCEPT ![c] = w] /\ parser' = [parser EXCEPT ![c] = F.P]
         /\ decoder' = F.D
    BY <1>1, <1>4, <1>7, <1>8
  <1>13. /\ parser' = [x \in Conns |-> parser'[x]] /\ parser'[c] = F.P
         /\ \A x \in Conns : x # c => parser'[x] = parser[x]
    BY <1>3, <1>12, SetAt
  <1>14. wire'[c] = w /\ asked'[c] = q /\ left'[c] = l /\ open'[c]
    BY <1>2, <1>3, <1>7, <1>12
  <1>15. ConnInv(c)'
    BY <1>9, <1>11, <1>12, <1>13, <1>14 DEF ConnInv
  <1>16. /\ count' \in [Conns -> 0..MaxRequests] /\ open' \in [Conns -> BOOLEAN]
         /\ asked' \in [Conns -> Seq(Kinds)] /\ wire' \in [Conns -> Seq(Unit)]
         /\ left' \in [Conns -> Seq(Unit)] /\ Quiet(decoder')
    BY <1>2, <1>3, <1>6, <1>11, <1>12
  <1>17. ASSUME NEW x \in Conns PROVE ConnInv(x)'
    <2>1. x # c => Untouched(x)
      BY <1>2, <1>3, <1>12, <1>13 DEF Untouched
    <2> QED
      BY <1>15, <1>16, <2>1, Others
  <1> QED
    BY <1>13, <1>16, <1>17 DEF IInv

(* A connection is closed: the response asks for it, or the client leaves. *)
Closes(c) ==
    /\ open' = [open EXCEPT ![c] = FALSE] /\ wire' = [wire EXCEPT ![c] = <<>>]
    /\ asked' = [asked EXCEPT ![c] = <<>>] /\ parser' = [parser EXCEPT ![c] = Clean]
    /\ left' = left /\ decoder' = decoder /\ count' = count

LEMMA CloseInv ==
  ASSUME OneDecoder, IInv, NEW c \in Conns, Closes(c)
  PROVE  IInv'
  <1>1. /\ count \in [Conns -> 0..MaxRequests] /\ open \in [Conns -> BOOLEAN]
        /\ asked \in [Conns -> Seq(Kinds)] /\ wire \in [Conns -> Seq(Unit)]
        /\ left \in [Conns -> Seq(Unit)] /\ parser = [x \in Conns |-> parser[x]]
        /\ Quiet(decoder) /\ ConnInv(c)
    BY DEF IInv
  <1>2. <<>> \in Seq(Unit) /\ <<>> \in Seq(Kinds)
    BY EmptySeq
  <1>3. /\ parser' = [x \in Conns |-> parser'[x]] /\ parser'[c] = Clean
        /\ \A x \in Conns : x # c => parser'[x] = parser[x]
    BY <1>1, SetAt DEF Closes
  <1>4. /\ wire'[c] = <<>> /\ asked'[c] = <<>> /\ ~open'[c] /\ left'[c] = left[c]
        /\ wire' \in [Conns -> Seq(Unit)] /\ asked' \in [Conns -> Seq(Kinds)]
        /\ open' \in [Conns -> BOOLEAN] /\ left' \in [Conns -> Seq(Unit)]
        /\ count' \in [Conns -> 0..MaxRequests] /\ Quiet(decoder')
    BY <1>1, <1>2 DEF Closes
  <1>5. ConnInv(c)'
    <2>1. Clean.buffer = <<>>
      BY DEF Clean
    <2>2. Alone(<<>>) /\ Rest(left[c])
      BY <1>1 DEF Alone, ConnInv
    <2> QED
      BY <1>2, <1>3, <1>4, <2>1, <2>2 DEF ConnInv
  <1>6. ASSUME NEW x \in Conns PROVE ConnInv(x)'
    <2>1. x # c => Untouched(x)
      BY <1>1, <1>3 DEF Closes, Untouched
    <2> QED
      BY <1>4, <1>5, <2>1, Others
  <1> QED
    BY <1>3, <1>4, <1>6 DEF IInv

LEMMA RespondInv ==
  ASSUME Honest, OneDecoder, IInv, NEW c \in Conns, Respond(c)
  PROVE  IInv'
  <1>1. /\ count \in [Conns -> 0..MaxRequests] /\ open \in [Conns -> BOOLEAN]
        /\ asked \in [Conns -> Seq(Kinds)] /\ wire \in [Conns -> Seq(Unit)]
        /\ left \in [Conns -> Seq(Unit)] /\ parser = [x \in Conns |-> parser[x]]
        /\ Quiet(decoder) /\ ConnInv(c)
    BY DEF IInv
  <1>2. open[c] /\ parser[c].state \notin {"line", "headers", "body"}
    BY DEF Respond, Reading
  <1>3. CASE parser[c].state = "error" \/ ~parser[c].keep
    <2>1. Closes(c)
      BY <1>3 DEF Respond, Closes
    <2> QED
      BY <2>1, CloseInv
  <1>4. CASE ~(parser[c].state = "error" \/ ~parser[c].keep)
    <2>1. /\ asked' = [asked EXCEPT ![c] = Tail(asked[c])]
          /\ left' = [left EXCEPT ![c] = Leaves(c, parser[c].head)]
          /\ parser' = [parser EXCEPT ![c] = Reset(parser[c])]
          /\ decoder' = Fresh /\ open' = open /\ wire' = wire /\ count' = count
      BY <1>4 DEF Respond
    <2>2. PICK P, q, w : P = parser[c] /\ q = asked[c] /\ w = wire[c]
      OBVIOUS
    <2>3. /\ P.buffer \in Seq(Unit) /\ Alone(q) /\ q \in Seq(Kinds) /\ w \in Seq(Unit)
          /\ Parsing(c, P, decoder, w, left[c], q)
      BY <1>1, <1>2, <2>2 DEF ConnInv
    <2>4. Complete(c, P, decoder, w, q)
      BY <1>2, <1>4, <2>2, <2>3 DEF Parsing
    <2>5. PICK l, R : l = Leaves(c, P.head) /\ R = Reset(P)
      OBVIOUS
    <2>6. /\ Tail(q) \in Seq(Kinds) /\ Alone(Tail(q)) /\ Rest(l) /\ R.buffer \in Seq(Unit)
          /\ Parsing(c, R, Fresh, w, l, Tail(q))
      BY <2>3, <2>4, <2>5, RespondStep
    <2>7. /\ asked' = [asked EXCEPT ![c] = Tail(q)] /\ left' = [left EXCEPT ![c] = l]
          /\ parser' = [parser EXCEPT ![c] = R]
      BY <2>1, <2>2, <2>5
    <2>8. /\ parser' = [x \in Conns |-> parser'[x]] /\ parser'[c] = R
          /\ \A x \in Conns : x # c => parser'[x] = parser[x]
      BY <1>1, <2>7, SetAt
    <2>9. /\ wire'[c] = w /\ asked'[c] = Tail(q) /\ left'[c] = l /\ open'[c]
          /\ wire' \in [Conns -> Seq(Unit)] /\ asked' \in [Conns -> Seq(Kinds)]
          /\ open' \in [Conns -> BOOLEAN] /\ left' \in [Conns -> Seq(Unit)]
          /\ count' \in [Conns -> 0..MaxRequests] /\ Quiet(decoder')
      BY <1>1, <1>2, <2>1, <2>2, <2>6, <2>7 DEF Rest, Quiet
    <2>10. ConnInv(c)'
      BY <2>1, <2>6, <2>8, <2>9 DEF ConnInv
    <2>11. ASSUME NEW x \in Conns PROVE ConnInv(x)'
      <3>1. x # c => Untouched(x)
        BY <1>1, <2>1, <2>7, <2>8 DEF Untouched
      <3> QED
        BY <2>9, <2>10, <3>1, Others
    <2> QED
      BY <2>8, <2>9, <2>11 DEF IInv
  <1> QED
    BY <1>3, <1>4

(* A step that changes nothing. *)
LEMMA StutterInv ==
  ASSUME IInv, UNCHANGED vars
  PROVE  IInv'
  BY DEF IInv, ConnInv, vars

LEMMA NextInv ==
  ASSUME Honest, OneDecoder, IInv, [Next]_vars
  PROVE  IInv'
  <1>1. CASE UNCHANGED vars
    BY <1>1, StutterInv
  <1>2. ASSUME NEW c \in Conns, Ask(c) PROVE IInv'
    BY <1>2, AskInv
  <1>3. ASSUME NEW c \in Conns, Receive(c) PROVE IInv'
    BY <1>3, ReceiveInv
  <1>4. ASSUME NEW c \in Conns, Respond(c) PROVE IInv'
    BY <1>4, RespondInv
  <1>5. ASSUME NEW c \in Conns, Leave(c) PROVE IInv'
    <2>1. Closes(c)
      BY <1>5 DEF Leave, Closes
    <2> QED
      BY <2>1, CloseInv
  <1> QED
    BY <1>1, <1>2, <1>3, <1>4, <1>5 DEF Next

LEMMA Invariant ==
  ASSUME Honest, OneDecoder
  PROVE  Spec => []IInv
  <1>1. Init => IInv
    BY InitInv
  <1>2. IInv /\ [Next]_vars => IInv'
    BY NextInv
  <1> QED
    BY <1>1, <1>2, PTL DEF Spec

-----------------------------------------------------------------------------
(* What follows from the invariant. *)

(* An open connection, and what is unanswered on it. *)
Open(c, P, D, w, l, q) ==
    /\ P = parser[c] /\ D = decoder /\ w = wire[c] /\ l = left[c] /\ q = asked[c]
    /\ q \in Seq(Kinds) /\ l \in Seq(Unit) /\ P.buffer \in Seq(Unit)
    /\ Parsing(c, P, D, w, l, q)

LEMMA OpenIs ==
  ASSUME IInv, NEW c \in Conns
  PROVE  \/ /\ open[c]
            /\ Open(c, parser[c], decoder, wire[c], left[c], asked[c])
         \/ ~open[c] /\ parser[c] = Clean /\ asked[c] = <<>>
  <1>1. /\ asked[c] \in Seq(Kinds) /\ left[c] \in Seq(Unit) /\ ConnInv(c)
        /\ open[c] \in BOOLEAN
    BY DEF IInv
  <1> QED
    BY <1>1 DEF ConnInv, Open

LEMMA CleanFields ==
  /\ Clean.state = "line" /\ Clean.pos \in 0..Len(Clean.buffer) /\ Clean.error = 0
  /\ Clean.keep \in BOOLEAN
  <1>1. Clean.state = "line" /\ Clean.pos = 0 /\ Clean.buffer = <<>> /\ Clean.error = 0
    BY DEF Clean
  <1>2. Clean.keep \in BOOLEAN
    <2>1. Clean.keep = TRUE
      BY DEF Clean
    <2> QED
      BY <2>1, Zenon
  <1> QED
    BY <1>1, <1>2, EmptySeq

LEMMA WaitingFields ==
  ASSUME NEW P, NEW r
  PROVE  /\ HasLine(P, r) => P.pos = 2 /\ P.error = 0 /\ P.keep \in BOOLEAN
         /\ HasHead(P, r) => P.pos = 5 /\ P.error = 0 /\ P.keep \in BOOLEAN
  <1> DEFINE k == (r.connection # "close")
             x == IF HasLength(r) THEN r.cl ELSE 0
             J(B) == [Clean EXCEPT !.buffer = B, !.state = "headers", !.pos = 2, !.line = r]
             K(B, n, a) == [Clean EXCEPT !.buffer = B, !.state = "body", !.pos = 5, !.line = r,
                                         !.head = r, !.keep = k, !.expected = x,
                                         !.last = n, !.acc = a]
  <1>1. /\ HasLine(P, r) => P = J(P.buffer)
        /\ HasHead(P, r) => P = K(P.buffer, P.last, P.acc)
    BY Zenon DEF HasLine, HasHead
  <1>2. k \in BOOLEAN
    BY Zenon
  <1> HIDE DEF k, x
  <1>3. PICK B, n, a : B = P.buffer /\ n = P.last /\ a = P.acc
    OBVIOUS
  <1>4. ASSUME NEW A, A = J(B) PROVE A.pos = 2 /\ A.error = 0
    BY <1>4, CleanIs
  <1>5. ASSUME NEW A, A = K(B, n, a) PROVE A.pos = 5 /\ A.error = 0 /\ A.keep = k
    BY <1>5, CleanIs
  <1> HIDE DEF J, K
  <1>6. ASSUME HasLine(P, r) PROVE P.pos = 2 /\ P.error = 0 /\ P.keep \in BOOLEAN
    <2>1. P = J(B)
      BY <1>1, <1>3, <1>6, Zenon
    <2> QED
      BY <1>4, <1>6, <2>1, HasLineIs, Zenon
  <1>7. ASSUME HasHead(P, r) PROVE P.pos = 5 /\ P.error = 0 /\ P.keep \in BOOLEAN
    <2>1. P = K(B, n, a)
      BY <1>1, <1>3, <1>7, Zenon
    <2> QED
      BY <1>2, <1>5, <2>1, Zenon
  <1> QED
    BY <1>6, <1>7, Zenon

LEMMA ParserFields ==
  ASSUME NEW c, NEW P, NEW D, NEW w, NEW l, NEW q,
         P.buffer \in Seq(Unit), Parsing(c, P, D, w, l, q)
  PROVE  /\ P.state \in {"line", "headers", "body", "complete", "error"}
         /\ P.pos \in 0..Len(P.buffer) /\ P.keep \in BOOLEAN
         /\ P.error \in {0, 400, 413, 414, 415, 431, 501}
  <1>1. PICK B : B = P.buffer
    OBVIOUS
  <1>2. Len(B) \in Nat
    BY <1>1, LenProperties
  <1>3. CASE P.state = "line" /\ AtLine(c, P, D, w, l, q)
    <2>1. P = [Clean EXCEPT !.buffer = B]
      BY <1>1, <1>3 DEF AtLine
    <2>2. P.pos = 0 /\ P.error = 0
      BY <2>1, CleanIs
    <2>3. P.keep \in BOOLEAN
      BY <1>1, <2>1, CleanGets, Zenon
    <2> QED
      BY <1>1, <1>2, <1>3, <2>2, <2>3
  <1>4. CASE P.state = "headers" /\ AtHeaders(c, P, D, w, q)
    <2>1. HasLine(P, Head(q)) /\ 2 <= Len(B)
      BY <1>1, <1>4 DEF AtHeaders
    <2>2. P.pos = 2 /\ P.error = 0 /\ P.keep \in BOOLEAN
      BY <2>1, WaitingFields, Zenon
    <2> QED
      BY <1>1, <1>2, <1>4, <2>1, <2>2
  <1>5. CASE P.state = "body" /\ AtBody(c, P, D, w, q)
    <2>1. HasHead(P, Head(q)) /\ 5 <= Len(B)
      BY <1>1, <1>5 DEF AtBody
    <2>2. P.pos = 5 /\ P.error = 0 /\ P.keep \in BOOLEAN
      BY <2>1, WaitingFields, Zenon
    <2> QED
      BY <1>1, <1>2, <1>5, <2>1, <2>2
  <1>6. CASE P.state = "complete" /\ Complete(c, P, D, w, q)
    <2>1. P.pos \in 0..Len(P.buffer) /\ P.error = 0 /\ P.keep = (Head(q).connection # "close")
      BY <1>6 DEF Complete
    <2>2. P.keep \in BOOLEAN
      BY <2>1, Zenon
    <2> QED
      BY <1>6, <2>1, <2>2
  <1>7. CASE P.state = "error" /\ Refused(c, P, l, q)
    BY <1>7 DEF Refused
  <1> QED
    BY <1>3, <1>4, <1>5, <1>6, <1>7 DEF Parsing

(* The states of the parser and of the decoder, for every set of            *)
(* connections and requests: pos never passes the end of buffer, and no     *)
(* status but the seven is ever set.                                        *)
THEOREM ParserTypes ==
  ASSUME Honest, OneDecoder
  PROVE  Spec => []TypeOK
  <1>1. ASSUME IInv PROVE TypeOK
    <2>1. count \in [Conns -> 0..MaxRequests] /\ open \in [Conns -> BOOLEAN]
      BY <1>1 DEF IInv
    <2>2. decoder.head \in {"none", "chunked", "other"}
      BY <1>1 DEF IInv, Quiet, Fresh, Decoders
    <2>3. ASSUME NEW c \in Conns
          PROVE  /\ asked[c] \in Seq(Kinds)
                 /\ parser[c].state \in {"line", "headers", "body", "complete", "error"}
                 /\ parser[c].pos \in 0..Len(parser[c].buffer)
                 /\ parser[c].error \in {0, 400, 413, 414, 415, 431, 501}
                 /\ parser[c].keep \in BOOLEAN
      <3>1. asked[c] \in Seq(Kinds)
        BY <1>1 DEF IInv
      <3>2. CASE open[c] /\ Open(c, parser[c], decoder, wire[c], left[c], asked[c])
        <4>1. /\ parser[c].buffer \in Seq(Unit)
              /\ Parsing(c, parser[c], decoder, wire[c], left[c], asked[c])
          BY <3>2 DEF Open
        <4> QED
          BY <3>1, <4>1, ParserFields
      <3>3. CASE parser[c] = Clean
        BY <3>1, <3>3, CleanFields
      <3> QED
        BY <1>1, <3>2, <3>3, OpenIs
    <2> QED
      BY <2>1, <2>2, <2>3 DEF TypeOK
  <1>2. Spec => []IInv
    BY Invariant
  <1> QED
    BY <1>1, <1>2, PTL

(* What the parser hands on is the oldest unanswered request of its client, *)
(* of one piece, with the body the client meant: for every cut of the bytes *)
(* by recv, whatever the request before has left in the buffer.             *)
THEOREM RequestsIntact ==
  ASSUME Honest, OneDecoder
  PROVE  Spec => []RequestIntact
  <1>1. ASSUME IInv PROVE RequestIntact
    <2>1. ASSUME NEW c \in Conns, parser[c].state = "complete"
          PROVE  /\ asked[c] # <<>>
                 /\ parser[c].line = Head(asked[c]) /\ parser[c].head = Head(asked[c])
                 /\ parser[c].body = IF Head(asked[c]).method = "POST"
                                     THEN Payload(c, Head(asked[c])) ELSE <<>>
      <3>1. parser[c] # Clean
        BY <2>1, CleanFields
      <3>2. Parsing(c, parser[c], decoder, wire[c], left[c], asked[c])
        BY <1>1, <3>1, OpenIs DEF Open
      <3>3. Complete(c, parser[c], decoder, wire[c], asked[c])
        BY <2>1, <3>2 DEF Parsing
      <3> QED
        BY <3>3 DEF Complete
    <2> QED
      BY <2>1 DEF RequestIntact
  <1>2. Spec => []IInv
    BY Invariant
  <1> QED
    BY <1>1, <1>2, PTL

(* A request is refused for its own faults: the status is that of its first *)
(* failing check, or one of the limits, which its client has exceeded; or   *)
(* what was taken for a request line begins what the request before left.   *)
THEOREM RefusalsDeserved ==
  ASSUME Honest, OneDecoder
  PROVE  Spec => []RefusalDeserved
  <1>1. ASSUME IInv PROVE RefusalDeserved
    <2>1. ASSUME NEW c \in Conns, parser[c].state = "error", ~Leftover(c)
          PROVE  IF parser[c].error = 413 THEN Len(left[c] \o Unanswered(c)) > MaxBuffer
                 ELSE /\ asked[c] # <<>>
                      /\ LET r == Head(asked[c]) IN
                         IF parser[c].error = 431 THEN FindBlank(Wire(c, r), 1) > MaxHeader
                         ELSE parser[c].error = FirstFailure(<<CheckLine(r), CheckHeaders(r)>>)
      <3>1. parser[c] # Clean
        BY <2>1, CleanFields
      <3>2. Parsing(c, parser[c], decoder, wire[c], left[c], asked[c])
        BY <1>1, <3>1, OpenIs DEF Open
      <3>3. PICK P, l, q : P = parser[c] /\ l = left[c] /\ q = asked[c]
        OBVIOUS
      <3>4. Refused(c, P, l, q)
        BY <2>1, <3>2, <3>3 DEF Parsing
      <3>5. ~Undeserved(P, l)
        BY <2>1, <3>3 DEF Undeserved, Leftover
      <3>6. Unanswered(c) = Sent(c, q)
        BY <3>3, Zenon DEF Unanswered, Sent
      <3>7. IF P.error = 413 THEN Len(l \o Sent(c, q)) > MaxBuffer
            ELSE /\ q # <<>>
                 /\ IF P.error = 431 THEN FindBlank(Wire(c, Head(q)), 1) > MaxHeader
                    ELSE P.error = FirstFailure(<<CheckLine(Head(q)), CheckHeaders(Head(q))>>)
        BY <3>4, <3>5 DEF Refused
      <3> QED
        BY <3>3, <3>6, <3>7
    <2> QED
      BY <2>1, Zenon DEF RefusalDeserved
  <1>2. Spec => []IInv
    BY Invariant
  <1> QED
    BY <1>1, <1>2, PTL

LEMMA CrlfAt ==
  ASSUME NEW b, Len(b) \in Nat, NEW j \in 1..Len(b), b[j] = Crlf
  PROVE  FindCrlf(b, 1) # 0
  <1>1. PICK k : k = FindCrlf(b, 1)
    OBVIOUS
  <1>2. k = 0 => \A i \in 1..Len(b) : b[i] # Crlf
    BY <1>1, FindCrlfIs
  <1> QED
    BY <1>1, <1>2

LEMMA BlankAt ==
  ASSUME NEW b, Len(b) \in Nat, NEW j \in 3..(Len(b) - 1), b[j] = Crlf, b[j + 1] = Crlf
  PROVE  FindBlank(b, 3) # 0
  <1>1. PICK k : k = FindBlank(b, 3)
    OBVIOUS
  <1>2. k = 0 => \A i \in 3..(Len(b) - 1) : ~(b[i] = Crlf /\ b[i + 1] = Crlf)
    BY <1>1, FindBlankIs
  <1> QED
    BY <1>1, <1>2

(* A text that holds a request holds the CRLF of its request line.          *)
LEMMA CrlfThere ==
  ASSUME NEW c \in Conns, NEW q \in Seq(Kinds), q # <<>>, NEW l \in Seq(Unit),
         NEW b, b = l \o Sent(c, q)
  PROVE  FindCrlf(b, 1) # 0
  <1>1. PICK s : s = Sent(c, q)
    OBVIOUS
  <1>2. s \in Seq(Unit) /\ 5 <= Len(s) /\ s[2] = Crlf
    <2>1. PICK t : t = BodyUnits(c, Head(q))
      OBVIOUS
    <2>2. s \in Seq(Unit) /\ Len(t) \in Nat /\ Len(s) \in Nat /\ 5 + Len(t) <= Len(s) /\ s[2] = Crlf
      BY <1>1, <2>1, SentStarts
    <2> QED
      BY <2>2
  <1>3. b \in Seq(Unit) /\ Len(b) = Len(l) + Len(s) /\ Len(l) \in Nat /\ Len(s) \in Nat
        /\ b[Len(l) + 2] = Crlf
    <2>1. /\ b \in Seq(Unit) /\ Len(b) = Len(l) + Len(s) /\ Len(l) \in Nat /\ Len(s) \in Nat
          /\ \A i \in 1..Len(s) : b[Len(l) + i] = s[i]
      <3>1. b = l \o s
        BY <1>1
      <3> QED
        BY <1>2, <3>1, Joined
    <2> QED
      BY <1>2, <2>1
  <1>4. PICK j : j = Len(l) + 2
    OBVIOUS
  <1>5. Len(b) \in Nat /\ j \in 1..Len(b) /\ b[j] = Crlf
    BY <1>2, <1>3, <1>4
  <1> QED
    BY <1>5, CrlfAt

(* When all that was sent has been received. *)
LEMMA Stalled ==
  ASSUME Honest, NEW c \in Conns, NEW P, P.buffer \in Seq(Unit), NEW D, NEW l \in Seq(Unit),
         NEW q \in Seq(Kinds), q # <<>>, P.state \in {"line", "headers", "body"},
         Parsing(c, P, D, <<>>, l, q)
  PROVE  P = [Clean EXCEPT !.buffer = l \o Sent(c, q)] /\ ToSet(q) \subseteq Pipelined
  <1>1. PICK b, s, r, t : b = P.buffer /\ s = Sent(c, q) /\ r = Head(q) /\ t = BodyUnits(c, r)
    OBVIOUS
  <1>2. /\ b \in Seq(Unit) /\ b \o <<>> = b
    BY <1>1, ConcatEmptySeq
  <1>3. /\ r \in Kinds /\ s \in Seq(Unit) /\ Len(s) \in Nat /\ Len(t) \in Nat
        /\ 5 + Len(t) <= Len(s) /\ s[4] = Crlf /\ s[5] = Crlf
    BY <1>1, SentStarts
  <1>4. CASE AtLine(c, P, D, <<>>, l, q)
    <2>1. b = l \o s \/ (b = s /\ FindCrlf(b, 1) = 0)
      BY <1>1, <1>2, <1>4 DEF AtLine
    <2>2. b = s => FindCrlf(b, 1) # 0
      <3>1. <<>> \in Seq(Unit) /\ <<>> \o s = s
        BY <1>3, EmptySeq, ConcatEmptySeq
      <3> QED
        BY <1>1, <3>1, CrlfThere
    <2>3. b = l \o s
      BY <2>1, <2>2
    <2>4. FindCrlf(b, 1) # 0
      BY <1>1, <2>3, CrlfThere
    <2>5. P = [Clean EXCEPT !.buffer = b] /\ ToSet(q) \subseteq Pipelined
      BY <1>1, <1>4, <2>4 DEF AtLine
    <2> QED
      BY <1>1, <2>3, <2>5
  <1>5. CASE AtHeaders(c, P, D, <<>>, q)
    <2>1. b = s /\ FindBlank(b, 3) = 0
      BY <1>1, <1>2, <1>5 DEF AtHeaders
    <2>2. /\ Len(b) \in Nat /\ 4 \in 3..(Len(b) - 1) /\ b[4] = Crlf /\ b[4 + 1] = Crlf
      BY <1>3, <2>1
    <2> QED
      BY <2>1, <2>2, BlankAt
  <1>6. CASE AtBody(c, P, D, <<>>, q)
    <2>1. /\ b = s /\ Accepted(r) /\ r.method = "POST" /\ r.te # "chunked"
          /\ HasLength(r) /\ Len(b) < 5 + r.cl
      BY <1>1, <1>2, <1>6 DEF AtBody
    <2>2. r.body = r.cl
      BY <1>3, <2>1 DEF Honest
    <2>3. Len(t) = r.body
      <3>1. r.body \in Nat /\ <<"data", c>> \in Unit
        BY <1>3, KindsAssumption DEF Unit
      <3>2. t = Repeat(<<"data", c>>, r.body)
        BY <1>1, <1>3, <2>1, BodyUnitsIs
      <3> QED
        BY <3>1, <3>2, RepeatIs
    <2> QED
      BY <1>3, <2>1, <2>2, <2>3, KindsAssumption
  <1> QED
    BY <1>4, <1>5, <1>6 DEF Parsing

(* Nothing waits in vain: when all that a client sent was received and a    *)
(* request is unanswered, then it is a pipelined one, which lies in the     *)
(* buffer behind what the request before has left, where reset has put it.  *)
THEOREM NothingWaits ==
  ASSUME Honest, OneDecoder
  PROVE  Spec => []NothingStuck
  <1>1. ASSUME IInv PROVE NothingStuck
    <2>1. ASSUME NEW c \in Conns, Reading(c), wire[c] = <<>>, asked[c] # <<>>
          PROVE  /\ parser[c] = [Clean EXCEPT !.buffer = left[c] \o Unanswered(c)]
                 /\ ToSet(asked[c]) \subseteq Pipelined
      <3>1. PICK P, l, q : P = parser[c] /\ l = left[c] /\ q = asked[c]
        OBVIOUS
      <3>2. /\ q \in Seq(Kinds) /\ l \in Seq(Unit) /\ P.buffer \in Seq(Unit)
            /\ Parsing(c, P, decoder, <<>>, l, q)
        BY <1>1, <2>1, <3>1, OpenIs DEF Open
      <3>3. P.state \in {"line", "headers", "body"} /\ q # <<>>
        BY <2>1, <3>1 DEF Reading
      <3>4. P = [Clean EXCEPT !.buffer = l \o Sent(c, q)] /\ ToSet(q) \subseteq Pipelined
        BY <3>2, <3>3, Stalled
      <3>5. Unanswered(c) = Sent(c, q)
        BY <3>1, Zenon DEF Unanswered, Sent
      <3> QED
        BY <3>1, <3>4, <3>5
    <2> QED
      BY <2>1, Zenon DEF NothingStuck
  <1>2. Spec => []IInv
    BY Invariant
  <1> QED
    BY <1>1, <1>2, PTL

=============================================================================
