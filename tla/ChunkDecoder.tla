---------------------------- MODULE ChunkDecoder ----------------------------
(***************************************************************************)
(* The bytes of requests, and refactor_data of unchunk.cpp, which takes    *)
(* chunked bodies apart.  A stream of bytes is a sequence of units:        *)
(*                                                                         *)
(*    <<"line", r>>     the start line of request r, without its CRLF      *)
(*    <<"head", r>>     its header fields, without the CRLFs that end them *)
(*    <<"crlf">>        CRLF                                               *)
(*    <<"size", n, s>>  the hexadecimal length of a chunk; s: "upper" if   *)
(*                      it has an upper-case digit                         *)
(*    <<"data", c>>     a byte of a body that connection c sends           *)
(*    <<"junk">>        what is left of a unit that lost its first byte    *)
(*                                                                         *)
(* A unit that arrives in two halves is found no sooner than its second    *)
(* half, so nothing is lost by letting units arrive whole.  Lengths count  *)
(* units: CRLF, two bytes in the code, is one here.                        *)
(***************************************************************************)
EXTENDS Integers, Sequences, SequencesExt

Crlf == <<"crlf">>

(* Position of the first CRLF of s at or after i; 0 if there is none. *)
FindCrlf(s, i) ==
    LET at == {j \in i..Len(s) : s[j] = Crlf}
    IN IF at = {} THEN 0 ELSE Min(at)

(* Position of the first CRLF CRLF of s at or after i; 0 if there is none. *)
FindBlank(s, i) ==
    LET at == {j \in i..(Len(s) - 1) : s[j] = Crlf /\ s[j + 1] = Crlf}
    IN IF at = {} THEN 0 ELSE Min(at)

Before(s, i) == SubSeq(s, 1, i - 1)
After(s, i)  == SubSeq(s, i + 1, Len(s))

(* (size_t)-1, what hex_to_dec's -1 becomes in current_chunk_size. *)
Huge == -1

(* hex_to_dec knows the digits 0-9 and a-f. *)
HexToDec(hex) ==
    IF Len(hex) = 1 /\ hex[1][1] = "size" /\ hex[1][3] # "upper" THEN hex[1][2] ELSE Huge

(* erase(0, 1): the unit that loses its first byte. *)
DropByte(s) ==
    IF s[1][1] \in {"data", "size"} THEN After(s, 1) ELSE <<<<"junk">>>> \o After(s, 1)

(* The static variables of refactor_data.  head: "none", or what the header *)
(* fields kept in `headers` say of the encoding.                            *)
Fresh == [head |-> "none", buf |-> <<>>, reading |-> TRUE, size |-> 0]

(* What a chunk of n bytes takes of the buffer, after its first line. *)
ChunkEnd(n) == n + 1

(* The loop over chunks.  x: [buf, reading, size] of the decoder, the body  *)
(* so far, and whether the last chunk was seen.                             *)
NextChunk(x) ==
    IF x.reading
    THEN LET eol  == FindCrlf(x.buf, 1)
             n    == HexToDec(Before(x.buf, eol))
             rest == After(x.buf, eol)
             mark == FindCrlf(rest, 1)
             tail == IF mark = 0 THEN rest ELSE After(rest, mark)
         IN IF eol = 0 THEN [x EXCEPT !.stop = TRUE]
            ELSE IF n = 0 THEN [buf |-> <<>>, reading |-> TRUE, size |-> 0, stop |-> TRUE,
                                body |-> x.body \o tail, done |-> TRUE]
            ELSE [x EXCEPT !.buf = rest, !.reading = FALSE, !.size = n]
    ELSE IF x.size = Huge
    THEN \* SIZE_MAX + 2 = 1: all of the buffer is data, one byte is erased
         IF x.buf = <<>> THEN [x EXCEPT !.stop = TRUE]
         ELSE [x EXCEPT !.body = @ \o x.buf, !.buf = DropByte(x.buf), !.reading = TRUE]
    ELSE IF Len(x.buf) < ChunkEnd(x.size) THEN [x EXCEPT !.stop = TRUE]
    ELSE [x EXCEPT !.body = @ \o SubSeq(x.buf, 1, x.size),
                   !.buf = After(x.buf, ChunkEnd(x.size)), !.reading = TRUE]

(* The loop until it stops.  Two turns take a unit at least from the buffer *)
(* (ChunksEnd in RequestParserProofs), which bounds the turns.              *)
Turns(x) == 2 * Len(x.buf) + 2

Turn(x) == IF x.stop THEN x ELSE NextChunk(x)

Chunks(x) ==
    LET after[n \in 0..Turns(x)] == IF n = 0 THEN x ELSE Turn(after[n - 1])
    IN after[Turns(x)]

(* What `headers` is searched for, case and all. *)
SaysChunked(head) ==
    \E i \in 1..Len(head) :
        head[i][1] = "head" /\ head[i][2].te = "chunked" /\ head[i][2].spelled

(* refactor_data(body, data): the decoder and the body after it, and its    *)
(* result.                                                                  *)
RefactorData(D, body, data) ==
    LET all   == D.buf \o data
        blank == FindBlank(all, 1)
        head  == IF D.head # "none" THEN D.head
                 ELSE IF SaysChunked(Before(all, blank)) THEN "chunked" ELSE "other"
        buf   == IF D.head # "none" THEN all ELSE After(all, blank + 1)
        x     == Chunks([buf |-> buf, reading |-> D.reading, size |-> D.size,
                         stop |-> FALSE, body |-> body, done |-> FALSE])
    IN IF D.head = "none" /\ blank = 0
       THEN [dec |-> [D EXCEPT !.buf = all], body |-> body, done |-> FALSE]
       ELSE IF head = "other"
       THEN [dec |-> [D EXCEPT !.head = head, !.buf = <<>>], body |-> body \o buf, done |-> TRUE]
       ELSE [dec |-> [head |-> IF x.done THEN "none" ELSE head, buf |-> x.buf,
                      reading |-> x.reading, size |-> x.size],
             body |-> x.body, done |-> x.done]
=============================================================================
