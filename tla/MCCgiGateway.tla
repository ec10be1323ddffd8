--------------------------- MODULE MCCgiGateway ---------------------------
(***************************************************************************)
(* Instances of CgiGateway for TLC.  PipeCap, DrainReads and ReadCap keep  *)
(* the code's order 9 <= 11 <= 101 of reads, scaled down.                  *)
(***************************************************************************)
EXTENDS CgiGateway

CONSTANT c1

OneClient  == {c1}

S(len, head, html, ends) ==
    [len |-> len, head |-> head, html |-> html, ends |-> ends, traps |-> FALSE]

\* A page in two chunks, and the same recognised as HTML from its header on.
Plain  == S(2, 1, 9, "ok")
Html   == S(2, 1, 1, "ok")
\* No output at all, output without a header, an endless script, a failing one.
Silent == S(0, 1, 9, "ok")
Noise  == S(1, 2, 9, "ok")
Hangs  == S(1, 1, 9, "never")
Fails  == S(1, 1, 9, "bad")
\* Longer than the pipe and the reads of a drain: its writer has to wait.
Long   == S(3, 1, 9, "ok")

AllScripts  == {Plain, Html, Silent, Noise, Hangs, Fails, Long}
GoodScripts == {Plain}

AllActs   == {"flood", "eof"}
NoActs    == {}
AllStarts == {"open", "deaf", "fails"}
OneStart  == {"open"}
NoStart   == {"fails"}
AnyRetry  == {"starts", "fails"}
=============================================================================
