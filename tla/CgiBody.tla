------------------------------- MODULE CgiBody -------------------------------
(***************************************************************************)
(* CGI::execute_with_body: the server forks a script and, before it goes   *)
(* back to its event loop, writes the request body to the script's stdin   *)
(* with blocking writes (send_post_data).  Nobody reads the script's       *)
(* stdout meanwhile; both are pipes of bounded capacity.  What follows in  *)
(* the event loop is CgiGateway's.                                         *)
(*                                                                         *)
(* Scripts have habits: to read all of their input before they write       *)
(* ("slurp"), to answer each piece of it ("echo"), to write before they    *)
(* read ("greet"), or not to read at all ("ignore").  A piece is the share *)
(* of a pipe that one system call moves.                                   *)
(***************************************************************************)
EXTENDS Integers

CONSTANTS
    MaxBody,    \* pieces of the longest request body
    MaxOutput,  \* pieces of the longest output
    Cap,        \* pieces a pipe holds
    Habits      \* habits of scripts
ASSUME CgiBodyAssumption ==
    /\ MaxBody \in Nat /\ MaxOutput \in Nat /\ Cap \in Nat \ {0}
    /\ Habits \subseteq {"slurp", "echo", "greet", "ignore"}

VARIABLES
    habit, output,      \* the script: its habit, the length of its output
    body,               \* length of the request body
    sent, taken,        \* pieces of it written by the server, read by the script
    printed,            \* pieces of output written
    child,              \* "running", "ended"
    stdin,              \* the server has its end of stdin open
    at                  \* the server: "send"; "loop"; "killed" by SIGPIPE

vars == <<habit, output, body, sent, taken, printed, child, stdin, at>>
given == <<habit, output, body>>

TypeOK ==
    /\ habit \in Habits
    /\ body \in 0..MaxBody /\ output \in 0..MaxOutput
    /\ sent \in 0..body /\ taken \in 0..sent /\ printed \in 0..output
    /\ sent - taken <= Cap /\ printed <= Cap
    /\ child \in {"running", "ended"} /\ stdin \in BOOLEAN
    /\ at \in {"send", "loop", "killed"}

Init ==
    /\ habit \in Habits /\ body \in 0..MaxBody /\ output \in 0..MaxOutput
    /\ sent = 0 /\ taken = 0 /\ printed = 0
    /\ child = "running" /\ stdin = TRUE /\ at = "send"

-----------------------------------------------------------------------------
(* The script. *)

Eof == ~stdin /\ taken = sent           \* read returns 0

WantsToRead ==
    CASE habit = "slurp"  -> TRUE
      [] habit = "echo"   -> printed >= taken \/ printed = output
      [] habit = "greet"  -> printed = output
      [] habit = "ignore" -> FALSE

WantsToPrint ==
    /\ printed < output
    /\ CASE habit = "slurp" -> Eof
         [] habit = "echo"  -> printed < taken \/ Eof
         [] OTHER           -> TRUE

(* A mistake: one pipe is used in both directions. *)
CanPrintShared == child = "running" /\ WantsToPrint /\ printed + (sent - taken) < Cap

CanRead  == child = "running" /\ WantsToRead /\ taken < sent
CanPrint == child = "running" /\ WantsToPrint /\ printed < Cap
CanExit  == child = "running" /\ printed = output /\ (habit = "ignore" \/ Eof)

Read ==
    /\ CanRead /\ taken' = taken + 1
    /\ UNCHANGED <<given, sent, printed, child, stdin, at>>

Emit ==
    /\ CanPrint /\ printed' = printed + 1
    /\ UNCHANGED <<given, sent, taken, child, stdin, at>>

Exit ==
    /\ CanExit /\ child' = "ended"
    /\ UNCHANGED <<given, sent, taken, printed, stdin, at>>

-----------------------------------------------------------------------------
(* The server. *)

(* A mistake: one write, and what it did not take is given up. *)
WriteOnce ==
    /\ at = "send" /\ sent < body /\ child = "running"
    /\ sent' = IF body < Cap THEN body ELSE Cap
    /\ stdin' = FALSE /\ at' = "loop"
    /\ UNCHANGED <<given, taken, printed, child>>

(* A mistake: one piece too many. *)
WriteOver ==
    /\ at = "send" /\ sent <= body
    /\ IF child = "running"
       THEN sent - taken < Cap /\ sent' = sent + 1 /\ UNCHANGED at
       ELSE at' = "killed" /\ UNCHANGED sent
    /\ UNCHANGED <<given, taken, printed, child, stdin>>

(* A write of send_post_data.  It waits while the pipe is full; when the    *)
(* script has ended it raises SIGPIPE, whose default action is not changed. *)
Write ==
    /\ at = "send" /\ sent < body
    /\ IF child = "running"
       THEN sent - taken < Cap /\ sent' = sent + 1 /\ UNCHANGED at
       ELSE at' = "killed" /\ UNCHANGED sent
    /\ UNCHANGED <<given, taken, printed, child, stdin>>

(* A mistake: the script is waited for before its input is closed. *)
SentAfterExit ==
    /\ at = "send" /\ sent = body /\ child = "ended"
    /\ stdin' = FALSE /\ at' = "loop"
    /\ UNCHANGED <<given, sent, taken, printed, child>>

(* All is written, stdin is closed, the event loop goes on. *)
Sent ==
    /\ at = "send" /\ sent = body
    /\ stdin' = FALSE /\ at' = "loop"
    /\ UNCHANGED <<given, sent, taken, printed, child>>

Next == Read \/ Emit \/ Exit \/ Write \/ Sent

Spec == Init /\ [][Next]_vars

(* The script is a program that runs on.  So is the server.                 *)
FairSpec ==
    Spec /\ WF_vars(Read) /\ WF_vars(Emit) /\ WF_vars(Exit) /\ WF_vars(Write) /\ WF_vars(Sent)

-----------------------------------------------------------------------------
(* A script that sees the end of its input has read the whole body.         *)
WholeBody == Eof => taken = body

(* Scripts that send_post_data can serve: README.md:103 has it of all ("The *)
(* parent process manages the pipes"); cgi.cpp:464 writes while nobody reads *)
(* the output, so one that prints as it reads has to have room for it.      *)
Fits == habit = "slurp" \/ output <= Cap

(* The server never waits for a script that waits for the server: a full    *)
(* stdin means that the script can do something.                            *)
NeverStuck ==
    Fits /\ at = "send" /\ sent < body /\ child = "running" /\ sent - taken = Cap
        => CanRead \/ CanPrint \/ CanExit

(* The event loop gets its thread back from a script that reads its input.  *)
ServerReturns == at = "send" /\ Fits /\ habit # "ignore" ~> at = "loop"
=============================================================================
