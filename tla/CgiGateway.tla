----------------------------- MODULE CgiGateway -----------------------------
(***************************************************************************)
(* How SpySocket runs CGI scripts.  One thread (Servers::epollFds) shares  *)
(* the machine with the script processes it forks: it learns of a script's *)
(* output through a pipe, of its end through waitpid(WNOHANG), called from *)
(* three places, and of its slowness through the wall clock.  The module   *)
(* keeps every one of these observations as a step of its own, so that the *)
(* script may write, close its output or exit between any two of them.     *)
(*                                                                         *)
(* A client is an accepted connection with its Client, CClient and parser  *)
(* objects.  Output is counted in chunks, one per read(2) of 8191 bytes;   *)
(* what matters of a script's output is where its header ends and where    *)
(* the "complete HTML" heuristic starts to hold.  Requests here are whole  *)
(* and for CGI scripts; parsing and plain files are not part of it.        *)
(***************************************************************************)
EXTENDS Integers, FiniteSets

CONSTANTS
    Clients,        \* the connections
    Scripts,        \* the behaviours a script may have, see ScriptType
    PipeCap,        \* chunks the stdout pipe of a script holds
    DrainReads,     \* reads HandleCGIMethod makes of a script that has ended
    ReadCap,        \* last value of read_count in HandleCGIMethod
    MaxEvents,      \* size of the events array given to epoll_wait
    StartResults,   \* outcomes of handleMethod: "open", "deaf", "fails"
    RetryResults,   \* outcomes of HandleAllMethod's second start: "starts", "fails"
    ClientActs      \* what a client does while it waits: "flood", "eof"

(* len: chunks written; head, html: chunks after which the header has      *)
(* ended, and the text/html heuristic holds (beyond len: never); ends: how *)
(* it ends by itself; traps: it ignores SIGTERM.                           *)
ScriptType == [len : Nat, head : Nat \ {0}, html : Nat \ {0},
               ends : {"ok", "bad", "never"}, traps : BOOLEAN]

ASSUME ScriptsAssumption ==
    /\ Scripts # {} /\ Scripts \subseteq ScriptType
    /\ \A s \in Scripts : s.head <= s.html
ASSUME BoundsAssumption ==
    /\ PipeCap \in Nat \ {0} /\ DrainReads \in Nat /\ ReadCap \in Nat
    /\ MaxEvents \in Nat \ {0}
    /\ PipeCap <= DrainReads
ASSUME OutcomesAssumption ==
    /\ StartResults \subseteq {"open", "deaf", "fails"}
    /\ RetryResults \subseteq {"starts", "fails"}
    /\ ClientActs \subseteq {"flood", "eof"}

VARIABLES
    \* the connection: Client, CClient, ParsingRequest
    sock,       \* what the client has sent that the server has not received
    stage,      \* "busy": CClient::intialized is set
    interest,   \* the epoll mask of the client's descriptor
    resp,       \* Client::response
    shut,       \* should_close_connection, or getConnectionStatus() = 0
    \* the CGI object of the connection
    handler,    \* cgi_handler: "none", or by its cgi_fd
    got,        \* chunks in output_buffer
    late,       \* CGI_TIMEOUT seconds have passed since cgi_start_time
    \* the script process
    script, child, exit, wrote, outClosed,
    \* the server thread
    at,         \* where in epollFds and HandleCGIMethod it is
    cur,        \* the client it is serving
    todo, failed, overdue,  \* the scan, failed_cgi_clients, timed_out_clients
    batch,      \* events[] not handled yet
    verdict,    \* what it answers once close_cgi returns
    back,       \* the loop it returns to then
    reads,      \* read_count
    orphans     \* clients whose CGI object was overwritten with its process alive

connVars   == <<sock, stage, interest, resp, shut>>
cgiVars    == <<handler, got, late>>
procVars   == <<script, child, exit, wrote, outClosed>>
loopVars   == <<todo, failed, overdue, batch>>
threadVars == <<at, cur, verdict, back, reads>>
vars == <<connVars, cgiVars, procVars, loopVars, threadVars, orphans>>

Answers   == {"200", "413", "500", "502", "504", "refused"}
Responses == Answers \cup {"none"}
Verdicts  == {"500", "502", "504", "format", "drop"}
Events    == {"cgi", "in", "out"} \X Clients

TypeOK ==
    /\ sock \in [Clients -> {"quiet", "request", "flood", "eof"}]
    /\ stage \in [Clients -> {"idle", "busy", "closed"}]
    /\ interest \in [Clients -> {"IN", "OUT"}]
    /\ resp \in [Clients -> Responses]
    /\ shut \in [Clients -> BOOLEAN]
    /\ handler \in [Clients -> {"none", "open", "deaf", "eof"}]
    /\ got \in [Clients -> Nat]
    /\ late \in [Clients -> BOOLEAN]
    /\ script \in [Clients -> Scripts]
    /\ child \in [Clients -> {"none", "running", "signalled", "zombie", "reaped"}]
    /\ exit \in [Clients -> {"none", "ok", "bad", "signal"}]
    /\ wrote \in [Clients -> Nat]
    /\ outClosed \in [Clients -> BOOLEAN]
    /\ at \in {"wait", "scan", "sweep", "events", "first", "read", "second",
               "close", "reap", "send"}
    /\ cur \in Clients
    /\ todo \in SUBSET Clients
    /\ failed \in SUBSET Clients
    /\ overdue \in SUBSET Clients
    /\ batch \in SUBSET Events
    /\ verdict \in Verdicts
    /\ back \in {"sweep", "events"}
    /\ reads \in Nat
    /\ orphans \in SUBSET Clients

Init ==
    /\ sock = [c \in Clients |-> "quiet"]
    /\ stage = [c \in Clients |-> "idle"]
    /\ interest = [c \in Clients |-> "IN"]
    /\ resp = [c \in Clients |-> "none"]
    /\ shut = [c \in Clients |-> FALSE]
    /\ handler = [c \in Clients |-> "none"]
    /\ got = [c \in Clients |-> 0]
    /\ late = [c \in Clients |-> FALSE]
    /\ script = [c \in Clients |-> CHOOSE s \in Scripts : TRUE]
    /\ child = [c \in Clients |-> "none"]
    /\ exit = [c \in Clients |-> "none"]
    /\ wrote = [c \in Clients |-> 0]
    /\ outClosed = [c \in Clients |-> FALSE]
    /\ at = "wait"
    /\ cur \in Clients
    /\ todo = {} /\ failed = {} /\ overdue = {} /\ batch = {}
    /\ verdict = "drop" /\ back = "events" /\ reads = 0
    /\ orphans = {}

-----------------------------------------------------------------------------
(* The script's side of the pipe. *)

Alive(c)  == child[c] \in {"running", "signalled"}
Unread(c) == wrote[c] - got[c]
Eof(c)    == ~Alive(c) \/ outClosed[c]          \* no writer is left
FdOpen(c) == handler[c] \in {"open", "deaf"}    \* cgi_fd >= 0

(* CGI::read_output: one read(2) of cgi_fd. *)
ReadOutput(c) ==
    IF FdOpen(c) /\ Unread(c) > 0
    THEN got' = [got EXCEPT ![c] = @ + 1] /\ UNCHANGED handler
    ELSE /\ UNCHANGED got
         /\ handler' = IF FdOpen(c) /\ Eof(c) THEN [handler EXCEPT ![c] = "eof"]
                                              ELSE handler

(* A mistake the properties exclude: one read instead of a loop. *)
DrainOnce(c) ==
    got' = [got EXCEPT ![c] = @ + IF Unread(c) <= 1 THEN Unread(c) ELSE 1]

(* A loop of read_output over the pipe of a process that has ended.  The   *)
(* two loops make at least 11 reads, and 9 empty a full 64 kB pipe.        *)
Drain(c) ==
    got' = [got EXCEPT ![c] = @ + IF Unread(c) <= DrainReads THEN Unread(c)
                                                             ELSE DrainReads]

(* A mistake: a status that no page exists for. *)
FormatEmpty(c) == IF got[c] >= script[c].head THEN "200" ELSE "204"

(* formatCGIResponse: no output, or output without the end of a header. *)
Format(c) == IF got[c] >= script[c].head THEN "200" ELSE "500"

-----------------------------------------------------------------------------
(* The environment: clients, script processes and the clock. *)

ClientSends(c, what) ==
    /\ sock[c] = "quiet"
    /\ \/ what = "request" /\ stage[c] = "idle" /\ resp[c] = "none"
       \/ what = "flood" /\ stage[c] = "busy" /\ what \in ClientActs
       \/ what = "eof" /\ stage[c] # "closed" /\ what \in ClientActs
    /\ sock' = [sock EXCEPT ![c] = what]
    /\ UNCHANGED <<stage, interest, resp, shut, cgiVars, procVars, loopVars,
                   threadVars, orphans>>

ChildWrites(c) ==
    /\ Alive(c) /\ ~outClosed[c]
    /\ wrote[c] < script[c].len /\ Unread(c) < PipeCap
    /\ handler[c] # "eof"
    /\ wrote' = [wrote EXCEPT ![c] = @ + 1]
    /\ UNCHANGED <<connVars, cgiVars, script, child, exit, outClosed, loopVars,
                   threadVars, orphans>>

ChildClosesOutput(c) ==
    /\ Alive(c) /\ ~outClosed[c] /\ wrote[c] = script[c].len
    /\ outClosed' = [outClosed EXCEPT ![c] = TRUE]
    /\ UNCHANGED <<connVars, cgiVars, script, child, exit, wrote, loopVars,
                   threadVars, orphans>>

ChildExits(c) ==
    /\ Alive(c)
    /\ \/ script[c].ends = "ok" /\ wrote[c] = script[c].len
       \/ script[c].ends = "bad"
    /\ child' = [child EXCEPT ![c] = "zombie"]
    /\ exit' = [exit EXCEPT ![c] = script[c].ends]
    /\ UNCHANGED <<connVars, cgiVars, script, wrote, outClosed, loopVars,
                   threadVars, orphans>>

ChildKilled(c) ==
    /\ child[c] = "signalled" /\ ~script[c].traps
    /\ child' = [child EXCEPT ![c] = "zombie"]
    /\ exit' = [exit EXCEPT ![c] = "signal"]
    /\ UNCHANGED <<connVars, cgiVars, script, wrote, outClosed, loopVars,
                   threadVars, orphans>>

TimePasses(c) ==
    /\ handler[c] # "none" /\ ~late[c]
    /\ late' = [late EXCEPT ![c] = TRUE]
    /\ UNCHANGED <<connVars, handler, got, procVars, loopVars, threadVars, orphans>>

-----------------------------------------------------------------------------
(* One turn of the event loop: wait, scan the scripts, sweep, events. *)

(* A mistake: nobody asks when a client can be written to. *)
ReadyToRead ==
    {<<"cgi", c>> : c \in {d \in Clients : handler[d] = "open" /\ Unread(d) > 0}}
    \cup {<<"in", c>> : c \in {d \in Clients : stage[d] # "closed" /\ sock[d] # "quiet"}}

Ready ==
    {<<"cgi", c>> : c \in {d \in Clients : handler[d] = "open" /\ Unread(d) > 0}}
    \cup {<<"in", c>> : c \in {d \in Clients : /\ stage[d] # "closed"
                                               /\ interest[d] = "IN"
                                               /\ sock[d] # "quiet"}}
    \cup {<<"out", c>> : c \in {d \in Clients : /\ stage[d] # "closed"
                                                /\ interest[d] = "OUT"}}

(* epoll_wait returns what is ready, at most MaxEvents of it; nothing after *)
(* EPOLL_TIMEOUT.  The batch is taken before the scan and handled after it. *)
EpollWait ==
    /\ at = "wait"
    /\ \E B \in SUBSET Ready :
          /\ IF Cardinality(Ready) <= MaxEvents THEN B = Ready
                                                ELSE Cardinality(B) = MaxEvents
          /\ batch' = B
    /\ todo' = {c \in Clients : handler[c] # "none"}
    /\ at' = "scan"
    /\ UNCHANGED <<connVars, cgiVars, procVars, failed, overdue, cur, verdict,
                   back, reads, orphans>>

(* Mistakes: any script that has ended is taken for a failed one; and the   *)
(* scan is left out.                                                        *)
ScanBlames(c) ==
    /\ at = "scan" /\ c \in todo
    /\ todo' = todo \ {c}
    /\ child' = IF child[c] = "zombie" THEN [child EXCEPT ![c] = "reaped"] ELSE child
    /\ failed' = IF child[c] = "zombie" THEN failed \cup {c} ELSE failed
    /\ overdue' = IF child[c] # "zombie" /\ late[c] THEN overdue \cup {c} ELSE overdue
    /\ UNCHANGED <<connVars, cgiVars, script, exit, wrote, outClosed, batch,
                   threadVars, orphans>>

ScanSkips(c) ==
    /\ at = "scan" /\ c \in todo
    /\ todo' = todo \ {c}
    /\ UNCHANGED <<connVars, cgiVars, procVars, failed, overdue, batch,
                   threadVars, orphans>>

(* The body of the scan.  A script seen to have ended well is reaped here   *)
(* and nothing else is done about it: cgi_pid keeps its number.             *)
ScanOne(c) ==
    /\ at = "scan" /\ c \in todo
    /\ todo' = todo \ {c}
    /\ child' = IF child[c] = "zombie" THEN [child EXCEPT ![c] = "reaped"] ELSE child
    /\ IF child[c] = "zombie" /\ exit[c] # "ok"
       THEN failed' = failed \cup {c} /\ UNCHANGED overdue
       ELSE /\ overdue' = IF late[c] THEN overdue \cup {c} ELSE overdue
            /\ UNCHANGED failed
    /\ UNCHANGED <<connVars, cgiVars, script, exit, wrote, outClosed, batch,
                   threadVars, orphans>>

ScanDone ==
    /\ at = "scan" /\ todo = {}
    /\ at' = "sweep"
    /\ UNCHANGED <<connVars, cgiVars, procVars, loopVars, cur, verdict, back,
                   reads, orphans>>

(* Enter close_cgi for client c; v is what follows when it has returned. *)
BeginClose(c, v, b) ==
    /\ at' = "close" /\ cur' = c /\ verdict' = v /\ back' = b

SweepFailed(c) ==
    /\ at = "sweep" /\ c \in failed
    /\ failed' = failed \ {c}
    /\ BeginClose(c, "502", "sweep")
    /\ UNCHANGED <<connVars, cgiVars, procVars, todo, overdue, batch, reads, orphans>>

SweepOverdue(c) ==
    /\ at = "sweep" /\ failed = {} /\ c \in overdue
    /\ overdue' = overdue \ {c}
    /\ BeginClose(c, "504", "sweep")
    /\ UNCHANGED <<connVars, cgiVars, procVars, todo, failed, batch, reads, orphans>>

SweepDone ==
    /\ at = "sweep" /\ failed = {} /\ overdue = {}
    /\ at' = "events"
    /\ UNCHANGED <<connVars, cgiVars, procVars, loopVars, cur, verdict, back,
                   reads, orphans>>

EventsDone ==
    /\ at = "events" /\ batch = {}
    /\ at' = "wait"
    /\ UNCHANGED <<connVars, cgiVars, procVars, loopVars, cur, verdict, back,
                   reads, orphans>>

-----------------------------------------------------------------------------
(* close_cgi: close cgi_fd, send SIGTERM, wait until the process has ended. *)

\* A mistake: waiting for a process that was not told to end.
CloseWithoutKill ==
    /\ at = "close"
    /\ handler' = [handler EXCEPT ![cur] = "eof"]
    /\ at' = "reap"
    /\ UNCHANGED <<connVars, got, late, procVars, loopVars, cur, verdict, back,
                   reads, orphans>>

CloseCgi ==
    /\ at = "close"
    /\ handler' = [handler EXCEPT ![cur] = "eof"]
    /\ child' = IF child[cur] = "running" THEN [child EXCEPT ![cur] = "signalled"]
                                          ELSE child
    /\ at' = "reap"
    /\ UNCHANGED <<connVars, got, late, script, exit, wrote, outClosed, loopVars,
                   cur, verdict, back, reads, orphans>>

(* A mistake: the client is not turned to EPOLLOUT.                        *)
ReapSilently ==
    /\ at = "reap" /\ ~Alive(cur)
    /\ child' = [child EXCEPT ![cur] = "reaped"]
    /\ handler' = [handler EXCEPT ![cur] = "none"]
    /\ stage' = IF verdict = "drop" THEN [stage EXCEPT ![cur] = "closed"] ELSE stage
    /\ resp' = [resp EXCEPT ![cur] = CASE verdict = "drop" -> "none"
                                      [] verdict = "format" -> Format(cur)
                                      [] OTHER -> verdict]
    /\ at' = back
    /\ UNCHANGED <<sock, shut, interest, got, late, script, exit, wrote, outClosed,
                   loopVars, cur, verdict, back, reads, orphans>>

(* waitpid returns: with the process, or with ECHILD if it was reaped.      *)
(* Then the handler is deleted and its caller goes on.                      *)
ReapCgi ==
    /\ at = "reap" /\ ~Alive(cur)
    /\ child' = [child EXCEPT ![cur] = "reaped"]
    /\ handler' = [handler EXCEPT ![cur] = "none"]
    /\ IF verdict = "drop"
       THEN /\ stage' = [stage EXCEPT ![cur] = "closed"]
            /\ resp' = [resp EXCEPT ![cur] = "none"]
            /\ UNCHANGED interest
       ELSE /\ resp' = [resp EXCEPT ![cur] = IF verdict = "format" THEN Format(cur)
                                                                   ELSE verdict]
            /\ interest' = [interest EXCEPT ![cur] = "OUT"]
            /\ UNCHANGED stage
    /\ at' = back
    /\ UNCHANGED <<sock, shut, got, late, script, exit, wrote, outClosed, loopVars,
                   cur, verdict, back, reads, orphans>>

-----------------------------------------------------------------------------
(* An event of the descriptor of a script. *)

\* A mistake: the handler is used without looking whether it is still there.
CgiEventUnchecked(c) ==
    /\ at = "events" /\ <<"cgi", c>> \in batch
    /\ batch' = batch \ {<<"cgi", c>>}
    /\ ReadOutput(c) /\ at' = "first" /\ cur' = c
    /\ UNCHANGED <<connVars, late, procVars, todo, failed, overdue, verdict, back,
                   reads, orphans>>

CgiEvent(c) ==
    /\ at = "events" /\ <<"cgi", c>> \in batch
    /\ batch' = batch \ {<<"cgi", c>>}
    /\ IF handler[c] = "none"
       THEN UNCHANGED <<handler, got, at, cur>>
       ELSE ReadOutput(c) /\ at' = "first" /\ cur' = c
    /\ UNCHANGED <<connVars, late, procVars, todo, failed, overdue, verdict, back,
                   reads, orphans>>

(* HandleCGIMethod up to the first waitpid and what it decides. *)
FirstWait ==
    /\ at = "first"
    /\ child' = IF child[cur] = "zombie" THEN [child EXCEPT ![cur] = "reaped"]
                                         ELSE child
    /\ \/ /\ child[cur] = "reaped"
          /\ BeginClose(cur, "500", "events") /\ UNCHANGED <<got, reads>>
       \/ /\ child[cur] = "zombie" /\ exit[cur] # "ok"
          /\ BeginClose(cur, "502", "events") /\ UNCHANGED <<got, reads>>
       \/ /\ child[cur] = "zombie" /\ exit[cur] = "ok"
          /\ IF FdOpen(cur) THEN Drain(cur) ELSE UNCHANGED got
          /\ BeginClose(cur, "format", "events") /\ UNCHANGED reads
       \/ /\ Alive(cur) /\ late[cur]
          /\ BeginClose(cur, "504", "events") /\ UNCHANGED <<got, reads>>
       \/ /\ Alive(cur) /\ ~late[cur]
          /\ at' = "read" /\ reads' = 0 /\ UNCHANGED <<got, cur, verdict, back>>
    /\ UNCHANGED <<connVars, handler, late, script, exit, wrote, outClosed,
                   loopVars, orphans>>

(* while (read_output() && read_count < 100): the script may write between  *)
(* two reads.                                                               *)
ReadMore ==
    /\ at = "read"
    /\ ReadOutput(cur)
    /\ IF FdOpen(cur) /\ Unread(cur) > 0 /\ reads < ReadCap
       THEN reads' = reads + 1 /\ UNCHANGED at
       ELSE at' = "second" /\ UNCHANGED reads
    /\ UNCHANGED <<connVars, late, procVars, loopVars, cur, verdict, back, orphans>>

(* The second waitpid, after usleep(1000), and the rest of HandleCGIMethod. *)
(* The exit status is not looked at here.                                   *)
SecondWait ==
    /\ at = "second"
    /\ child' = IF child[cur] = "zombie" THEN [child EXCEPT ![cur] = "reaped"]
                                         ELSE child
    /\ IF child[cur] = "zombie" /\ FdOpen(cur) THEN Drain(cur) ELSE UNCHANGED got
    /\ IF \/ child[cur] = "zombie"
          \/ handler[cur] = "eof" /\ got[cur] > 0
          \/ got[cur] >= script[cur].html
       THEN BeginClose(cur, "format", "events")
       ELSE at' = "events" /\ UNCHANGED <<cur, verdict, back>>
    /\ UNCHANGED <<connVars, handler, late, script, exit, wrote, outClosed,
                   loopVars, reads, orphans>>

-----------------------------------------------------------------------------
(* The events of the descriptor of a client. *)

TakeEvent(kind, c) ==
    /\ at = "events" /\ <<kind, c>> \in batch
    /\ batch' = batch \ {<<kind, c>>}
    /\ UNCHANGED <<todo, failed, overdue, reads, orphans>>

(* A mistake: the CClient is erased and its script forgotten. *)
ClientForsaken(c) ==
    /\ TakeEvent("in", c) /\ sock[c] = "eof"
    /\ sock' = [sock EXCEPT ![c] = "quiet"]
    /\ stage' = [stage EXCEPT ![c] = "closed"]
    /\ resp' = [resp EXCEPT ![c] = "none"]
    /\ UNCHANGED <<interest, shut, cgiVars, procVars, at, cur, verdict, back>>

(* recv returns 0.  Erasing the CClient runs close_cgi if it has a handler. *)
ClientLeaves(c) ==
    /\ TakeEvent("in", c) /\ sock[c] = "eof"
    /\ sock' = [sock EXCEPT ![c] = "quiet"]
    /\ IF handler[c] = "none"
       THEN /\ stage' = [stage EXCEPT ![c] = "closed"]
            /\ resp' = [resp EXCEPT ![c] = "none"]
            /\ UNCHANGED <<at, cur, verdict, back>>
       ELSE BeginClose(c, "drop", "events") /\ UNCHANGED <<stage, resp>>
    /\ UNCHANGED <<interest, shut, cgiVars, procVars>>

(* feed_data fails while a request is being served: 413 past 10 MB. *)
ClientOverflows(c) ==
    /\ TakeEvent("in", c) /\ sock[c] = "flood"
    /\ sock' = [sock EXCEPT ![c] = "quiet"]
    /\ resp' = [resp EXCEPT ![c] = "413"]
    /\ shut' = [shut EXCEPT ![c] = TRUE]
    /\ interest' = [interest EXCEPT ![c] = "OUT"]
    /\ UNCHANGED <<stage, cgiVars, procVars, at, cur, verdict, back>>

(* A fresh CGI object and its process, as execute leaves them. *)
Spawn(c, s) ==
    /\ script' = [script EXCEPT ![c] = s]
    /\ child' = [child EXCEPT ![c] = "running"]
    /\ exit' = [exit EXCEPT ![c] = "none"]
    /\ wrote' = [wrote EXCEPT ![c] = 0]
    /\ outClosed' = [outClosed EXCEPT ![c] = FALSE]
    /\ got' = [got EXCEPT ![c] = 0]
    /\ late' = [late EXCEPT ![c] = FALSE]

(* PARSE_OK: handleMethod starts the script.  "deaf": its descriptor could  *)
(* not be added to epoll.  "fails": no script, no right to run it, no pipe  *)
(* or no fork; the handler is deleted and the client turned to EPOLLOUT.    *)
StartRequest(c) ==
    /\ TakeEvent("in", c) /\ sock[c] = "request"
    /\ sock' = [sock EXCEPT ![c] = "quiet"]
    /\ stage' = [stage EXCEPT ![c] = "busy"]
    /\ \E close \in BOOLEAN : shut' = [shut EXCEPT ![c] = close]
    /\ \E r \in StartResults, s \in Scripts :
          IF r = "fails"
          THEN /\ interest' = [interest EXCEPT ![c] = "OUT"]
               /\ UNCHANGED <<cgiVars, procVars>>
          ELSE /\ Spawn(c, s)
               /\ handler' = [handler EXCEPT ![c] = r]
               /\ UNCHANGED interest
    /\ UNCHANGED <<resp, at, cur, verdict, back>>

(* EPOLLOUT.  Without a response HandleAllMethod runs, and it tries to      *)
(* start the script again, with a CGI object that has no location.          *)
OutEvent(c) ==
    /\ TakeEvent("out", c)
    /\ at' = "send" /\ cur' = c
    /\ \/ /\ resp[c] # "none"
          /\ UNCHANGED <<resp, cgiVars, procVars>>
       \/ /\ resp[c] = "none" /\ "fails" \in RetryResults
          /\ resp' = [resp EXCEPT ![c] = "refused"]
          /\ UNCHANGED <<cgiVars, procVars>>
       \/ /\ resp[c] = "none" /\ "starts" \in RetryResults
          /\ \E s \in Scripts : Spawn(c, s)
          /\ handler' = [handler EXCEPT ![c] = "deaf"]
          /\ UNCHANGED resp
    /\ UNCHANGED <<sock, stage, interest, shut, verdict, back>>

(* The whole response is sent: close the connection, or start afresh with   *)
(* client_data_map[fd] = CClient(), which does not release the handler.     *)
Send ==
    /\ at = "send"
    /\ IF ~shut[cur]
       THEN /\ stage' = [stage EXCEPT ![cur] = "idle"]
            /\ interest' = [interest EXCEPT ![cur] = "IN"]
            /\ resp' = [resp EXCEPT ![cur] = "none"]
            /\ handler' = [handler EXCEPT ![cur] = "none"]
            /\ orphans' = IF handler[cur] = "none" THEN orphans ELSE orphans \cup {cur}
            /\ at' = "events" /\ UNCHANGED <<cur, verdict, back>>
       ELSE /\ UNCHANGED <<interest, orphans>>
            /\ IF handler[cur] = "none"
               THEN /\ stage' = [stage EXCEPT ![cur] = "closed"]
                    /\ resp' = [resp EXCEPT ![cur] = "none"]
                    /\ at' = "events" /\ UNCHANGED <<handler, cur, verdict, back>>
               ELSE /\ BeginClose(cur, "drop", "events")
                    /\ UNCHANGED <<stage, resp, handler>>
    /\ UNCHANGED <<sock, shut, got, late, procVars, loopVars, reads>>

-----------------------------------------------------------------------------
Script(c) ==
    ChildWrites(c) \/ ChildClosesOutput(c) \/ ChildExits(c) \/ ChildKilled(c)

Environment(c) ==
    \/ \E what \in {"request", "flood", "eof"} : ClientSends(c, what)
    \/ Script(c)
    \/ TimePasses(c)

Server ==
    \/ EpollWait \/ ScanDone \/ SweepDone \/ EventsDone
    \/ CloseCgi \/ ReapCgi \/ FirstWait \/ ReadMore \/ SecondWait \/ Send
    \/ \E c \in Clients :
          \/ ScanOne(c) \/ SweepFailed(c) \/ SweepOverdue(c)
          \/ CgiEvent(c) \/ ClientLeaves(c) \/ ClientOverflows(c)
          \/ StartRequest(c) \/ OutEvent(c)

Next == Server \/ \E c \in Clients : Environment(c)

Spec == Init /\ [][Next]_vars

(* The server thread is scheduled, the clock moves, and SIGTERM, whose      *)
(* default action ends a process, is delivered.  Nothing is assumed of what *)
(* scripts and clients do of their own.                                     *)
Fairness ==
    /\ WF_vars(Server)
    /\ \A c \in Clients : WF_vars(TimePasses(c)) /\ WF_vars(ChildKilled(c))

FairSpec == Spec /\ Fairness

-----------------------------------------------------------------------------
(* Safety. *)

(* The status a client is given is one its script earned: 200 only for      *)
(* output whose header is complete, 502 only for a script that ended badly  *)
(* by itself, 504 only after the time limit, and 500 only for a script that *)
(* ended well or whose output has no header (HandleCGIMethod, the scan).    *)
VerdictJustified ==
    \A c \in Clients :
        /\ resp[c] = "200" => script[c].head <= got[c] /\ got[c] <= wrote[c]
        /\ resp[c] = "502" => exit[c] = "bad"
        /\ resp[c] = "504" => late[c]
        /\ resp[c] = "500" => exit[c] = "ok" \/ got[c] < script[c].head

(* A 200 that the HTML heuristic did not cut short carries everything the   *)
(* script wrote, and the script can write no more: the reads of the two     *)
(* drain loops empty the pipe whatever was in it when the script ended.     *)
CompleteUnlessEarly ==
    \A c \in Clients :
        resp[c] = "200" /\ got[c] < script[c].html => got[c] = wrote[c] /\ Eof(c)

(* No process outlives its request: a connection that waits for the next    *)
(* request, or is closed, has no CGI object, and its script is reaped.      *)
NoProcessLeft ==
    \A c \in Clients :
        stage[c] # "busy" => handler[c] = "none" /\ child[c] \in {"none", "reaped"}

(* Whenever the server blocks in epoll_wait, each request being served has  *)
(* something that will bring the server back to it: its response is due     *)
(* (EPOLLOUT), or it has a handler, whose age the next scan looks at.       *)
NoRequestForgotten ==
    at = "wait" =>
        \A c \in Clients :
            stage[c] = "busy" => interest[c] = "OUT" \/ handler[c] # "none"

(* An answer once chosen is the answer sent: neither the scan nor a stale   *)
(* event of the script replaces it.  Only an overflow of the parser may.    *)
AnswerKept ==
    [][\A c \in Clients :
          resp[c] \in Answers \ {"413"} => resp'[c] \in {resp[c], "none", "413"}]_vars

-----------------------------------------------------------------------------
(* Liveness, under FairSpec. *)

(* Every request for a script is over some time: answered, or its client is *)
(* gone.  The 30 s limit of the scan is what makes this true of a script    *)
(* that never ends, and of one whose end epoll reports only as EPOLLHUP.    *)
RequestsEnd ==
    \A c \in Clients : stage[c] = "busy" ~> stage[c] # "busy"

(* The thread always gets back to epoll_wait: no close_cgi blocks for good. *)
ServerReturns == []<>(at = "wait")

(* Every script that ends is reaped. *)
ZombiesReaped ==
    \A c \in Clients : child[c] = "zombie" ~> child[c] # "zombie"

-----------------------------------------------------------------------------
(* Refinement. *)

Service == INSTANCE CgiService WITH
    state <- [c \in Clients |->
                 IF stage[c] = "closed" THEN "closed"
                 ELSE IF resp[c] # "none" THEN "answered"
                 ELSE IF stage[c] = "busy" THEN "pending" ELSE "idle"],
    process <- [c \in Clients |->
                 IF child[c] \in {"none", "reaped"} THEN "none" ELSE "exists"]

(* Every behaviour of the gateway is one of CgiService: one answer for each *)
(* request, no process beyond its request, and no request left pending.     *)
ImplementsService == Service!FairSpec

-----------------------------------------------------------------------------
(* What the repository says of its CGI support, and the code does not do.   *)

(* README.md:62: the server "takes this output and send it back to the      *)
(* users browser".  A script that ended well with a complete header would   *)
(* then never be answered with an error.                                    *)
GoodScriptDelivered ==
    \A c \in Clients :
        exit[c] = "ok" /\ ~late[c] /\ script[c].head <= script[c].len
            => resp[c] \notin {"500", "502", "504"}
=============================================================================
