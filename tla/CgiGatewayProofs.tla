-------------------------- MODULE CgiGatewayProofs --------------------------
(***************************************************************************)
(* Proofs that the safety properties of CgiGateway hold for every set of   *)
(* connections, every set of scripts and every bound; and that CgiGateway  *)
(* implements the safety part of CgiService, as long as the second start   *)
(* of a script, made by HandleAllMethod when handleMethod's failed, fails  *)
(* as well.  (When it succeeds, the CGI object is lost with its process:   *)
(* HandlersReleased, which a run of TLC refutes.)                          *)
(***************************************************************************)
EXTENDS CgiGateway, TLAPS

Closing(c) == at \in {"close", "reap"} /\ cur = c

(* Bytes: none is read twice, and the pipe never holds more than its size. *)
PipeInv ==
    \A c \in Clients : got[c] <= wrote[c] /\ Unread(c) <= PipeCap

(* The life of a process: only a close_cgi that is under way has signalled *)
(* it, and a status is there once it has ended.                            *)
ProcessInv ==
    \A c \in Clients :
        /\ child[c] = "signalled" => at = "reap" /\ cur = c
        /\ child[c] = "zombie" =>
              \/ exit[c] \in {"ok", "bad"}
              \/ exit[c] = "signal" /\ at = "reap" /\ cur = c
        /\ handler[c] # "none" => child[c] # "none"

(* A connection: who is responsible for it in each stage. *)
ConnectionInv ==
    \A c \in Clients :
        /\ sock[c] = "request" => stage[c] = "idle" /\ resp[c] = "none"
        /\ stage[c] = "idle" /\ resp[c] = "none" => interest[c] = "IN"
        /\ stage[c] # "busy" => handler[c] = "none"
        /\ stage[c] = "busy" /\ handler[c] = "none" => interest[c] = "OUT"
        /\ resp[c] \in Answers \ {"413"} => handler[c] = "none"
        /\ handler[c] # "none" /\ interest[c] = "OUT" =>
              \/ resp[c] = "413" /\ shut[c]
              \/ at = "send" /\ cur = c
              \/ Closing(c) /\ verdict = "drop"
        /\ resp[c] \in {"200", "500", "502", "504"} => child[c] = "reaped"

(* What the scan and the batch have recorded is still so when it is used. *)
LoopInv ==
    /\ at # "scan" => todo = {}
    /\ at \notin {"scan", "sweep"} /\ ~(at \in {"close", "reap"} /\ back = "sweep")
          => failed = {} /\ overdue = {}
    /\ \A c \in Clients :
          /\ c \in todo => handler[c] # "none" /\ c \notin failed \cup overdue
          /\ c \in failed => /\ handler[c] # "none" /\ c \notin overdue
                             /\ child[c] = "reaped" /\ exit[c] = "bad"
          /\ c \in overdue => handler[c] # "none" /\ late[c]
          /\ <<"in", c>> \in batch => stage[c] # "closed" /\ <<"out", c>> \notin batch
          /\ <<"out", c>> \in batch => stage[c] # "closed" /\ interest[c] = "OUT"
          /\ handler[c] # "none" /\ child[c] = "reaped" /\ ~Closing(c)
                => exit[c] = "ok" \/ c \in failed
          /\ handler[c] = "eof" /\ ~Closing(c) => got[c] = wrote[c] /\ Eof(c)

(* Where the thread is, and what it has found out on the way. *)
ThreadInv ==
    /\ at \in {"first", "read", "second"} => handler[cur] # "none"
    /\ at \in {"read", "second"} => child[cur] \in {"running", "zombie"}
    /\ at = "send" => /\ <<"in", cur>> \notin batch /\ <<"out", cur>> \notin batch
                      /\ interest[cur] = "OUT" /\ stage[cur] # "closed"
                      /\ resp[cur] = "none" => stage[cur] = "busy"
    /\ at \in {"close", "reap"} =>
          /\ handler[cur] # "none" /\ cur \notin failed \cup overdue
          /\ verdict = "drop" => <<"in", cur>> \notin batch /\ <<"out", cur>> \notin batch
          /\ verdict = "502" => child[cur] = "reaped" /\ exit[cur] = "bad"
          /\ verdict = "504" => late[cur]
          /\ verdict = "500" => child[cur] = "reaped" /\ exit[cur] = "ok"
          /\ verdict = "format" /\ got[cur] < script[cur].html
                => got[cur] = wrote[cur] /\ Eof(cur)
    /\ at = "reap" => handler[cur] = "eof" /\ child[cur] # "running"

IInv ==
    /\ TypeOK /\ PipeInv /\ ProcessInv /\ ConnectionInv /\ LoopInv /\ ThreadInv
    /\ VerdictJustified /\ CompleteUnlessEarly

-----------------------------------------------------------------------------
USE DEF connVars, cgiVars, procVars, loopVars, threadVars

(* The variables start with their types. *)
LEMMA InitTypeOK == Init => TypeOK
  BY ScriptsAssumption, SMT DEF Init, TypeOK, Responses, Answers, Verdicts, Events

(* No step of the server, a script or a client gives a variable a value of another type. *)
LEMMA NextTypeOK == TypeOK /\ [Next]_vars => TypeOK'
  <1> SUFFICES ASSUME TypeOK, [Next]_vars PROVE TypeOK'
    OBVIOUS
  <1> USE ScriptsAssumption, BoundsAssumption DEF TypeOK, Responses, Answers, Verdicts, Events
  <1>1. CASE UNCHANGED vars
    BY <1>1 DEF vars
  <1>2. ASSUME NEW c \in Clients, Environment(c) PROVE TypeOK'
    <2>1. ASSUME NEW what \in {"request", "flood", "eof"}, ClientSends(c, what)
          PROVE TypeOK'
      BY <2>1 DEF ClientSends
    <2>2. CASE ChildWrites(c)
      BY <2>2 DEF ChildWrites
    <2>3. CASE ChildClosesOutput(c)
      BY <2>3 DEF ChildClosesOutput
    <2>4. CASE ChildExits(c)
      BY <2>4 DEF ChildExits
    <2>5. CASE ChildKilled(c)
      BY <2>5 DEF ChildKilled
    <2>6. CASE TimePasses(c)
      BY <2>6 DEF TimePasses
    <2> QED
      BY <1>2, <2>1, <2>2, <2>3, <2>4, <2>5, <2>6 DEF Environment, Script
  <1>3. CASE EpollWait
    <2>1. Ready \subseteq Events
      BY DEF Ready
    <2> QED
      BY <1>3, <2>1 DEF EpollWait
  <1>4. CASE ScanDone \/ SweepDone \/ EventsDone
    BY <1>4 DEF ScanDone, SweepDone, EventsDone
  <1>5. CASE CloseCgi
    BY <1>5 DEF CloseCgi
  <1>6. CASE ReapCgi
    <2>1. /\ stage' \in [Clients -> {"idle", "busy", "closed"}]
          /\ interest' \in [Clients -> {"IN", "OUT"}]
          /\ resp' \in [Clients -> Responses]
      <3>1. CASE verdict = "drop"
        BY <1>6, <3>1 DEF ReapCgi
      <3>2. CASE verdict # "drop"
        <4>1. (IF verdict = "format" THEN Format(cur) ELSE verdict) \in Responses
          BY <3>2 DEF Format
        <4> QED
          BY <1>6, <3>2, <4>1 DEF ReapCgi
      <3> QED
        BY <3>1, <3>2
    <2> QED
      BY <1>6, <2>1 DEF ReapCgi
  <1>7. CASE FirstWait
    BY <1>7 DEF FirstWait, BeginClose, Drain, Unread
  <1>8. CASE ReadMore
    BY <1>8 DEF ReadMore, ReadOutput
  <1>9. CASE SecondWait
    BY <1>9 DEF SecondWait, BeginClose, Drain, Unread
  <1>10. CASE Send
    <2>1. CASE shut[cur]
      BY <1>10, <2>1 DEF Send, BeginClose
    <2>2. CASE ~shut[cur]
      <3>1. orphans' \in SUBSET Clients
        BY <1>10, <2>2 DEF Send
      <3>2. /\ stage' = [stage EXCEPT ![cur] = "idle"]
            /\ interest' = [interest EXCEPT ![cur] = "IN"]
            /\ resp' = [resp EXCEPT ![cur] = "none"]
            /\ handler' = [handler EXCEPT ![cur] = "none"]
            /\ at' = "events" /\ UNCHANGED <<cur, verdict, back>>
            /\ UNCHANGED <<sock, shut, got, late, procVars, loopVars, reads>>
        BY <1>10, <2>2 DEF Send
      <3> QED
        BY <3>1, <3>2
    <2> QED
      BY <2>1, <2>2
  <1>11. ASSUME NEW c \in Clients, ScanOne(c) \/ SweepFailed(c) \/ SweepOverdue(c)
         PROVE TypeOK'
    BY <1>11 DEF ScanOne, SweepFailed, SweepOverdue, BeginClose
  <1>12. ASSUME NEW c \in Clients, CgiEvent(c) PROVE TypeOK'
    BY <1>12 DEF CgiEvent, ReadOutput
  <1>13. ASSUME NEW c \in Clients, ClientLeaves(c) PROVE TypeOK'
    BY <1>13 DEF ClientLeaves, TakeEvent, BeginClose
  <1>14. ASSUME NEW c \in Clients, ClientOverflows(c) PROVE TypeOK'
    BY <1>14 DEF ClientOverflows, TakeEvent
  <1>15. ASSUME NEW c \in Clients, StartRequest(c) PROVE TypeOK'
    <2>1. PICK r \in StartResults, s \in Scripts :
             \/ UNCHANGED <<cgiVars, procVars>>
             \/ Spawn(c, s) /\ handler' = [handler EXCEPT ![c] = r]
      BY <1>15, Zenon DEF StartRequest
    <2>2. /\ script' \in [Clients -> Scripts]
          /\ child' \in [Clients -> {"none", "running", "signalled", "zombie", "reaped"}]
          /\ exit' \in [Clients -> {"none", "ok", "bad", "signal"}]
          /\ wrote' \in [Clients -> Nat] /\ got' \in [Clients -> Nat]
          /\ outClosed' \in [Clients -> BOOLEAN] /\ late' \in [Clients -> BOOLEAN]
      <3>1. CASE UNCHANGED <<cgiVars, procVars>>
        BY <3>1
      <3>2. CASE Spawn(c, s)
        BY <3>2 DEF Spawn
      <3> QED
        BY <2>1, <3>1, <3>2
    <2>3. handler' \in [Clients -> {"none", "open", "deaf", "eof"}]
      BY <1>15, OutcomesAssumption DEF StartRequest
    <2>4. /\ sock' \in [Clients -> {"quiet", "request", "flood", "eof"}]
          /\ stage' \in [Clients -> {"idle", "busy", "closed"}]
          /\ interest' \in [Clients -> {"IN", "OUT"}]
          /\ shut' \in [Clients -> BOOLEAN]
      BY <1>15 DEF StartRequest
    <2> QED
      BY <1>15, <2>2, <2>3, <2>4 DEF StartRequest, TakeEvent
  <1>16. ASSUME NEW c \in Clients, OutEvent(c) PROVE TypeOK'
    <2>1. CASE UNCHANGED <<cgiVars, procVars>>
      BY <1>16, <2>1 DEF OutEvent, TakeEvent
    <2>2. ASSUME NEW s \in Scripts, Spawn(c, s), UNCHANGED resp,
                 handler' = [handler EXCEPT ![c] = "deaf"]
          PROVE TypeOK'
      BY <1>16, <2>2 DEF OutEvent, TakeEvent, Spawn
    <2> QED
      BY <1>16, <2>1, <2>2 DEF OutEvent
  <1> QED
    BY <1>1, <1>2, <1>3, <1>4, <1>5, <1>6, <1>7, <1>8, <1>9, <1>10, <1>11, <1>12,
       <1>13, <1>14, <1>15, <1>16
       DEF Next, Server

(* Every variable keeps its type, whatever the clients and scripts do. *)
THEOREM TypeCorrect == Spec => []TypeOK
  BY InitTypeOK, NextTypeOK, PTL DEF Spec

-----------------------------------------------------------------------------
(* The inductive invariant, action by action.  A step that only disturbs   *)
(* some of the parts proves the others together, first.                    *)

(* What clients send is only looked at when the server receives it. *)
LEMMA StepClientSends ==
  ASSUME IInv, TypeOK', NEW c \in Clients, NEW w \in {"request", "flood", "eof"},
         ClientSends(c, w)
  PROVE  IInv'
  <1>1. /\ PipeInv' /\ ProcessInv' /\ ConnectionInv' /\ LoopInv'
        /\ ThreadInv' /\ VerdictJustified' /\ CompleteUnlessEarly'
    BY DEF IInv, TypeOK, PipeInv, ProcessInv, ConnectionInv, LoopInv, ThreadInv,
           VerdictJustified, CompleteUnlessEarly, ClientSends, Unread, Answers,
           Closing, Eof, Alive, Events
  <1> QED
    BY <1>1 DEF IInv

(* A script writes into a pipe that has room, and only while it lives. *)
LEMMA StepChildWrites ==
  ASSUME IInv, TypeOK', NEW c \in Clients, ChildWrites(c)
  PROVE  IInv'
  <1>1. /\ ProcessInv' /\ ConnectionInv' /\ LoopInv'
        /\ ThreadInv' /\ VerdictJustified' /\ CompleteUnlessEarly'
    BY DEF IInv, TypeOK, ProcessInv, ConnectionInv, LoopInv, ThreadInv,
           VerdictJustified, CompleteUnlessEarly, ChildWrites, Alive, Unread,
           Answers, Closing, Eof, Events
  <1>2. PipeInv'
    BY BoundsAssumption, OutcomesAssumption, ScriptsAssumption
       DEF IInv, TypeOK, PipeInv, ChildWrites, Alive, Unread, ScriptType
  <1> QED
    BY <1>1, <1>2 DEF IInv

(* A script that closes its output early has written all of it. *)
LEMMA StepChildClosesOutput ==
  ASSUME IInv, TypeOK', NEW c \in Clients, ChildClosesOutput(c)
  PROVE  IInv'
  <1>1. /\ PipeInv' /\ ProcessInv' /\ ConnectionInv' /\ LoopInv'
        /\ ThreadInv' /\ VerdictJustified' /\ CompleteUnlessEarly'
    BY DEF IInv, TypeOK, PipeInv, ProcessInv, ConnectionInv, LoopInv, ThreadInv,
           VerdictJustified, CompleteUnlessEarly, ChildClosesOutput, Alive,
           Unread, Answers, Closing, Eof, Events
  <1> QED
    BY <1>1 DEF IInv

(* A script that ends keeps a status for waitpid. *)
LEMMA StepChildExits ==
  ASSUME IInv, TypeOK', NEW c \in Clients, ChildExits(c)
  PROVE  IInv'
  <1>1. /\ PipeInv' /\ ProcessInv' /\ ConnectionInv'
        /\ LoopInv' /\ ThreadInv' /\ CompleteUnlessEarly'
    BY DEF IInv, TypeOK, PipeInv, ProcessInv, ConnectionInv, LoopInv, ThreadInv,
           CompleteUnlessEarly, ChildExits, Alive, Unread, Answers, Closing,
           Eof, Events
  <1>2. VerdictJustified'
    BY DEF IInv, TypeOK, VerdictJustified, ThreadInv, ConnectionInv, ChildExits,
           Alive, Eof, Answers, Closing
  <1> QED
    BY <1>1, <1>2 DEF IInv

(* SIGTERM ends a script only while close_cgi waits for it. *)
LEMMA StepChildKilled ==
  ASSUME IInv, TypeOK', NEW c \in Clients, ChildKilled(c)
  PROVE  IInv'
  <1>1. /\ PipeInv' /\ ProcessInv' /\ ConnectionInv'
        /\ LoopInv' /\ ThreadInv' /\ CompleteUnlessEarly'
    BY DEF IInv, TypeOK, PipeInv, ProcessInv, ConnectionInv, LoopInv, ThreadInv,
           CompleteUnlessEarly, ChildKilled, Unread, Answers, Closing, Eof,
           Alive, Events
  <1>2. VerdictJustified'
    BY DEF IInv, TypeOK, VerdictJustified, ThreadInv, ConnectionInv,
           ChildKilled, Eof, Alive, Answers, Closing
  <1> QED
    BY <1>1, <1>2 DEF IInv

(* The 30 seconds of CGI_TIMEOUT pass at any time. *)
LEMMA StepTimePasses ==
  ASSUME IInv, TypeOK', NEW c \in Clients, TimePasses(c)
  PROVE  IInv'
  <1>1. /\ PipeInv' /\ ProcessInv' /\ ConnectionInv' /\ LoopInv'
        /\ ThreadInv' /\ VerdictJustified' /\ CompleteUnlessEarly'
    BY DEF IInv, TypeOK, PipeInv, ProcessInv, ConnectionInv, LoopInv, ThreadInv,
           VerdictJustified, CompleteUnlessEarly, TimePasses, Unread, Answers,
           Closing, Eof, Alive, Events
  <1> QED
    BY <1>1 DEF IInv

(* epoll_wait takes the batch from the registrations of this moment. *)
LEMMA StepEpollWait ==
  ASSUME IInv, TypeOK', EpollWait
  PROVE  IInv'
  <1>1. /\ PipeInv' /\ ProcessInv' /\ ConnectionInv' /\ LoopInv'
        /\ ThreadInv' /\ VerdictJustified' /\ CompleteUnlessEarly'
    BY DEF IInv, TypeOK, PipeInv, ProcessInv, ConnectionInv, LoopInv, ThreadInv,
           VerdictJustified, CompleteUnlessEarly, EpollWait, Ready, Unread,
           Answers, Closing, Eof, Alive, Events
  <1> QED
    BY <1>1 DEF IInv

(* The scan ends with each handler either judged or still waited for. *)
LEMMA StepScanDone ==
  ASSUME IInv, TypeOK', ScanDone
  PROVE  IInv'
  <1>1. /\ PipeInv' /\ ProcessInv' /\ ConnectionInv' /\ LoopInv'
        /\ ThreadInv' /\ VerdictJustified' /\ CompleteUnlessEarly'
    BY DEF IInv, TypeOK, PipeInv, ProcessInv, ConnectionInv, LoopInv, ThreadInv,
           VerdictJustified, CompleteUnlessEarly, ScanDone, Unread, Answers,
           Closing, Eof, Alive, Events
  <1> QED
    BY <1>1 DEF IInv

(* The two sweeps end when both lists are empty. *)
LEMMA StepSweepDone ==
  ASSUME IInv, TypeOK', SweepDone
  PROVE  IInv'
  <1>1. /\ PipeInv' /\ ProcessInv' /\ ConnectionInv' /\ LoopInv'
        /\ ThreadInv' /\ VerdictJustified' /\ CompleteUnlessEarly'
    BY DEF IInv, TypeOK, PipeInv, ProcessInv, ConnectionInv, LoopInv, ThreadInv,
           VerdictJustified, CompleteUnlessEarly, SweepDone, Unread, Answers,
           Closing, Eof, Alive, Events
  <1> QED
    BY <1>1 DEF IInv

(* The loop starts over when the batch is empty. *)
LEMMA StepEventsDone ==
  ASSUME IInv, TypeOK', EventsDone
  PROVE  IInv'
  <1>1. /\ PipeInv' /\ ProcessInv' /\ ConnectionInv' /\ LoopInv'
        /\ ThreadInv' /\ VerdictJustified' /\ CompleteUnlessEarly'
    BY DEF IInv, TypeOK, PipeInv, ProcessInv, ConnectionInv, LoopInv, ThreadInv,
           VerdictJustified, CompleteUnlessEarly, EventsDone, Unread, Answers,
           Closing, Eof, Alive, Events
  <1> QED
    BY <1>1 DEF IInv

(* close_cgi closes the pipe and signals the process. *)
LEMMA StepCloseCgi ==
  ASSUME IInv, TypeOK', CloseCgi
  PROVE  IInv'
  <1>1. /\ PipeInv' /\ LoopInv' /\ ThreadInv'
        /\ VerdictJustified' /\ CompleteUnlessEarly'
    BY DEF IInv, TypeOK, PipeInv, LoopInv, ThreadInv, VerdictJustified,
           CompleteUnlessEarly, CloseCgi, Unread, Closing, Eof, Alive, Events
  <1>2. ProcessInv'
    BY DEF IInv, TypeOK, ProcessInv, ThreadInv, ConnectionInv, CloseCgi, Eof,
           Alive, Answers, Closing
  <1>3. ConnectionInv'
    BY DEF IInv, TypeOK, ConnectionInv, ThreadInv, CloseCgi, Answers, Closing,
           Eof, Alive
  <1> QED
    BY <1>1, <1>2, <1>3 DEF IInv

(* waitpid returns, and the verdict decided before it is the one given. *)
LEMMA StepReapCgi ==
  ASSUME IInv, TypeOK', ReapCgi
  PROVE  IInv'
  <1>1. CASE verdict = "drop"
    <2>1. /\ PipeInv' /\ ProcessInv' /\ ThreadInv'
          /\ VerdictJustified' /\ CompleteUnlessEarly'
      BY <1>1 DEF IInv, TypeOK, PipeInv, ProcessInv, ThreadInv,
                  VerdictJustified, CompleteUnlessEarly, ReapCgi, Alive, Format,
                  Unread, Eof
    <2>2. ConnectionInv'
      BY <1>1 DEF IInv, TypeOK, ConnectionInv, ThreadInv, ReapCgi, Alive,
                  Format, Answers, Closing, Eof
    <2>3. LoopInv'
      BY <1>1 DEF IInv, TypeOK, LoopInv, ThreadInv, ConnectionInv, ReapCgi,
                  Alive, Format, Closing, Eof, Events, Answers
    <2> QED
      BY <2>1, <2>2, <2>3 DEF IInv
  <1>2. CASE verdict = "format"
    <2>1. PipeInv' /\ ProcessInv' /\ ThreadInv'
      BY <1>2 DEF IInv, TypeOK, PipeInv, ProcessInv, ThreadInv, ReapCgi, Alive,
                  Format, Unread, Eof
    <2>2. ConnectionInv'
      BY <1>2 DEF IInv, TypeOK, ConnectionInv, ThreadInv, ReapCgi, Alive,
                  Format, Answers, Closing, Eof
    <2>3. LoopInv'
      BY <1>2 DEF IInv, TypeOK, LoopInv, ThreadInv, ConnectionInv, ReapCgi,
                  Alive, Format, Closing, Eof, Events, Answers
    <2>4. VerdictJustified'
      BY <1>2, BoundsAssumption, OutcomesAssumption, ScriptsAssumption
         DEF IInv, TypeOK, PipeInv, ProcessInv, ConnectionInv, LoopInv,
             ThreadInv, VerdictJustified, CompleteUnlessEarly, ReapCgi, Alive,
             Format, Unread, Answers, Closing, Eof, Events, ScriptType
    <2>5. CompleteUnlessEarly'
      BY <1>2 DEF IInv, TypeOK, CompleteUnlessEarly, ThreadInv, ConnectionInv,
                  ReapCgi, Alive, Format, Eof, Answers, Closing
    <2> QED
      BY <2>1, <2>2, <2>3, <2>4, <2>5 DEF IInv
  <1>3. CASE verdict \notin {"drop", "format"}
    <2>1. PipeInv' /\ ProcessInv' /\ ThreadInv'
      BY <1>3 DEF IInv, TypeOK, PipeInv, ProcessInv, ThreadInv, ReapCgi, Alive,
                  Format, Unread, Eof
    <2>2. ConnectionInv'
      BY <1>3 DEF IInv, TypeOK, ConnectionInv, ThreadInv, ReapCgi, Alive,
                  Format, Answers, Closing, Eof
    <2>3. LoopInv'
      BY <1>3 DEF IInv, TypeOK, LoopInv, ThreadInv, ConnectionInv, ReapCgi,
                  Alive, Format, Closing, Eof, Events, Answers
    <2>4. VerdictJustified'
      <3>1. /\ resp' = [resp EXCEPT ![cur] = verdict]
            /\ UNCHANGED <<script, got, wrote, exit, late>>
        BY <1>3 DEF ReapCgi
      <3>2. /\ verdict = "502" => exit[cur] = "bad"
            /\ verdict = "504" => late[cur]
            /\ verdict = "500" => exit[cur] = "ok"
            /\ verdict \in {"500", "502", "504"}
        BY <1>3 DEF ReapCgi, IInv, ThreadInv, TypeOK, Verdicts
      <3> QED
        BY <3>1, <3>2 DEF IInv, TypeOK, VerdictJustified
    <2>5. CompleteUnlessEarly'
      <3>1. /\ resp' = [resp EXCEPT ![cur] = verdict] /\ verdict # "200"
            /\ child' = [child EXCEPT ![cur] = "reaped"]
            /\ UNCHANGED <<script, got, wrote, outClosed>>
        BY <1>3 DEF ReapCgi, IInv, TypeOK, Verdicts
      <3> QED
        BY <3>1 DEF IInv, TypeOK, CompleteUnlessEarly, Eof, Alive
    <2> QED
      BY <2>1, <2>2, <2>3, <2>4, <2>5 DEF IInv
  <1> QED
    BY <1>1, <1>2, <1>3 DEF IInv, TypeOK, Verdicts, ReapCgi, Alive, Format

(* HandleCGIMethod decides at its first waitpid. *)
LEMMA StepFirstWait ==
  ASSUME IInv, TypeOK', FirstWait
  PROVE  IInv'
  <1>1. CASE child[cur] = "reaped"
    <2>1. /\ PipeInv' /\ ProcessInv' /\ ConnectionInv'
          /\ LoopInv' /\ VerdictJustified' /\ CompleteUnlessEarly'
      BY <1>1 DEF IInv, TypeOK, PipeInv, ProcessInv, ConnectionInv, LoopInv,
                  VerdictJustified, CompleteUnlessEarly, FirstWait, Alive,
                  BeginClose, Drain, FdOpen, Unread, Answers, Closing, Eof,
                  Events
    <2>2. ThreadInv'
      <3>1. exit[cur] = "ok" /\ failed = {} /\ overdue = {} /\ handler[cur] # "none"
        BY <1>1 DEF FirstWait, IInv, TypeOK, LoopInv, ThreadInv, Closing
      <3>2. child[cur] = "reaped" /\ at' = "close" /\ verdict' = "500" /\ cur' = cur
            /\ UNCHANGED <<exit, failed, overdue, handler>> /\ child' = child
        BY <1>1 DEF FirstWait, BeginClose, Alive
      <3> QED
        BY <3>1, <3>2 DEF ThreadInv
    <2> QED
      BY <2>1, <2>2 DEF IInv
  <1>2. CASE child[cur] = "zombie" /\ exit[cur] # "ok"
    <2>1. /\ PipeInv' /\ ProcessInv' /\ ConnectionInv'
          /\ LoopInv' /\ VerdictJustified' /\ CompleteUnlessEarly'
      BY <1>2 DEF IInv, TypeOK, PipeInv, ProcessInv, ConnectionInv, LoopInv,
                  VerdictJustified, CompleteUnlessEarly, FirstWait, Alive,
                  BeginClose, Drain, FdOpen, Unread, Answers, Closing, Eof,
                  Events
    <2>2. ThreadInv'
      BY <1>2 DEF IInv, TypeOK, ThreadInv, ProcessInv, LoopInv, FirstWait,
                  Alive, BeginClose, Drain, FdOpen, Unread, Eof, Closing, Events
    <2> QED
      BY <2>1, <2>2 DEF IInv
  <1>3. CASE child[cur] = "zombie" /\ exit[cur] = "ok"
    <2>1. ProcessInv' /\ ConnectionInv' /\ LoopInv'
      BY <1>3 DEF IInv, TypeOK, ProcessInv, ConnectionInv, LoopInv, FirstWait,
                  Alive, BeginClose, Drain, FdOpen, Unread, Answers, Closing,
                  Eof, Events
    <2>2. PipeInv'
      <3>1. got' = [got EXCEPT ![cur] = wrote[cur]]
        <4>1. CASE FdOpen(cur)
          BY <1>3, <4>1, BoundsAssumption
             DEF FirstWait, Drain, Unread, Alive, IInv, TypeOK, PipeInv
        <4>2. CASE ~FdOpen(cur)
          <5>1. got[cur] = wrote[cur] /\ got' = got
            BY <1>3, <4>2
               DEF FirstWait, FdOpen, Alive, IInv, TypeOK, LoopInv, ThreadInv, Closing
          <5> QED
            BY <5>1 DEF IInv, TypeOK
        <4> QED
          BY <4>1, <4>2
      <3>2. UNCHANGED wrote
        BY <1>3 DEF FirstWait
      <3> QED
        BY <3>1, <3>2, BoundsAssumption DEF IInv, TypeOK, PipeInv, Unread
    <2>3. ThreadInv'
      <3>1. got' = [got EXCEPT ![cur] = wrote[cur]]
        <4>1. CASE FdOpen(cur)
          BY <1>3, <4>1, BoundsAssumption
             DEF FirstWait, Drain, Unread, Alive, IInv, TypeOK, PipeInv
        <4>2. CASE ~FdOpen(cur)
          <5>1. got[cur] = wrote[cur] /\ got' = got
            BY <1>3, <4>2
               DEF FirstWait, FdOpen, Alive, IInv, TypeOK, LoopInv, ThreadInv, Closing
          <5> QED
            BY <5>1 DEF IInv, TypeOK
        <4> QED
          BY <4>1, <4>2
      <3>2. /\ at' = "close" /\ verdict' = "format" /\ UNCHANGED <<cur, wrote, handler, loopVars>>
            /\ child' = [child EXCEPT ![cur] = "reaped"]
        BY <1>3 DEF FirstWait, BeginClose, Alive
      <3>3. failed = {} /\ overdue = {} /\ handler[cur] # "none"
        BY <1>3 DEF FirstWait, IInv, LoopInv, ThreadInv
      <3> QED
        BY <3>1, <3>2, <3>3 DEF IInv, TypeOK, ThreadInv, Eof, Alive
    <2>4. VerdictJustified'
      BY <1>3 DEF IInv, TypeOK, VerdictJustified, ThreadInv, ConnectionInv,
                  FirstWait, Alive, BeginClose, Drain, FdOpen, Unread, Eof,
                  Answers, Closing
    <2>5. CompleteUnlessEarly'
      BY <1>3 DEF IInv, TypeOK, CompleteUnlessEarly, ThreadInv, ConnectionInv,
                  FirstWait, Alive, BeginClose, Drain, FdOpen, Unread, Eof,
                  Answers, Closing
    <2> QED
      BY <2>1, <2>2, <2>3, <2>4, <2>5 DEF IInv
  <1>4. CASE Alive(cur) /\ late[cur]
    <2>1. /\ PipeInv' /\ ProcessInv' /\ ConnectionInv'
          /\ LoopInv' /\ VerdictJustified' /\ CompleteUnlessEarly'
      BY <1>4 DEF IInv, TypeOK, PipeInv, ProcessInv, ConnectionInv, LoopInv,
                  VerdictJustified, CompleteUnlessEarly, FirstWait, Alive,
                  BeginClose, Drain, FdOpen, Unread, Answers, Closing, Eof,
                  Events
    <2>2. ThreadInv'
      BY <1>4 DEF IInv, TypeOK, ThreadInv, LoopInv, FirstWait, Alive,
                  BeginClose, Drain, FdOpen, Unread, Eof, Closing, Events
    <2> QED
      BY <2>1, <2>2 DEF IInv
  <1>5. CASE Alive(cur) /\ ~late[cur]
    <2>1. /\ PipeInv' /\ ProcessInv' /\ ConnectionInv'
          /\ LoopInv' /\ VerdictJustified' /\ CompleteUnlessEarly'
      BY <1>5 DEF IInv, TypeOK, PipeInv, ProcessInv, ConnectionInv, LoopInv,
                  VerdictJustified, CompleteUnlessEarly, FirstWait, Alive,
                  BeginClose, Drain, FdOpen, Unread, Answers, Closing, Eof,
                  Events
    <2>2. ThreadInv'
      BY <1>5 DEF IInv, TypeOK, ThreadInv, ProcessInv, LoopInv, FirstWait,
                  Alive, BeginClose, Drain, FdOpen, Unread, Eof, Closing, Events
    <2> QED
      BY <2>1, <2>2 DEF IInv
  <1> QED
    BY <1>1, <1>2, <1>3, <1>4, <1>5 DEF FirstWait, Alive, BeginClose, Drain,
                                        FdOpen, Unread

(* The reads between the two waitpid calls. *)
LEMMA StepReadMore ==
  ASSUME IInv, TypeOK', ReadMore
  PROVE  IInv'
  <1>1. CASE FdOpen(cur) /\ Unread(cur) > 0
    <2>1. ProcessInv' /\ ConnectionInv' /\ LoopInv' /\ ThreadInv'
      BY <1>1 DEF IInv, TypeOK, ProcessInv, ConnectionInv, LoopInv, ThreadInv,
                  ReadMore, ReadOutput, FdOpen, Unread, Eof, Alive, Answers,
                  Closing, Events
    <2>2. PipeInv'
      BY <1>1, BoundsAssumption, OutcomesAssumption, ScriptsAssumption
         DEF IInv, TypeOK, PipeInv, ReadMore, ReadOutput, FdOpen, Unread, Eof,
             Alive, ScriptType
    <2>3. VerdictJustified'
      BY <1>1 DEF IInv, TypeOK, VerdictJustified, ThreadInv, ConnectionInv,
                  ReadMore, ReadOutput, FdOpen, Unread, Eof, Alive, Answers,
                  Closing
    <2>4. CompleteUnlessEarly'
      BY <1>1 DEF IInv, TypeOK, CompleteUnlessEarly, ThreadInv, ConnectionInv,
                  ReadMore, ReadOutput, FdOpen, Unread, Eof, Alive, Answers,
                  Closing
    <2> QED
      BY <2>1, <2>2, <2>3, <2>4 DEF IInv
  <1>2. CASE FdOpen(cur) /\ ~(Unread(cur) > 0) /\ Eof(cur)
    <2>1. /\ PipeInv' /\ ProcessInv' /\ ConnectionInv'
          /\ ThreadInv' /\ VerdictJustified' /\ CompleteUnlessEarly'
      BY <1>2 DEF IInv, TypeOK, PipeInv, ProcessInv, ConnectionInv, ThreadInv,
                  VerdictJustified, CompleteUnlessEarly, ReadMore, ReadOutput,
                  FdOpen, Unread, Eof, Alive, Answers, Closing
    <2>2. LoopInv'
      BY <1>2 DEF IInv, TypeOK, LoopInv, ThreadInv, PipeInv, ReadMore,
                  ReadOutput, FdOpen, Unread, Eof, Alive, Closing, Events
    <2> QED
      BY <2>1, <2>2 DEF IInv
  <1>3. CASE ~FdOpen(cur) \/ ~(Unread(cur) > 0 \/ Eof(cur))
    <2>1. /\ PipeInv' /\ ProcessInv' /\ ConnectionInv' /\ LoopInv'
          /\ ThreadInv' /\ VerdictJustified' /\ CompleteUnlessEarly'
      BY <1>3 DEF IInv, TypeOK, PipeInv, ProcessInv, ConnectionInv, LoopInv,
                  ThreadInv, VerdictJustified, CompleteUnlessEarly, ReadMore,
                  ReadOutput, FdOpen, Unread, Eof, Alive, Answers, Closing,
                  Events
    <2> QED
      BY <2>1 DEF IInv
  <1> QED
    BY <1>1, <1>2, <1>3 DEF ReadMore, ReadOutput, FdOpen, Unread, Eof, Alive

(* HandleCGIMethod decides at its second waitpid. *)
LEMMA StepSecondWait ==
  ASSUME IInv, TypeOK', SecondWait
  PROVE  IInv'
  <1>1. CASE child[cur] = "zombie" /\ FdOpen(cur)
    <2>1. ProcessInv' /\ ConnectionInv' /\ LoopInv'
      BY <1>1 DEF IInv, TypeOK, ProcessInv, ConnectionInv, LoopInv, SecondWait,
                  BeginClose, Drain, FdOpen, Unread, Eof, Alive, Answers,
                  Closing, Events
    <2>2. PipeInv'
      BY <1>1, BoundsAssumption, OutcomesAssumption, ScriptsAssumption
         DEF IInv, TypeOK, PipeInv, SecondWait, BeginClose, Drain, FdOpen,
             Unread, Eof, Alive, ScriptType
    <2>3. ThreadInv'
      BY <1>1, BoundsAssumption, OutcomesAssumption, ScriptsAssumption
         DEF IInv, TypeOK, PipeInv, ProcessInv, ConnectionInv, LoopInv,
             ThreadInv, VerdictJustified, CompleteUnlessEarly, SecondWait,
             BeginClose, Drain, FdOpen, Unread, Eof, Alive, Answers, Closing,
             Events, ScriptType
    <2>4. VerdictJustified'
      BY <1>1 DEF IInv, TypeOK, VerdictJustified, ThreadInv, ConnectionInv,
                  SecondWait, BeginClose, Drain, FdOpen, Unread, Eof, Alive,
                  Answers, Closing
    <2>5. CompleteUnlessEarly'
      BY <1>1 DEF IInv, TypeOK, CompleteUnlessEarly, ThreadInv, ConnectionInv,
                  SecondWait, BeginClose, Drain, FdOpen, Unread, Eof, Alive,
                  Answers, Closing
    <2> QED
      BY <2>1, <2>2, <2>3, <2>4, <2>5 DEF IInv
  <1>2. CASE ~(child[cur] = "zombie" /\ FdOpen(cur)) /\ at' = "close"
    <2>1. /\ PipeInv' /\ ProcessInv' /\ ConnectionInv'
          /\ LoopInv' /\ VerdictJustified' /\ CompleteUnlessEarly'
      BY <1>2 DEF IInv, TypeOK, PipeInv, ProcessInv, ConnectionInv, LoopInv,
                  VerdictJustified, CompleteUnlessEarly, SecondWait, BeginClose,
                  Drain, FdOpen, Unread, Eof, Alive, Answers, Closing, Events
    <2>2. ThreadInv'
      BY <1>2, BoundsAssumption, OutcomesAssumption, ScriptsAssumption
         DEF IInv, TypeOK, PipeInv, ProcessInv, ConnectionInv, LoopInv,
             ThreadInv, VerdictJustified, CompleteUnlessEarly, SecondWait,
             BeginClose, Drain, FdOpen, Unread, Eof, Alive, Answers, Closing,
             Events, ScriptType
    <2> QED
      BY <2>1, <2>2 DEF IInv
  <1>3. CASE ~(child[cur] = "zombie" /\ FdOpen(cur)) /\ at' = "events"
    <2>1. /\ PipeInv' /\ ProcessInv' /\ ConnectionInv' /\ LoopInv'
          /\ ThreadInv' /\ VerdictJustified' /\ CompleteUnlessEarly'
      BY <1>3 DEF IInv, TypeOK, PipeInv, ProcessInv, ConnectionInv, LoopInv,
                  ThreadInv, VerdictJustified, CompleteUnlessEarly, SecondWait,
                  BeginClose, Drain, FdOpen, Unread, Eof, Alive, Answers,
                  Closing, Events
    <2> QED
      BY <2>1 DEF IInv
  <1> QED
    BY <1>1, <1>2, <1>3 DEF SecondWait, BeginClose, Drain, FdOpen, Unread, Eof,
                            Alive

(* The end of a response. *)
LEMMA StepSend ==
  ASSUME IInv, TypeOK', Send
  PROVE  IInv'
  <1>1. CASE ~shut[cur]
    <2>1. /\ PipeInv' /\ ProcessInv' /\ ConnectionInv'
          /\ ThreadInv' /\ VerdictJustified' /\ CompleteUnlessEarly'
      BY <1>1 DEF IInv, TypeOK, PipeInv, ProcessInv, ConnectionInv, ThreadInv,
                  VerdictJustified, CompleteUnlessEarly, Send, BeginClose,
                  Unread, Answers, Closing, Eof, Alive
    <2>2. LoopInv'
      BY <1>1 DEF IInv, TypeOK, LoopInv, ThreadInv, ConnectionInv, Send,
                  BeginClose, Closing, Eof, Alive, Events, Answers
    <2> QED
      BY <2>1, <2>2 DEF IInv
  <1>2. CASE shut[cur] /\ handler[cur] = "none"
    <2>1. /\ PipeInv' /\ ProcessInv' /\ ThreadInv'
          /\ VerdictJustified' /\ CompleteUnlessEarly'
      BY <1>2 DEF IInv, TypeOK, PipeInv, ProcessInv, ThreadInv,
                  VerdictJustified, CompleteUnlessEarly, Send, BeginClose,
                  Unread, Eof, Alive
    <2>2. ConnectionInv'
      BY <1>2 DEF IInv, TypeOK, ConnectionInv, ThreadInv, Send, BeginClose,
                  Answers, Closing, Eof, Alive
    <2>3. LoopInv'
      BY <1>2 DEF IInv, TypeOK, LoopInv, ThreadInv, ConnectionInv, Send,
                  BeginClose, Closing, Eof, Alive, Events, Answers
    <2> QED
      BY <2>1, <2>2, <2>3 DEF IInv
  <1>3. CASE shut[cur] /\ handler[cur] # "none"
    <2>1. /\ PipeInv' /\ ProcessInv' /\ ConnectionInv'
          /\ LoopInv' /\ VerdictJustified' /\ CompleteUnlessEarly'
      BY <1>3 DEF IInv, TypeOK, PipeInv, ProcessInv, ConnectionInv, LoopInv,
                  VerdictJustified, CompleteUnlessEarly, Send, BeginClose,
                  Unread, Answers, Closing, Eof, Alive, Events
    <2>2. ThreadInv'
      BY <1>3 DEF IInv, TypeOK, ThreadInv, LoopInv, Send, BeginClose, Eof,
                  Alive, Closing, Events
    <2> QED
      BY <2>1, <2>2 DEF IInv
  <1> QED
    BY <1>1, <1>2, <1>3 DEF Send, BeginClose

(* The scan reaps one script. *)
LEMMA StepScanOne ==
  ASSUME IInv, TypeOK', NEW c \in Clients, ScanOne(c)
  PROVE  IInv'
  <1>1. /\ PipeInv' /\ ProcessInv' /\ ConnectionInv'
        /\ ThreadInv' /\ VerdictJustified' /\ CompleteUnlessEarly'
    BY DEF IInv, TypeOK, PipeInv, ProcessInv, ConnectionInv, ThreadInv,
           VerdictJustified, CompleteUnlessEarly, ScanOne, Unread, Answers,
           Closing, Eof, Alive
  <1>2. LoopInv'
    BY DEF IInv, TypeOK, LoopInv, ThreadInv, ProcessInv, ScanOne, Closing, Eof,
           Alive, Events
  <1> QED
    BY <1>1, <1>2 DEF IInv

(* A script the scan saw fail is swept. *)
LEMMA StepSweepFailed ==
  ASSUME IInv, TypeOK', NEW c \in Clients, SweepFailed(c)
  PROVE  IInv'
  <1>1. /\ PipeInv' /\ ProcessInv' /\ ConnectionInv'
        /\ LoopInv' /\ VerdictJustified' /\ CompleteUnlessEarly'
    BY DEF IInv, TypeOK, PipeInv, ProcessInv, ConnectionInv, LoopInv,
           VerdictJustified, CompleteUnlessEarly, SweepFailed, BeginClose,
           Unread, Answers, Closing, Eof, Alive, Events
  <1>2. ThreadInv'
    <2>1. handler[c] # "none" /\ child[c] = "reaped" /\ exit[c] = "bad"
          /\ c \notin failed' /\ c \notin overdue'
      BY DEF SweepFailed, IInv, LoopInv
    <2>2. /\ at' = "close" /\ verdict' = "502" /\ cur' = c
          /\ UNCHANGED <<cgiVars, procVars, batch>>
      BY DEF SweepFailed, BeginClose
    <2> QED
      BY <2>1, <2>2 DEF ThreadInv
  <1> QED
    BY <1>1, <1>2 DEF IInv

(* A script past its time is swept. *)
LEMMA StepSweepOverdue ==
  ASSUME IInv, TypeOK', NEW c \in Clients, SweepOverdue(c)
  PROVE  IInv'
  <1>1. /\ PipeInv' /\ ProcessInv' /\ ConnectionInv'
        /\ LoopInv' /\ VerdictJustified' /\ CompleteUnlessEarly'
    BY DEF IInv, TypeOK, PipeInv, ProcessInv, ConnectionInv, LoopInv,
           VerdictJustified, CompleteUnlessEarly, SweepOverdue, BeginClose,
           Unread, Answers, Closing, Eof, Alive, Events
  <1>2. ThreadInv'
    <2>1. handler[c] # "none" /\ late[c]
          /\ c \notin failed' /\ c \notin overdue'
      BY DEF SweepOverdue, IInv, LoopInv
    <2>2. /\ at' = "close" /\ verdict' = "504" /\ cur' = c
          /\ UNCHANGED <<cgiVars, procVars, batch>>
      BY DEF SweepOverdue, BeginClose
    <2> QED
      BY <2>1, <2>2 DEF ThreadInv
  <1> QED
    BY <1>1, <1>2 DEF IInv

(* An event of a script whose handler may be gone already. *)
LEMMA StepCgiEvent ==
  ASSUME IInv, TypeOK', NEW c \in Clients, CgiEvent(c)
  PROVE  IInv'
  <1>1. CASE handler[c] = "none"
    <2>1. /\ PipeInv' /\ ProcessInv' /\ ConnectionInv' /\ LoopInv'
          /\ ThreadInv' /\ VerdictJustified' /\ CompleteUnlessEarly'
      BY <1>1 DEF IInv, TypeOK, PipeInv, ProcessInv, ConnectionInv, LoopInv,
                  ThreadInv, VerdictJustified, CompleteUnlessEarly, CgiEvent,
                  ReadOutput, FdOpen, Unread, Eof, Alive, Answers, Closing,
                  Events
    <2> QED
      BY <2>1 DEF IInv
  <1>2. CASE FdOpen(c) /\ Unread(c) > 0
    <2>1. ProcessInv' /\ ConnectionInv' /\ LoopInv' /\ ThreadInv'
      BY <1>2 DEF IInv, TypeOK, ProcessInv, ConnectionInv, LoopInv, ThreadInv,
                  CgiEvent, ReadOutput, FdOpen, Unread, Eof, Alive, Answers,
                  Closing, Events
    <2>2. PipeInv'
      <3>1. /\ got' = [got EXCEPT ![c] = got[c] + 1] /\ UNCHANGED wrote
            /\ got[c] + 1 <= wrote[c]
        BY <1>2 DEF CgiEvent, ReadOutput, FdOpen, Unread, IInv, TypeOK
      <3> QED
        BY <3>1, BoundsAssumption DEF IInv, TypeOK, PipeInv, Unread
    <2>3. VerdictJustified'
      BY <1>2 DEF IInv, TypeOK, VerdictJustified, ThreadInv, ConnectionInv,
                  CgiEvent, ReadOutput, FdOpen, Unread, Eof, Alive, Answers,
                  Closing
    <2>4. CompleteUnlessEarly'
      BY <1>2 DEF IInv, TypeOK, CompleteUnlessEarly, ThreadInv, ConnectionInv,
                  CgiEvent, ReadOutput, FdOpen, Unread, Eof, Alive, Answers,
                  Closing
    <2> QED
      BY <2>1, <2>2, <2>3, <2>4 DEF IInv
  <1>3. CASE FdOpen(c) /\ ~(Unread(c) > 0) /\ Eof(c)
    <2>1. /\ PipeInv' /\ ProcessInv' /\ ConnectionInv'
          /\ ThreadInv' /\ VerdictJustified' /\ CompleteUnlessEarly'
      BY <1>3 DEF IInv, TypeOK, PipeInv, ProcessInv, ConnectionInv, ThreadInv,
                  VerdictJustified, CompleteUnlessEarly, CgiEvent, ReadOutput,
                  FdOpen, Unread, Eof, Alive, Answers, Closing
    <2>2. LoopInv'
      BY <1>3 DEF IInv, TypeOK, LoopInv, ThreadInv, PipeInv, CgiEvent,
                  ReadOutput, FdOpen, Unread, Eof, Alive, Closing, Events
    <2> QED
      BY <2>1, <2>2 DEF IInv
  <1>4. CASE handler[c] # "none" /\ (~FdOpen(c) \/ ~(Unread(c) > 0 \/ Eof(c)))
    <2>1. /\ PipeInv' /\ ProcessInv' /\ ConnectionInv' /\ LoopInv'
          /\ ThreadInv' /\ VerdictJustified' /\ CompleteUnlessEarly'
      BY <1>4 DEF IInv, TypeOK, PipeInv, ProcessInv, ConnectionInv, LoopInv,
                  ThreadInv, VerdictJustified, CompleteUnlessEarly, CgiEvent,
                  ReadOutput, FdOpen, Unread, Eof, Alive, Answers, Closing,
                  Events
    <2> QED
      BY <2>1 DEF IInv
  <1> QED
    BY <1>1, <1>2, <1>3, <1>4 DEF CgiEvent, ReadOutput, FdOpen, Unread, Eof,
                                  Alive

(* A client leaves while its script may run. *)
LEMMA StepClientLeaves ==
  ASSUME IInv, TypeOK', NEW c \in Clients, ClientLeaves(c)
  PROVE  IInv'
  <1>1. /\ PipeInv' /\ ProcessInv' /\ ConnectionInv'
        /\ LoopInv' /\ VerdictJustified' /\ CompleteUnlessEarly'
    BY DEF IInv, TypeOK, PipeInv, ProcessInv, ConnectionInv, LoopInv,
           VerdictJustified, CompleteUnlessEarly, ClientLeaves, TakeEvent,
           BeginClose, Unread, Answers, Closing, Eof, Alive, Events
  <1>2. ThreadInv'
    BY DEF IInv, TypeOK, ThreadInv, LoopInv, ClientLeaves, TakeEvent,
           BeginClose, Eof, Alive, Closing, Events
  <1> QED
    BY <1>1, <1>2 DEF IInv

(* A client sends too much while its script may run. *)
LEMMA StepClientOverflows ==
  ASSUME IInv, TypeOK', NEW c \in Clients, ClientOverflows(c)
  PROVE  IInv'
  <1>1. /\ PipeInv' /\ ProcessInv' /\ ConnectionInv' /\ LoopInv'
        /\ ThreadInv' /\ VerdictJustified' /\ CompleteUnlessEarly'
    BY DEF IInv, TypeOK, PipeInv, ProcessInv, ConnectionInv, LoopInv, ThreadInv,
           VerdictJustified, CompleteUnlessEarly, ClientOverflows, TakeEvent,
           Unread, Answers, Closing, Eof, Alive, Events
  <1> QED
    BY <1>1 DEF IInv

(* A request starts its script, or fails to. *)
LEMMA StepStartRequest ==
  ASSUME IInv, TypeOK', NEW c \in Clients, StartRequest(c)
  PROVE  IInv'
  <1>1. CASE UNCHANGED <<cgiVars, procVars>> /\ interest' = [interest EXCEPT ![c] = "OUT"]
    <2>1. /\ PipeInv' /\ ProcessInv' /\ ConnectionInv' /\ LoopInv'
          /\ ThreadInv' /\ VerdictJustified' /\ CompleteUnlessEarly'
      BY <1>1 DEF IInv, TypeOK, PipeInv, ProcessInv, ConnectionInv, LoopInv,
                  ThreadInv, VerdictJustified, CompleteUnlessEarly,
                  StartRequest, TakeEvent, Spawn, Unread, Answers, Closing, Eof,
                  Alive, Events
    <2> QED
      BY <2>1 DEF IInv
  <1>2. ASSUME NEW r \in StartResults \ {"fails"}, NEW s \in Scripts, Spawn(c, s),
                 handler' = [handler EXCEPT ![c] = r], UNCHANGED interest
          PROVE  IInv'
    <2>1. ProcessInv' /\ ThreadInv'
      BY <1>2 DEF IInv, TypeOK, ProcessInv, ThreadInv, StartRequest, TakeEvent,
                  Spawn, Eof, Alive
    <2>2. PipeInv'
      BY <1>2, BoundsAssumption, OutcomesAssumption, ScriptsAssumption
         DEF IInv, TypeOK, PipeInv, StartRequest, TakeEvent, Spawn, Unread,
             ScriptType
    <2>3. ConnectionInv'
      BY <1>2, BoundsAssumption, OutcomesAssumption, ScriptsAssumption
         DEF IInv, TypeOK, ConnectionInv, StartRequest, TakeEvent, Spawn,
             Answers, Closing, ScriptType
    <2>4. LoopInv'
      BY <1>2, BoundsAssumption, OutcomesAssumption, ScriptsAssumption
         DEF IInv, TypeOK, LoopInv, StartRequest, TakeEvent, Spawn, Closing,
             Eof, Alive, Events, ScriptType
    <2>5. VerdictJustified'
      BY <1>2 DEF IInv, TypeOK, VerdictJustified, ThreadInv, ConnectionInv,
                  StartRequest, TakeEvent, Spawn, Eof, Alive, Answers, Closing
    <2>6. CompleteUnlessEarly'
      BY <1>2 DEF IInv, TypeOK, CompleteUnlessEarly, ThreadInv, ConnectionInv,
                  StartRequest, TakeEvent, Spawn, Eof, Alive, Answers, Closing
    <2> QED
      BY <2>1, <2>2, <2>3, <2>4, <2>5, <2>6 DEF IInv
  <1> QED
    BY <1>1, <1>2 DEF StartRequest, TakeEvent, Spawn

(* A client can be written to; without a response one is made. *)
LEMMA StepOutEvent ==
  ASSUME IInv, TypeOK', NEW c \in Clients, OutEvent(c)
  PROVE  IInv'
  <1>1. CASE UNCHANGED <<cgiVars, procVars>>
    <2>1. /\ PipeInv' /\ ProcessInv' /\ LoopInv'
          /\ VerdictJustified' /\ CompleteUnlessEarly'
      BY <1>1 DEF IInv, TypeOK, PipeInv, ProcessInv, LoopInv, VerdictJustified,
                  CompleteUnlessEarly, OutEvent, TakeEvent, Spawn, Unread,
                  Closing, Eof, Alive, Events
    <2>2. ConnectionInv'
      <3>1. interest[c] = "OUT" /\ stage[c] # "closed" /\ at = "events"
        BY DEF OutEvent, TakeEvent, IInv, LoopInv
      <3>2. resp[c] = "none" => handler[c] = "none"
        BY <3>1 DEF IInv, TypeOK, ConnectionInv, Closing
      <3>3. /\ at' = "send" /\ cur' = c
            /\ UNCHANGED <<sock, stage, interest, shut, handler, child, verdict>>
            /\ resp' = resp \/ (resp[c] = "none" /\ resp' = [resp EXCEPT ![c] = "refused"])
        BY <1>1 DEF OutEvent, TakeEvent
      <3>4. \A d \in Clients : sock[d] = "request" => d # c
        BY <3>1 DEF IInv, ConnectionInv
      <3> QED
        BY <3>1, <3>2, <3>3, <3>4 DEF IInv, TypeOK, ConnectionInv, Closing, Answers
    <2>3. ThreadInv'
      BY <1>1 DEF IInv, TypeOK, ThreadInv, ConnectionInv, LoopInv, OutEvent,
                  TakeEvent, Spawn, Eof, Alive, Answers, Closing, Events
    <2> QED
      BY <2>1, <2>2, <2>3 DEF IInv
  <1>2. ASSUME NEW s \in Scripts, resp[c] = "none", Spawn(c, s), UNCHANGED resp,
                 handler' = [handler EXCEPT ![c] = "deaf"]
          PROVE  IInv'
    <2>1. ProcessInv' /\ LoopInv' /\ VerdictJustified' /\ CompleteUnlessEarly'
      BY <1>2 DEF IInv, TypeOK, ProcessInv, LoopInv, VerdictJustified,
                  CompleteUnlessEarly, OutEvent, TakeEvent, Spawn, Closing, Eof,
                  Alive, Events
    <2>2. PipeInv'
      BY <1>2, BoundsAssumption, OutcomesAssumption, ScriptsAssumption
         DEF IInv, TypeOK, PipeInv, OutEvent, TakeEvent, Spawn, Unread,
             ScriptType
    <2>3. ConnectionInv'
      <3>1. interest[c] = "OUT" /\ stage[c] = "busy" /\ at = "events"
        BY <1>2 DEF OutEvent, TakeEvent, IInv, LoopInv, ConnectionInv, TypeOK
      <3>2. /\ at' = "send" /\ cur' = c /\ UNCHANGED connVars
            /\ handler' = [handler EXCEPT ![c] = "deaf"]
            /\ child' = [child EXCEPT ![c] = "running"]
        BY <1>2 DEF OutEvent, Spawn
      <3> QED
        BY <1>2, <3>1, <3>2 DEF IInv, TypeOK, ConnectionInv, Closing, Answers
    <2>4. ThreadInv'
      BY <1>2 DEF IInv, TypeOK, ThreadInv, ConnectionInv, LoopInv, OutEvent,
                  TakeEvent, Spawn, Eof, Alive, Answers, Closing, Events
    <2> QED
      BY <2>1, <2>2, <2>3, <2>4 DEF IInv
  <1> QED
    BY <1>1, <1>2 DEF OutEvent, TakeEvent, Spawn

-----------------------------------------------------------------------------
(* The invariant holds before the first connection. *)
LEMMA InitIInv == Init => IInv
  <1> SUFFICES ASSUME Init PROVE IInv
    OBVIOUS
  <1>1. TypeOK
    BY InitTypeOK
  <1> QED
    BY <1>1, BoundsAssumption
       DEF Init, IInv, PipeInv, ProcessInv, ConnectionInv, LoopInv, ThreadInv,
           VerdictJustified, CompleteUnlessEarly, Unread, Answers

(* Every step keeps the invariant: one lemma for each action. *)
LEMMA NextIInv == IInv /\ [Next]_vars => IInv'
  <1> SUFFICES ASSUME IInv, [Next]_vars PROVE IInv'
    OBVIOUS
  <1>0. TypeOK'
    BY NextTypeOK DEF IInv
  <1>1. CASE UNCHANGED vars
    BY <1>1 DEF vars, IInv, TypeOK, PipeInv, ProcessInv, ConnectionInv, LoopInv,
                ThreadInv, VerdictJustified, CompleteUnlessEarly, Unread, Eof,
                Alive, Closing, Events
  <1>2. ASSUME NEW c \in Clients, Environment(c) PROVE IInv'
    BY <1>0, <1>2, StepClientSends, StepChildWrites, StepChildClosesOutput,
       StepChildExits, StepChildKilled, StepTimePasses
       DEF Environment, Script
  <1>3. CASE Server
    BY <1>0, <1>3, StepEpollWait, StepScanDone, StepSweepDone, StepEventsDone,
       StepCloseCgi, StepReapCgi, StepFirstWait, StepReadMore, StepSecondWait,
       StepSend, StepScanOne, StepSweepFailed, StepSweepOverdue, StepCgiEvent,
       StepClientLeaves, StepClientOverflows, StepStartRequest, StepOutEvent
       DEF Server
  <1> QED
    BY <1>1, <1>2, <1>3 DEF Next

(* The invariant that the safety properties below are read off from: every  *)
(* fact the event loop has noted down is still true when it is acted on.    *)
THEOREM Invariance == Spec => []IInv
  BY InitIInv, NextIInv, PTL DEF Spec

(* Whatever a script does and whenever it ends between two looks of the     *)
(* server, the status its client is given is one it earned.                 *)
THEOREM VerdictsAreJustified == Spec => []VerdictJustified
  <1>1. IInv => VerdictJustified
    BY DEF IInv
  <1> QED
    BY <1>1, Invariance, PTL

(* No interleaving of a script's writes with the server's reads and waits   *)
(* loses output of a 200, unless the HTML heuristic cut it off: the two     *)
(* drains suffice as long as a full pipe needs no more reads than they make. *)
THEOREM OutputIsComplete == Spec => []CompleteUnlessEarly
  <1>1. IInv => CompleteUnlessEarly
    BY DEF IInv
  <1> QED
    BY <1>1, Invariance, PTL

(* The server never blocks in epoll_wait on a request nothing would bring   *)
(* it back to.                                                              *)
THEOREM NoRequestIsForgotten == Spec => []NoRequestForgotten
  <1>1. IInv => NoRequestForgotten
    BY DEF IInv, ConnectionInv, NoRequestForgotten
  <1> QED
    BY <1>1, Invariance, PTL

(* Once a CGI answer is chosen, no other step of the loop replaces it.      *)
THEOREM AnswersAreKept == Spec => AnswerKept
  <1> DEFINE Kept == \A c \in Clients :
        resp[c] \in Answers \ {"413"} => resp'[c] \in {resp[c], "none", "413"}
  <1>1. IInv /\ [Next]_vars => [Kept]_vars
    <2> SUFFICES ASSUME IInv, Next, NEW c \in Clients, resp[c] \in Answers \ {"413"}
                 PROVE  resp'[c] \in {resp[c], "none", "413"}
      BY DEF vars
    <2>1. handler[c] = "none"
      BY DEF IInv, ConnectionInv
    <2>2. CASE UNCHANGED resp
      BY <2>2
    <2>3. CASE ReapCgi
      BY <2>1, <2>3 DEF ReapCgi, IInv, TypeOK, ThreadInv
    <2>4. CASE Send
      BY <2>4 DEF Send, IInv, TypeOK
    <2>5. ASSUME NEW d \in Clients,
                 ClientLeaves(d) \/ ClientOverflows(d) \/ OutEvent(d)
          PROVE  resp'[c] \in {resp[c], "none", "413"}
      BY <2>5 DEF ClientLeaves, ClientOverflows, OutEvent, IInv, TypeOK, Answers
    <2>6. ASSUME NEW d \in Clients, Environment(d) PROVE UNCHANGED resp
      BY <2>6 DEF Environment, Script, ClientSends, ChildWrites, ChildClosesOutput,
                  ChildExits, ChildKilled, TimePasses
    <2>7. ASSUME NEW d \in Clients,
                 \/ ScanOne(d) \/ SweepFailed(d) \/ SweepOverdue(d)
                 \/ CgiEvent(d) \/ StartRequest(d)
          PROVE  UNCHANGED resp
      BY <2>7 DEF ScanOne, SweepFailed, SweepOverdue, CgiEvent, StartRequest
    <2>8. CASE \/ EpollWait \/ ScanDone \/ SweepDone \/ EventsDone \/ CloseCgi
               \/ FirstWait \/ ReadMore \/ SecondWait
      BY <2>2, <2>8 DEF EpollWait, ScanDone, SweepDone, EventsDone, CloseCgi,
                        FirstWait, ReadMore, SecondWait
    <2> QED
      BY <2>2, <2>3, <2>4, <2>5, <2>6, <2>7, <2>8 DEF Next, Server
  <1> QED
    BY <1>1, Invariance, PTL DEF Spec, AnswerKept
-----------------------------------------------------------------------------
(* The abstract service of CgiService, and its implementation. *)

USE DEF connVars, cgiVars, procVars, loopVars, threadVars

(* A CClient without CGI object has no process, and what is sent is a       *)
(* response, after which a CGI object that is still there is closed.        *)
OwnerInv ==
    /\ \A c \in Clients : handler[c] = "none" => child[c] \in {"none", "reaped"}
    /\ at = "send" => resp[cur] # "none" /\ (handler[cur] # "none" => shut[cur])

-----------------------------------------------------------------------------
(* OwnerInv at the start: there are no processes. *)
LEMMA InitOwner == Init => OwnerInv
  BY DEF Init, OwnerInv

(* No step leaves a process without the CGI object that stands for it.      *)
LEMMA NextOwner ==
  ASSUME "starts" \notin RetryResults, IInv, OwnerInv, [Next]_vars
  PROVE  OwnerInv'
  <1>1. CASE UNCHANGED vars
    BY <1>1 DEF vars, OwnerInv
  <1>2. ASSUME NEW c \in Clients, Environment(c) PROVE OwnerInv'
    BY <1>2 DEF Environment, Script, ClientSends, ChildWrites, ChildClosesOutput,
                ChildExits, ChildKilled, TimePasses, OwnerInv, IInv, TypeOK, Alive
  <1>3. CASE EpollWait \/ ScanDone \/ SweepDone \/ EventsDone \/ CloseCgi
    BY <1>3 DEF EpollWait, ScanDone, SweepDone, EventsDone, CloseCgi, OwnerInv,
                IInv, TypeOK, ThreadInv
  <1>4. CASE ReapCgi
    BY <1>4 DEF ReapCgi, OwnerInv, IInv, TypeOK
  <1>5. CASE FirstWait
    BY <1>5 DEF FirstWait, BeginClose, OwnerInv, IInv, TypeOK
  <1>6. CASE ReadMore
    BY <1>6 DEF ReadMore, ReadOutput, OwnerInv, IInv, TypeOK, ThreadInv
  <1>7. CASE SecondWait
    BY <1>7 DEF SecondWait, BeginClose, OwnerInv, IInv, TypeOK
  <1>8. CASE Send
    BY <1>8 DEF Send, BeginClose, OwnerInv, IInv, TypeOK
  <1>9. ASSUME NEW c \in Clients, ScanOne(c) \/ SweepFailed(c) \/ SweepOverdue(c)
        PROVE  OwnerInv'
    BY <1>9 DEF ScanOne, SweepFailed, SweepOverdue, BeginClose, OwnerInv, IInv, TypeOK
  <1>10. ASSUME NEW c \in Clients, CgiEvent(c) PROVE OwnerInv'
    BY <1>10 DEF CgiEvent, ReadOutput, OwnerInv, IInv, TypeOK
  <1>11. ASSUME NEW c \in Clients, ClientLeaves(c) \/ ClientOverflows(c) PROVE OwnerInv'
    BY <1>11 DEF ClientLeaves, ClientOverflows, TakeEvent, BeginClose, OwnerInv,
                 IInv, TypeOK
  <1>12. ASSUME NEW c \in Clients, StartRequest(c) PROVE OwnerInv'
    BY <1>12, OutcomesAssumption
       DEF StartRequest, TakeEvent, Spawn, OwnerInv, IInv, TypeOK
  <1>13. ASSUME NEW c \in Clients, OutEvent(c) PROVE OwnerInv'
    <2>1. /\ at' = "send" /\ cur' = c /\ cur' \in Clients
          /\ resp'[c] # "none"
          /\ \A d \in Clients : resp[d] # "none" => resp'[d] = resp[d]
          /\ UNCHANGED <<handler, child, shut>>
      BY <1>13 DEF OutEvent, TakeEvent, IInv, TypeOK
    <2>2. handler[c] # "none" => shut[c]
      BY <1>13 DEF OutEvent, TakeEvent, IInv, TypeOK, ConnectionInv, LoopInv, Closing
    <2> QED
      BY <2>1, <2>2 DEF OwnerInv
  <1> QED
    BY <1>1, <1>2, <1>3, <1>4, <1>5, <1>6, <1>7, <1>8, <1>9, <1>10, <1>11, <1>12,
       <1>13 DEF Next, Server

(* OwnerInv together with the invariant of CgiGatewayProofs.                *)
THEOREM Ownership ==
  ASSUME "starts" \notin RetryResults
  PROVE  Spec => [](IInv /\ OwnerInv)
  <1>1. IInv /\ OwnerInv /\ [Next]_vars => OwnerInv'
    BY NextOwner
  <1> QED
    BY <1>1, InitOwner, Invariance, PTL DEF Spec

(* Whichever way a request ends, its script is dead and reaped before the   *)
(* connection waits for another request or is gone.                         *)
THEOREM NoProcessIsLeft ==
  ASSUME "starts" \notin RetryResults
  PROVE  Spec => []NoProcessLeft
  <1>1. IInv /\ OwnerInv => NoProcessLeft
    BY DEF IInv, ConnectionInv, OwnerInv, NoProcessLeft
  <1> QED
    BY <1>1, Ownership, PTL
-----------------------------------------------------------------------------
(* The abstract state of one connection, as in the INSTANCE of CgiService,  *)
(* and the moves CgiService allows it.                                      *)
StateOf(c) ==
    IF stage[c] = "closed" THEN "closed"
    ELSE IF resp[c] # "none" THEN "answered"
    ELSE IF stage[c] = "busy" THEN "pending" ELSE "idle"

ProcessOf(c) == IF child[c] \in {"none", "reaped"} THEN "none" ELSE "exists"

Move(c) ==
    \/ StateOf(c)' = StateOf(c) /\ ProcessOf(c)' \in {ProcessOf(c), "none"}
    \/ StateOf(c) = "idle" /\ StateOf(c)' = "pending"
    \/ StateOf(c) = "idle" /\ StateOf(c)' = "answered" /\ ProcessOf(c)' = ProcessOf(c)
    \/ /\ StateOf(c) = "pending" /\ StateOf(c)' = "answered"
       /\ ProcessOf(c)' \in {ProcessOf(c), "none"}
    \/ /\ StateOf(c) = "answered" /\ ProcessOf(c) = "none"
       /\ StateOf(c)' = "idle" /\ ProcessOf(c)' = "none"
    \/ StateOf(c) # "closed" /\ StateOf(c)' = "closed" /\ ProcessOf(c)' = "none"

OthersStay(c) ==
    \A d \in Clients \ {c} : StateOf(d)' = StateOf(d) /\ ProcessOf(d)' = ProcessOf(d)

(* A step that moves one connection the way CgiService allows, and no       *)
(* other, is a step of CgiService or leaves its variables alone.            *)
LEMMA MoveIsStep ==
  ASSUME NEW c \in Clients, Move(c), OthersStay(c)
  PROVE  [Service!Next]_(Service!vars)
  <1> DEFINE st == [d \in Clients |-> StateOf(d)]
             pr == [d \in Clients |-> ProcessOf(d)]
  <1>1. /\ st' = [st EXCEPT ![c] = StateOf(c)']
        /\ pr' = [pr EXCEPT ![c] = ProcessOf(c)']
    BY DEF OthersStay
  <1>2. st[c] = StateOf(c) /\ pr[c] = ProcessOf(c)
    OBVIOUS
  <1>3. ProcessOf(c) \in {"none", "exists"} /\ ProcessOf(c)' \in {"none", "exists"}
    BY DEF ProcessOf
  <1>4. st = [d \in Clients |->
                 IF stage[d] = "closed" THEN "closed"
                 ELSE IF resp[d] # "none" THEN "answered"
                 ELSE IF stage[d] = "busy" THEN "pending" ELSE "idle"]
    BY DEF StateOf
  <1>5. pr = [d \in Clients |-> IF child[d] \in {"none", "reaped"} THEN "none" ELSE "exists"]
    BY DEF ProcessOf
  <1>6. st' = [d \in Clients |->
                 IF stage'[d] = "closed" THEN "closed"
                 ELSE IF resp'[d] # "none" THEN "answered"
                 ELSE IF stage'[d] = "busy" THEN "pending" ELSE "idle"]
    BY DEF StateOf
  <1>7. pr' = [d \in Clients |-> IF child'[d] \in {"none", "reaped"} THEN "none" ELSE "exists"]
    BY DEF ProcessOf
  <1> HIDE DEF st, pr
  <1>8. CASE StateOf(c)' = StateOf(c) /\ ProcessOf(c)' = ProcessOf(c)
    <2>1. st' = st /\ pr' = pr
      BY <1>1, <1>2, <1>4, <1>5, <1>8
    <2> QED
      BY <2>1, <1>4, <1>5, <1>6, <1>7 DEF Service!vars
  <1>9. CASE StateOf(c)' = StateOf(c) /\ ProcessOf(c) = "exists" /\ ProcessOf(c)' = "none"
    <2>1. st' = st
      BY <1>1, <1>2, <1>4, <1>9
    <2> QED
      BY <2>1, <1>1, <1>2, <1>4, <1>5, <1>6, <1>7, <1>9 DEF Service!Next, Service!Reap
  <1>10. CASE StateOf(c) = "idle" /\ StateOf(c)' = "pending"
    BY <1>1, <1>2, <1>3, <1>4, <1>5, <1>6, <1>7, <1>10 DEF Service!Next, Service!Ask
  <1>11. CASE StateOf(c) = "idle" /\ StateOf(c)' = "answered" /\ ProcessOf(c)' = ProcessOf(c)
    <2>1. pr' = pr
      BY <1>1, <1>2, <1>5, <1>11
    <2> QED
      BY <2>1, <1>1, <1>2, <1>4, <1>5, <1>6, <1>7, <1>11 DEF Service!Next, Service!Reject
  <1>12. CASE /\ StateOf(c) = "pending" /\ StateOf(c)' = "answered"
              /\ ProcessOf(c)' \in {ProcessOf(c), "none"}
    <2>1. \E p \in {pr[c], "none"} : pr' = [pr EXCEPT ![c] = p]
      BY <1>1, <1>2, <1>12
    <2>2. st[c] = "pending" /\ st' = [st EXCEPT ![c] = "answered"]
      BY <1>1, <1>2, <1>12
    <2>3. Service!Answer(c)
      BY <2>1, <2>2, <1>4, <1>5, <1>6, <1>7 DEF Service!Answer
    <2> QED
      BY <2>3 DEF Service!Next
  <1>13. CASE /\ StateOf(c) = "answered" /\ ProcessOf(c) = "none"
              /\ StateOf(c)' = "idle" /\ ProcessOf(c)' = "none"
    <2>1. pr' = pr
      BY <1>1, <1>2, <1>5, <1>13
    <2> QED
      BY <2>1, <1>1, <1>2, <1>4, <1>5, <1>6, <1>7, <1>13 DEF Service!Next, Service!Finish
  <1>14. CASE StateOf(c) # "closed" /\ StateOf(c)' = "closed" /\ ProcessOf(c)' = "none"
    BY <1>1, <1>2, <1>4, <1>5, <1>6, <1>7, <1>14 DEF Service!Next, Service!Close
  <1> QED
    BY <1>3, <1>8, <1>9, <1>10, <1>11, <1>12, <1>13, <1>14 DEF Move

(* Steps that change neither the stage nor the response of a connection,    *)
(* and move its process, if at all, between states of one abstract state.   *)
LEMMA QuietIsStep ==
  ASSUME UNCHANGED <<stage, resp>>, \A c \in Clients : ProcessOf(c)' = ProcessOf(c)
  PROVE  [Service!Next]_(Service!vars)
  <1>1. \A c \in Clients : StateOf(c)' = StateOf(c)
    BY DEF StateOf
  <1>2. CASE Clients = {}
    BY <1>2 DEF Service!vars
  <1>3. ASSUME NEW c \in Clients PROVE [Service!Next]_(Service!vars)
    BY <1>1, MoveIsStep DEF Move, OthersStay
  <1> QED
    BY <1>2, <1>3

(* Every step of the gateway is a step of CgiService or a stutter.          *)
LEMMA NextService ==
  ASSUME "starts" \notin RetryResults, IInv, IInv', OwnerInv, [Next]_vars
  PROVE  [Service!Next]_(Service!vars)
  <1>1. CASE UNCHANGED vars
    BY <1>1, QuietIsStep DEF vars, ProcessOf
  <1>2. ASSUME NEW c \in Clients, Environment(c) PROVE [Service!Next]_(Service!vars)
    <2>1. UNCHANGED <<stage, resp>> /\ \A d \in Clients : ProcessOf(d)' = ProcessOf(d)
      BY <1>2 DEF Environment, Script, ClientSends, ChildWrites, ChildClosesOutput,
                  ChildExits, ChildKilled, TimePasses, ProcessOf, Alive, IInv, TypeOK
    <2> QED
      BY <2>1, QuietIsStep
  <1>3. CASE EpollWait \/ ScanDone \/ SweepDone \/ EventsDone \/ CloseCgi \/ ReadMore
    <2>1. UNCHANGED <<stage, resp>> /\ \A d \in Clients : ProcessOf(d)' = ProcessOf(d)
      BY <1>3 DEF EpollWait, ScanDone, SweepDone, EventsDone, CloseCgi, ReadMore,
                  ProcessOf, IInv, TypeOK
    <2> QED
      BY <2>1, QuietIsStep
  <1>4. ASSUME NEW c \in Clients, SweepFailed(c) \/ SweepOverdue(c) \/ CgiEvent(c)
        PROVE  [Service!Next]_(Service!vars)
    <2>1. UNCHANGED <<stage, resp, child>>
      BY <1>4 DEF SweepFailed, SweepOverdue, CgiEvent
    <2> QED
      BY <2>1, QuietIsStep DEF ProcessOf
  <1>5. ASSUME NEW c \in Clients, ScanOne(c) PROVE [Service!Next]_(Service!vars)
    <2>1. UNCHANGED <<stage, resp>> /\ child' \in {child, [child EXCEPT ![c] = "reaped"]}
      BY <1>5 DEF ScanOne
    <2>2. Move(c) /\ OthersStay(c)
      BY <2>1 DEF Move, OthersStay, StateOf, ProcessOf, IInv, TypeOK
    <2> QED
      BY <2>2, MoveIsStep
  <1>6. CASE FirstWait \/ SecondWait
    <2>1. PICK c \in Clients : c = cur
      BY DEF IInv, TypeOK
    <2>2. UNCHANGED <<stage, resp>> /\ child' \in {child, [child EXCEPT ![c] = "reaped"]}
      BY <1>6, <2>1 DEF FirstWait, SecondWait
    <2>3. Move(c) /\ OthersStay(c)
      BY <2>2 DEF Move, OthersStay, StateOf, ProcessOf, IInv, TypeOK
    <2> QED
      BY <2>3, MoveIsStep
  <1>7. CASE ReapCgi
    <2>1. PICK c \in Clients : c = cur
      BY DEF IInv, TypeOK
    <2>2. stage[c] = "busy"
      BY <1>7, <2>1 DEF ReapCgi, IInv, TypeOK, ThreadInv, ConnectionInv
    <2>3. /\ child' = [child EXCEPT ![c] = "reaped"]
          /\ \/ stage' = [stage EXCEPT ![c] = "closed"] /\ resp' = [resp EXCEPT ![c] = "none"]
             \/ \E r \in Answers : UNCHANGED stage /\ resp' = [resp EXCEPT ![c] = r]
      BY <1>7, <2>1 DEF ReapCgi, Format, Answers, Verdicts, IInv, TypeOK
    <2>4. OthersStay(c)
      BY <2>3 DEF OthersStay, StateOf, ProcessOf, IInv, TypeOK
    <2>5. Move(c)
      BY <2>2, <2>3 DEF Move, StateOf, ProcessOf, IInv, TypeOK, Answers
    <2> QED
      BY <2>4, <2>5, MoveIsStep
  <1>8. CASE Send
    <2>1. PICK c \in Clients : c = cur
      BY DEF IInv, TypeOK
    <2>2. stage[c] # "closed" /\ resp[c] # "none"
      BY <1>8, <2>1 DEF Send, IInv, ThreadInv, OwnerInv
    <2>3. /\ UNCHANGED child
          /\ \/ /\ ~shut[c]
                /\ stage' = [stage EXCEPT ![c] = "idle"] /\ resp' = [resp EXCEPT ![c] = "none"]
             \/ /\ handler[c] = "none"
                /\ stage' = [stage EXCEPT ![c] = "closed"] /\ resp' = [resp EXCEPT ![c] = "none"]
             \/ UNCHANGED <<stage, resp>>
      BY <1>8, <2>1 DEF Send
    <2>4. ~shut[c] => handler[c] = "none"
      BY <1>8, <2>1 DEF Send, OwnerInv
    <2>5. handler[c] = "none" => child[c] \in {"none", "reaped"}
      BY DEF OwnerInv
    <2>6. OthersStay(c)
      BY <2>3 DEF OthersStay, StateOf, ProcessOf, IInv, TypeOK
    <2>7. Move(c)
      BY <2>2, <2>3, <2>4, <2>5 DEF Move, StateOf, ProcessOf, IInv, TypeOK
    <2> QED
      BY <2>6, <2>7, MoveIsStep
  <1>9. ASSUME NEW c \in Clients, ClientLeaves(c) PROVE [Service!Next]_(Service!vars)
    <2>1. stage[c] # "closed"
      BY <1>9 DEF ClientLeaves, TakeEvent, IInv, LoopInv
    <2>2. /\ UNCHANGED child
          /\ \/ /\ handler[c] = "none"
                /\ stage' = [stage EXCEPT ![c] = "closed"] /\ resp' = [resp EXCEPT ![c] = "none"]
             \/ UNCHANGED <<stage, resp>>
      BY <1>9 DEF ClientLeaves
    <2>3. Move(c) /\ OthersStay(c)
      BY <2>1, <2>2 DEF Move, OthersStay, StateOf, ProcessOf, OwnerInv, IInv, TypeOK
    <2> QED
      BY <2>3, MoveIsStep
  <1>10. ASSUME NEW c \in Clients, ClientOverflows(c) PROVE [Service!Next]_(Service!vars)
    <2>1. stage[c] # "closed"
      BY <1>10 DEF ClientOverflows, TakeEvent, IInv, LoopInv
    <2>2. UNCHANGED <<stage, child>> /\ resp' = [resp EXCEPT ![c] = "413"]
      BY <1>10 DEF ClientOverflows
    <2>3. Move(c) /\ OthersStay(c)
      BY <2>1, <2>2 DEF Move, OthersStay, StateOf, ProcessOf, IInv, TypeOK
    <2> QED
      BY <2>3, MoveIsStep
  <1>11. ASSUME NEW c \in Clients, StartRequest(c) PROVE [Service!Next]_(Service!vars)
    <2>1. stage[c] = "idle" /\ resp[c] = "none"
      BY <1>11 DEF StartRequest, IInv, ConnectionInv
    <2>2. /\ UNCHANGED resp /\ stage' = [stage EXCEPT ![c] = "busy"]
          /\ child' \in {child, [child EXCEPT ![c] = "running"]}
      BY <1>11 DEF StartRequest, Spawn
    <2>3. Move(c) /\ OthersStay(c)
      BY <2>1, <2>2 DEF Move, OthersStay, StateOf, ProcessOf, IInv, TypeOK
    <2> QED
      BY <2>3, MoveIsStep
  <1>12. ASSUME NEW c \in Clients, OutEvent(c) PROVE [Service!Next]_(Service!vars)
    <2>1. stage[c] # "closed" /\ (resp[c] = "none" => stage[c] = "busy")
      BY <1>12 DEF OutEvent, TakeEvent, IInv, TypeOK, LoopInv, ConnectionInv
    <2>2. /\ UNCHANGED <<stage, child>>
          /\ \/ UNCHANGED resp
             \/ resp[c] = "none" /\ resp' = [resp EXCEPT ![c] = "refused"]
      BY <1>12 DEF OutEvent
    <2>3. Move(c) /\ OthersStay(c)
      BY <2>1, <2>2 DEF Move, OthersStay, StateOf, ProcessOf, IInv, TypeOK
    <2> QED
      BY <2>3, MoveIsStep
  <1> QED
    BY <1>1, <1>2, <1>3, <1>4, <1>5, <1>6, <1>7, <1>8, <1>9, <1>10, <1>11, <1>12
       DEF Next, Server

(* One answer for each request, and no process beyond its request: what     *)
(* the gateway does is what CgiService says, however scripts, clients and   *)
(* the three calls of waitpid interleave.                                   *)
THEOREM GatewayIsService ==
  ASSUME "starts" \notin RetryResults
  PROVE  Spec => Service!Spec
  <1>1. Init => Service!Init
    BY DEF Init, Service!Init
  <1>2. IInv /\ IInv' /\ OwnerInv /\ [Next]_vars => [Service!Next]_(Service!vars)
    BY NextService
  <1> QED
    BY <1>1, <1>2, Ownership, PTL DEF Spec, Service!Spec
=============================================================================
