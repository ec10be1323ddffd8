----------------------------- MODULE CgiService -----------------------------
(***************************************************************************)
(* What SpySocket promises of CGI requests, free of how it watches the     *)
(* scripts: a connection carries one request at a time, each request gets  *)
(* at most one answer, the script it started is a process that lasts no    *)
(* longer than the request, and no request is pending for ever.            *)
(***************************************************************************)
CONSTANT Clients
VARIABLES state,    \* of the connection
          process   \* of its request: "none", or an entry of the process table

vars == <<state, process>>

TypeOK ==
    /\ state \in [Clients -> {"idle", "pending", "answered", "closed"}]
    /\ process \in [Clients -> {"none", "exists"}]

Init ==
    /\ state = [c \in Clients |-> "idle"]
    /\ process = [c \in Clients |-> "none"]

(* A request comes in, and its script starts unless that is refused. *)
Ask(c) ==
    /\ state[c] = "idle"
    /\ state' = [state EXCEPT ![c] = "pending"]
    /\ \E p \in {"none", "exists"} : process' = [process EXCEPT ![c] = p]

(* Something that is not a request comes in and is rejected. *)
Reject(c) ==
    /\ state[c] = "idle"
    /\ state' = [state EXCEPT ![c] = "answered"]
    /\ UNCHANGED process

Answer(c) ==
    /\ state[c] = "pending"
    /\ state' = [state EXCEPT ![c] = "answered"]
    /\ \E p \in {process[c], "none"} : process' = [process EXCEPT ![c] = p]

(* The process of a request is reaped. *)
Reap(c) ==
    /\ process[c] = "exists"
    /\ process' = [process EXCEPT ![c] = "none"]
    /\ UNCHANGED state

(* The answer is sent, and the connection is open for another request. *)
Finish(c) ==
    /\ state[c] = "answered" /\ process[c] = "none"
    /\ state' = [state EXCEPT ![c] = "idle"]
    /\ UNCHANGED process

Close(c) ==
    /\ state[c] # "closed"
    /\ state' = [state EXCEPT ![c] = "closed"]
    /\ process' = [process EXCEPT ![c] = "none"]

Next ==
    \E c \in Clients :
        Ask(c) \/ Reject(c) \/ Answer(c) \/ Reap(c) \/ Finish(c) \/ Close(c)

Spec == Init /\ [][Next]_vars

FairSpec ==
    /\ Spec
    /\ \A c \in Clients :
          /\ WF_vars(Answer(c) \/ (Close(c) /\ state[c] = "pending"))
          /\ WF_vars(Finish(c) \/ (Close(c) /\ state[c] = "answered"))
=============================================================================
