------------------------------ MODULE Shutdown ------------------------------
(***************************************************************************)
(* From main to the end of main: the SIGINT handler, the flag it clears,   *)
(* the event loop that looks at the flag, and what is given back to the    *)
(* system on the way out, in the order destructors run.  A signal may come *)
(* between any two steps.                                                  *)
(***************************************************************************)
EXTENDS Integers, FiniteSets

CONSTANTS
    Clients,    \* connections
    Listeners,  \* server sockets of the configuration
    Stubborn    \* scripts may ignore SIGTERM

ASSUME ShutdownAssumption == Stubborn \in BOOLEAN /\ IsFiniteSet(Clients)

VARIABLES
    at,         \* where main is
    is_running,
    asked,      \* SIGINT was handled: "no", "early" (before the loop), "late"
    serversFd,  \* open server sockets
    epollFd,    \* the epoll instance is open
    socks,      \* open client sockets
    parsers,    \* entries of clientParsers
    scripts     \* of each client: "none", "running", "stubborn", "ended"

vars == <<at, is_running, asked, serversFd, epollFd, socks, parsers, scripts>>

TypeOK ==
    /\ at \in {"start", "sockets", "epoll", "flag", "test", "wait", "events",
               "parsers", "maps", "instance", "exited"}
    /\ is_running \in BOOLEAN /\ epollFd \in BOOLEAN
    /\ asked \in {"no", "early", "late"}
    /\ serversFd \subseteq Listeners
    /\ socks \subseteq Clients /\ parsers \subseteq Clients
    /\ scripts \in [Clients -> {"none", "running", "stubborn", "ended"}]

Init ==
    /\ at = "start" /\ is_running = FALSE /\ asked = "no"
    /\ serversFd = {} /\ epollFd = FALSE /\ socks = {} /\ parsers = {}
    /\ scripts = [c \in Clients |-> "none"]

-----------------------------------------------------------------------------
(* A mistake: epoll_wait goes on after a signal, and has no timeout. *)
InterruptMissed ==
    /\ at \notin {"start", "exited"} /\ asked = "no"
    /\ is_running' = (at = "wait")
    /\ asked' = IF at \in {"sockets", "epoll", "flag"} THEN "early" ELSE "late"
    /\ UNCHANGED <<at, serversFd, epollFd, socks, parsers, scripts>>

(* SIGINT, once handle_signal has installed handle_sigint. *)
Interrupt ==
    /\ at \notin {"start", "exited"} /\ asked = "no"
    /\ is_running' = FALSE
    /\ asked' = IF at \in {"sockets", "epoll", "flag"} THEN "early" ELSE "late"
    /\ at' = IF at = "wait" THEN "test" ELSE at     \* EINTR
    /\ UNCHANGED <<serversFd, epollFd, socks, parsers, scripts>>

ScriptEnds(c) ==
    /\ scripts[c] = "running"
    /\ scripts' = [scripts EXCEPT ![c] = "ended"]
    /\ UNCHANGED <<at, is_running, asked, serversFd, epollFd, socks, parsers>>

-----------------------------------------------------------------------------
(* Going up. *)

InstallHandler ==
    /\ at = "start" /\ at' = "sockets"
    /\ UNCHANGED <<is_running, asked, serversFd, epollFd, socks, parsers, scripts>>

(* getServersFds: each socket that can be opened, bound and listened to. *)
GetServersFds ==
    /\ at = "sockets" /\ at' = "epoll"
    /\ serversFd' \in SUBSET Listeners
    /\ UNCHANGED <<is_running, asked, epollFd, socks, parsers, scripts>>

(* epoll_create1 and the registrations.  When it fails, an exception takes  *)
(* main straight to destroyInstance.                                        *)
CreateEpoll ==
    /\ at = "epoll"
    /\ \/ at' = "flag" /\ epollFd' = TRUE
       \/ at' = "instance" /\ UNCHANGED epollFd
    /\ UNCHANGED <<is_running, asked, serversFd, socks, parsers, scripts>>

SetRunning ==
    /\ at = "flag" /\ at' = "test"
    /\ is_running' = TRUE
    /\ UNCHANGED <<asked, serversFd, epollFd, socks, parsers, scripts>>

-----------------------------------------------------------------------------
(* The loop. *)

TestFlag ==
    /\ at = "test"
    /\ at' = IF is_running THEN "wait" ELSE "parsers"
    /\ UNCHANGED <<is_running, asked, serversFd, epollFd, socks, parsers, scripts>>

(* epoll_wait returns after EPOLL_TIMEOUT at the latest, or fails. *)
WaitReturns ==
    /\ at = "wait"
    /\ at' \in {"events", "parsers"}
    /\ UNCHANGED <<is_running, asked, serversFd, epollFd, socks, parsers, scripts>>

(* What a turn may do to the resources: nothing, take a client, start a     *)
(* script of its, or drop it with its script, which is waited for.          *)
HandleEvents ==
    /\ at = "events" /\ at' = "test"
    /\ \/ UNCHANGED <<socks, parsers, scripts>>
       \/ \E c \in Clients \ socks :
             socks' = socks \cup {c} /\ parsers' = parsers \cup {c} /\ UNCHANGED scripts
       \/ \E c \in socks, s \in {"running"} \cup (IF Stubborn THEN {"stubborn"} ELSE {}) :
             /\ scripts[c] = "none"
             /\ scripts' = [scripts EXCEPT ![c] = s] /\ UNCHANGED <<socks, parsers>>
       \/ \E c \in socks :
             /\ scripts[c] # "stubborn"
             /\ socks' = socks \ {c} /\ parsers' = parsers \ {c}
             /\ scripts' = [scripts EXCEPT ![c] = "none"]
    /\ UNCHANGED <<is_running, asked, serversFd, epollFd>>

-----------------------------------------------------------------------------
(* Going down. *)

(* The parsers are deleted and the epoll instance closed. *)
DeleteParsers ==
    /\ at = "parsers" /\ at' = "maps"
    /\ parsers' = {} /\ epollFd' = FALSE
    /\ UNCHANGED <<is_running, asked, serversFd, socks, scripts>>

(* A mistake: CClient has no destructor. *)
ForgetScripts ==
    /\ at = "maps" /\ at' = "instance"
    /\ UNCHANGED <<is_running, asked, serversFd, epollFd, socks, parsers, scripts>>

(* A mistake: only the clients that are still connected are looked at. *)
DestroyConnected ==
    /\ at = "maps"
    /\ at' = "instance"
    /\ scripts' = [c \in socks |-> "none"]
    /\ UNCHANGED <<is_running, asked, serversFd, epollFd, socks, parsers>>

(* client_data_map goes out of scope: close_cgi for each script there is,   *)
(* SIGTERM and waitpid.  The sockets are ints to the map of clients.        *)
DestroyMaps ==
    /\ at = "maps"
    /\ \A c \in Clients : scripts[c] # "stubborn"
    /\ at' = "instance"
    /\ scripts' = [c \in Clients |-> "none"]
    /\ UNCHANGED <<is_running, asked, serversFd, epollFd, socks, parsers>>

DestroyInstance ==
    /\ at = "instance" /\ at' = "exited"
    /\ serversFd' = {}
    /\ UNCHANGED <<is_running, asked, epollFd, socks, parsers, scripts>>

Main ==
    \/ InstallHandler \/ GetServersFds \/ CreateEpoll \/ SetRunning
    \/ TestFlag \/ WaitReturns \/ HandleEvents
    \/ DeleteParsers \/ DestroyMaps \/ DestroyInstance

Next == Main \/ Interrupt \/ \E c \in Clients : ScriptEnds(c)

Spec == Init /\ [][Next]_vars

(* The thread runs; epoll_wait has a timeout. *)
FairSpec == Spec /\ WF_vars(Main)

-----------------------------------------------------------------------------
(* When main returns, every listening socket and the epoll instance are     *)
(* closed, every parser deleted, and no script is left behind, whichever    *)
(* way it came here.                                                        *)
CleanExit ==
    at = "exited" =>
        serversFd = {} /\ ~epollFd /\ parsers = {} /\ \A c \in Clients : scripts[c] = "none"

(* A SIGINT that comes once the loop has begun ends the program, as long as *)
(* no script ignores SIGTERM.  (FairSpec)                                   *)
SignalObeyed == asked = "late" ~> at = "exited"
=============================================================================
