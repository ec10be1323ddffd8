----------------------------- MODULE EventLoop ------------------------------
(***************************************************************************)
(* Servers::epollFds and the descriptors it juggles: listening socket,     *)
(* client sockets and the stdout pipes of CGI scripts, all known to the    *)
(* server by number only.  The kernel gives the lowest free number to what *)
(* is opened next, keeps an epoll registration as long as the open file    *)
(* lives, and the file lives as long as anyone has it open; no descriptor  *)
(* is CLOEXEC, so a script holds all that was open when it was forked.     *)
(* The batch of events is taken once a turn and handled after the scan of  *)
(* the scripts and, event by event, after closes and accepts.              *)
(*                                                                         *)
(* One action is one event of the batch: nothing the peers or the scripts  *)
(* do in between is seen by the code.  What HandleCGIMethod decides, which *)
(* CgiGateway details, is a choice here, and so is what the parser says.   *)
(***************************************************************************)
EXTENDS Integers, FiniteSets

CONSTANTS
    Peers,      \* remote ends of connections
    Runs,       \* runs of CGI scripts, each with its process and pipe
    MaxFd,      \* RLIMIT_NOFILE: descriptors the server can have besides its listener
    MaxLeft,    \* length of a response, in sends
    Methods,    \* "get", "post": all that is not GET takes the other branch
    Inputs,     \* what peers send: "cgi", "file", "part", "bad"
    AddFails    \* epoll_ctl may refuse the pipe of a script

ASSUME EventLoopAssumption ==
    /\ MaxFd \in Nat \ {0} /\ MaxLeft \in Nat \ {0}
    /\ Methods \subseteq {"get", "post"} /\ Methods # {}
    /\ Inputs \subseteq {"cgi", "file", "part", "bad"} /\ AddFails \in BOOLEAN

Fds      == 1..MaxFd
ListenFd == 0
NoFd     == MaxFd + 1

CONSTANTS NoConn, NoRun, Free, Leaked   \* model values

(* Client, CClient and ParsingRequest of one descriptor. *)
Conn == [left : 0..MaxLeft,         \* Client::response
         get : BOOLEAN,             \* NameMethod = "GET"
         busy : BOOLEAN,            \* intialized, and parser is not NULL
         shut : BOOLEAN,            \* close once the response is sent
         parser : BOOLEAN,          \* clientParsers has the descriptor
         run : Runs \cup {NoRun},   \* cgi_handler
         fd : Fds \cup {NoFd}]      \* its cgi_fd

ASSUME DistinctAssumption ==
    /\ Peers \cap Runs = {} /\ Free # Leaked
    /\ Free \notin Peers \cup Runs /\ Leaked \notin Peers \cup Runs
    /\ NoRun \notin Runs /\ NoConn \notin Conn

VARIABLES
    peer,       \* the remote end, as the kernel knows it
    inbox,      \* what it has sent that was not received
    output,     \* [run] unread output in the pipe
    child,      \* [run] the process
    kernel,     \* descriptors, copies of them in children, epoll registrations
    conn,       \* clients, client_data_map and clientParsers
    route,      \* cgi_fd_to_client_fd
    at,         \* the phase of the loop
    batch,      \* events[]
    mistaken    \* a script's event came under the number of a client (history)

vars == <<peer, inbox, output, child, kernel, conn, route, at, batch, mistaken>>

Objects == Peers \cup Runs
Masks   == {"IN", "OUT"}

TypeOK ==
    /\ peer \in [Peers -> {"away", "waiting", "up", "gone", "reset"}]
    /\ inbox \in [Peers -> Inputs \cup {"empty"}]
    /\ output \in [Runs -> BOOLEAN]
    /\ child \in [Runs -> {"none", "running", "ended"}]
    /\ kernel \in [fdt : [Fds -> Objects \cup {Free, Leaked}], held : SUBSET (Objects \X Runs),
                   regs : SUBSET [fd : Fds, obj : Objects, mask : Masks]]
    /\ conn \in [Fds -> Conn \cup {NoConn}]
    /\ route \in [Fds -> Fds \cup {NoFd}]
    /\ at \in {"wait", "sweep", "events", "crashed"}
    /\ batch \subseteq (Fds \cup {ListenFd}) \X Masks
    /\ mistaken \in BOOLEAN

Init ==
    /\ peer = [p \in Peers |-> "away"]
    /\ inbox = [p \in Peers |-> "empty"]
    /\ output = [q \in Runs |-> FALSE]
    /\ child = [q \in Runs |-> "none"]
    /\ kernel = [fdt |-> [f \in Fds |-> Free], held |-> {}, regs |-> {}]
    /\ conn = [f \in Fds |-> NoConn]
    /\ route = [f \in Fds |-> NoFd]
    /\ at = "wait" /\ batch = {} /\ mistaken = FALSE

-----------------------------------------------------------------------------
(* The kernel: each call as the state it leaves. *)

IsOpen(K, o) == (\E f \in Fds : K.fdt[f] = o) \/ (\E q \in Runs : <<o, q>> \in K.held)
Collect(K)   == [K EXCEPT !.regs = {r \in @ : IsOpen(K, r.obj)}]

FreeFds(K)      == {f \in Fds : K.fdt[f] = Free}
Open(K, f, o)   == [K EXCEPT !.fdt[f] = o]
Close(K, f)     == IF f \in Fds THEN Collect([K EXCEPT !.fdt[f] = Free]) ELSE K
Lowest(S, n)    == {x \in S : Cardinality({y \in S : y < x}) < n}
CtlAdd(K, f)    == [K EXCEPT !.regs = @ \cup {[fd |-> f, obj |-> K.fdt[f], mask |-> "IN"]}]
CtlDel(K, f)    == IF f \in Fds
                   THEN [K EXCEPT !.regs = {r \in @ : r.fd # f \/ r.obj # K.fdt[f]}]
                   ELSE K
CtlMod(K, f, m) == [K EXCEPT !.regs = {IF r.fd = f /\ r.obj = K.fdt[f]
                                       THEN [r EXCEPT !.mask = m] ELSE r : r \in @}]
EndChild(K, q)  == Collect([K EXCEPT !.held = {h \in @ : h[2] # q}])
Fork(K, q)      == [K EXCEPT !.held = @ \cup
                        {<<o, q>> : o \in (Objects \ {q}) \cap {K.fdt[f] : f \in Fds}}]

(* What epoll_wait finds ready.  A pipe that is only at its end reports     *)
(* EPOLLHUP without EPOLLIN, which no branch of the loop looks at.          *)
IsReady(r) ==
    IF r.obj \in Runs THEN output[r.obj]
    ELSE r.mask = "OUT" \/ inbox[r.obj] # "empty" \/ peer[r.obj] \in {"gone", "reset"}

ReadyEvents ==
    {<<r.fd, r.mask>> : r \in {s \in kernel.regs : IsReady(s)}}
    \cup (IF \E p \in Peers : peer[p] = "waiting" THEN {<<ListenFd, "IN">>} ELSE {})

-----------------------------------------------------------------------------
(* The environment. *)

Connect(p) ==
    /\ peer[p] = "away"
    /\ peer' = [peer EXCEPT ![p] = "waiting"]
    /\ UNCHANGED <<inbox, output, child, kernel, conn, route, at, batch, mistaken>>

PeerSends(p, what) ==
    /\ peer[p] = "up" /\ inbox[p] = "empty"
    /\ inbox' = [inbox EXCEPT ![p] = what]
    /\ UNCHANGED <<peer, output, child, kernel, conn, route, at, batch, mistaken>>

(* It closes, or a reset arrives, which discards what was not received. *)
PeerLeaves(p, how) ==
    /\ peer[p] = "up" /\ how \in {"gone", "reset"}
    /\ peer' = [peer EXCEPT ![p] = how]
    /\ inbox' = IF how = "reset" THEN [inbox EXCEPT ![p] = "empty"] ELSE inbox
    /\ UNCHANGED <<output, child, kernel, conn, route, at, batch, mistaken>>

ChildWrites(q) ==
    /\ child[q] = "running" /\ ~output[q] /\ IsOpen(kernel, q)
    /\ output' = [output EXCEPT ![q] = TRUE]
    /\ UNCHANGED <<peer, inbox, child, kernel, conn, route, at, batch, mistaken>>

ChildEnds(q) ==
    /\ child[q] = "running"
    /\ child' = [child EXCEPT ![q] = "ended"]
    /\ kernel' = EndChild(kernel, q)
    /\ UNCHANGED <<peer, inbox, output, conn, route, at, batch, mistaken>>

-----------------------------------------------------------------------------
(* One turn of the loop. *)

EpollWait ==
    /\ at = "wait"
    /\ batch' = ReadyEvents /\ at' = "sweep"
    /\ mistaken' = (mistaken \/ \E r \in kernel.regs :
                       r.obj \in Runs /\ IsReady(r) /\ conn[r.fd] # NoConn)
    /\ UNCHANGED <<peer, inbox, output, child, kernel, conn, route>>

(* Mistakes: the process ends and its pipe stays; its number is kept; an    *)
(* entry of the map is reset to its default value instead of erased.        *)
KillOnly(K, c)  == IF conn[c].run = NoRun THEN K ELSE EndChild(K, conn[c].run)
KeepNumber(r)   == [r EXCEPT !.run = NoRun]
RouteToZero(g)  == IF g \in Fds THEN [route EXCEPT ![g] = ListenFd] ELSE route

(* The kernel after close_cgi of connection c, and the CClient after it. *)
CloseCgi(K, c) == IF conn[c].run = NoRun THEN K
                  ELSE EndChild(Close(K, conn[c].fd), conn[c].run)
NoCgi(r)       == [r EXCEPT !.run = NoRun, !.fd = NoFd]
EndRun(c)      == child' = IF conn[c].run = NoRun THEN child
                           ELSE [child EXCEPT ![conn[c].run] = "ended"]
Unroute(g)     == IF g \in Fds THEN [route EXCEPT ![g] = NoFd] ELSE route

(* A failed or overdue script: the descriptor is closed before it is taken  *)
(* out of epoll, by its number.                                             *)
Sweep(c) ==
    /\ at = "sweep" /\ conn[c] # NoConn /\ conn[c].run # NoRun
    /\ EndRun(c)
    /\ kernel' = CtlMod(CtlDel(CloseCgi(kernel, c), conn[c].fd), c, "OUT")
    /\ route' = Unroute(conn[c].fd)
    /\ \E n \in 1..MaxLeft : conn' = [conn EXCEPT ![c] = [NoCgi(@) EXCEPT !.left = n]]
    /\ UNCHANGED <<peer, inbox, output, at, batch, mistaken>>

SweepDone ==
    /\ at = "sweep" /\ at' = "events"
    /\ UNCHANGED <<peer, inbox, output, child, kernel, conn, route, batch, mistaken>>

EventsDone ==
    /\ at = "events" /\ batch = {} /\ at' = "wait"
    /\ UNCHANGED <<peer, inbox, output, child, kernel, conn, route, batch, mistaken>>

TakeEvent(f, m) ==
    /\ at = "events" /\ <<f, m>> \in batch
    /\ batch' = batch \ {<<f, m>>}

(* The listening socket.  Without a free descriptor accept fails; when the  *)
(* new socket cannot be made non-blocking or watched, it is closed.         *)
Accept ==
    /\ TakeEvent(ListenFd, "IN")
    /\ IF FreeFds(kernel) = {}
       THEN UNCHANGED <<peer, kernel, conn>>
       ELSE \E p \in {x \in Peers : peer[x] = "waiting"}, f \in Lowest(FreeFds(kernel), 1) :
              \/ /\ peer' = [peer EXCEPT ![p] = "up"]
                 /\ kernel' = CtlAdd(Open(kernel, f, p), f)
                 /\ conn' = [conn EXCEPT ![f] =
                       [left |-> 0, get |-> FALSE, busy |-> FALSE, shut |-> FALSE,
                        parser |-> TRUE, run |-> NoRun, fd |-> NoFd]]
              \/ peer' = [peer EXCEPT ![p] = "gone"] /\ UNCHANGED <<kernel, conn>>
    /\ UNCHANGED <<inbox, output, child, route, at, mistaken>>

(* Not a client's descriptor: a script's, if route knows it, or stale. *)
CgiEvent(f) ==
    /\ TakeEvent(f, "IN") /\ conn[f] = NoConn
    /\ LET c == route[f] IN
       IF c = NoFd \/ conn[c] = NoConn \/ conn[c].run = NoRun
       THEN UNCHANGED <<output, child, kernel, conn, route>>
       ELSE /\ output' = IF conn[c].fd # NoFd THEN [output EXCEPT ![conn[c].run] = FALSE]
                                              ELSE output
            /\ \/ \* HandleCGIMethod has a response
                  /\ EndRun(c)
                  /\ kernel' = CtlMod(CtlDel(CloseCgi(kernel, c), f), c, "OUT")
                  /\ route' = Unroute(f)
                  /\ \E n \in 1..MaxLeft :
                        conn' = [conn EXCEPT ![c] = [NoCgi(@) EXCEPT !.left = n]]
               \/ \* it has none yet
                  /\ child[conn[c].run] = "running"
                  /\ UNCHANGED <<child, kernel, conn, route>>
               \/ \* nor ever will from the pipe: read_output closed it at its end
                  /\ child[conn[c].run] = "running" /\ conn[c].fd # NoFd
                  /\ kernel' = Close(kernel, conn[c].fd)
                  /\ conn' = [conn EXCEPT ![c].fd = NoFd]
                  /\ UNCHANGED <<child, route>>
    /\ UNCHANGED <<peer, inbox, at, mistaken>>

(* Mistakes: the maps are erased and the script goes on; nothing is closed. *)
ForgetScript(f) ==
    /\ kernel' = Close(CtlDel(kernel, f), f)
    /\ conn' = [conn EXCEPT ![f] = NoConn]
    /\ UNCHANGED <<child, route>>

ForgetSocket(f) ==
    /\ EndRun(f)
    /\ kernel' = CtlDel(CloseCgi(CtlDel(kernel, conn[f].fd), f), f)
    /\ route' = Unroute(conn[f].fd)
    /\ conn' = [conn EXCEPT ![f] = NoConn]

(* DEL of the script's descriptor, erase of the three maps, DEL and close. *)
DropClient(f) ==
    LET g == conn[f].fd IN
    /\ EndRun(f)
    /\ kernel' = Close(CtlDel(CloseCgi(CtlDel(kernel, g), f), f), f)
    /\ route' = Unroute(g)
    /\ conn' = [conn EXCEPT ![f] = NoConn]

(* A mistake: EPOLLOUT without a response. *)
RejectMutely(f) ==
    /\ conn' = [conn EXCEPT ![f].shut = TRUE, ![f].parser = FALSE]
    /\ kernel' = CtlMod(kernel, f, "OUT")
    /\ UNCHANGED <<child, route>>

(* GenerateResErr, should_close_connection, EPOLLOUT, and the parser goes. *)
RejectClient(f) ==
    /\ \E n \in 1..MaxLeft :
          conn' = [conn EXCEPT ![f] = [@ EXCEPT !.left = n, !.shut = TRUE, !.parser = FALSE]]
    /\ kernel' = CtlMod(kernel, f, "OUT")
    /\ UNCHANGED <<child, route>>

(* Runs that are over, as far as anyone knows: a new one may have the name. *)
FreshRuns == {q \in Runs : /\ child[q] # "running" /\ ~IsOpen(kernel, q)
                           /\ \A c \in Fds : conn[c] = NoConn \/ conn[c].run # q}

(* handleMethod of a request for a script, and what epollFds does with the  *)
(* handler it leaves.  Of the four descriptors of two pipes the third is    *)
(* kept.  pipe(2) fails without two free ones; when the second one does,    *)
(* the first pipe stays open.                                               *)
StartCgi(f, busy) ==
    LET free == FreeFds(kernel) IN
    \/ /\ Cardinality(free) >= 4
       /\ \E q \in FreshRuns, g \in Lowest(free, 3) \ Lowest(free, 2) :
             /\ \/ /\ kernel' = CtlAdd(Fork(Open(kernel, g, q), q), g)
                   /\ route' = [route EXCEPT ![g] = f]
                \/ AddFails /\ kernel' = Fork(Open(kernel, g, q), q) /\ UNCHANGED route
             /\ child' = [child EXCEPT ![q] = "running"]
             /\ output' = [output EXCEPT ![q] = FALSE]
             /\ conn' = [conn EXCEPT ![f] = [busy EXCEPT !.run = q, !.fd = g]]
    \/ /\ \/ kernel' = CtlMod(kernel, f, "OUT")   \* no such script, no pipe or no fork
          \/ /\ Cardinality(free) \in {2, 3}
             /\ kernel' = CtlMod([kernel EXCEPT !.fdt = [x \in Fds |->
                                     IF x \in Lowest(free, 2) THEN Leaked ELSE @[x]]],
                                 f, "OUT")
       /\ conn' = [conn EXCEPT ![f] = busy]
       /\ UNCHANGED <<child, output, route>>

(* No parser for a readable client: its descriptor is closed and nothing is *)
(* erased.  Only an event that is not its own can bring this about.         *)
LoseClient(f) ==
    /\ kernel' = Close(kernel, f)
    /\ UNCHANGED <<child, conn, route>>

(* The connection once its request has been looked at (intialized). *)
Begun(r, m, s) ==
    IF r.busy THEN r ELSE [r EXCEPT !.busy = TRUE, !.get = (m = "get"), !.shut = s]

(* PARSE_OK without a script: handleMethod starts one for a new request;    *)
(* otherwise the response is to be sent.                                    *)
Handle(f, busy) ==
    IF inbox[kernel.fdt[f]] = "cgi" /\ ~conn[f].busy
    THEN StartCgi(f, busy)
    ELSE /\ conn' = [conn EXCEPT ![f] = busy]
         /\ kernel' = CtlMod(kernel, f, "OUT")
         /\ UNCHANGED <<child, output, route>>

(* A client's descriptor is readable.  bufferLength is a size_t: when recv  *)
(* fails it is SIZE_MAX, which feed_data takes for a length and rejects.    *)
ClientIn(f) ==
    /\ TakeEvent(f, "IN") /\ conn[f] # NoConn
    /\ LET p == kernel.fdt[f] IN
       IF p \notin Peers \/ (inbox[p] = "empty" /\ peer[p] # "gone")
       THEN \* recv returns -1
            /\ IF conn[f].parser
               THEN RejectClient(f)
               ELSE LoseClient(f)
            /\ peer' = IF p \in Peers /\ peer[p] = "reset" THEN [peer EXCEPT ![p] = "gone"]
                                                           ELSE peer
            /\ UNCHANGED <<inbox, output>>
       ELSE IF inbox[p] = "empty"
       THEN \* recv returns 0
            DropClient(f) /\ UNCHANGED <<peer, inbox, output>>
       ELSE /\ inbox' = [inbox EXCEPT ![p] = "empty"]
            /\ UNCHANGED <<peer>>
            /\ \/ ~conn[f].parser /\ LoseClient(f) /\ UNCHANGED output
               \/ conn[f].parser /\ inbox[p] = "part"
                  /\ UNCHANGED <<output, child, kernel, conn, route>>
               \/ conn[f].parser /\ inbox[p] = "bad"
                  /\ RejectClient(f) /\ UNCHANGED output
               \/ \* PARSE_OK while a script runs: handleMethod has nothing to do
                  /\ conn[f].parser /\ inbox[p] \in {"cgi", "file"} /\ conn[f].run # NoRun
                  /\ UNCHANGED <<output, child, kernel, conn, route>>
               \/ /\ conn[f].parser /\ inbox[p] \in {"cgi", "file"} /\ conn[f].run = NoRun
                  /\ \E m \in Methods, s \in BOOLEAN : Handle(f, Begun(conn[f], m, s))
    /\ UNCHANGED <<at, mistaken>>

(* A mistake: the descriptor keeps EPOLLOUT for the next request. *)
CompleteDeaf(f) ==
    IF conn[f].shut
    THEN /\ EndRun(f)
         /\ kernel' = Close(CtlDel(CloseCgi(kernel, f), f), f)
         /\ conn' = [conn EXCEPT ![f] = NoConn]
    ELSE /\ conn' = [conn EXCEPT ![f] =
                [left |-> 0, get |-> FALSE, busy |-> FALSE, shut |-> FALSE,
                 parser |-> @.parser, run |-> NoRun, fd |-> NoFd]]
         /\ UNCHANGED <<kernel, child>>

(* The response is sent: close, without DEL of the script's descriptor, or  *)
(* start over.                                                              *)
Complete(f) ==
    IF conn[f].shut
    THEN /\ EndRun(f)
         /\ kernel' = Close(CtlDel(CloseCgi(kernel, f), f), f)
         /\ conn' = [conn EXCEPT ![f] = NoConn]
    ELSE /\ conn' = [conn EXCEPT ![f] =
                [left |-> 0, get |-> FALSE, busy |-> FALSE, shut |-> FALSE,
                 parser |-> @.parser, run |-> NoRun, fd |-> NoFd]]
         /\ kernel' = CtlMod(kernel, f, "IN")
         /\ UNCHANGED child

(* A client's descriptor is writable.  With no response yet HandleAllMethod *)
(* makes one, and dereferences the parser of the request.  The code skips   *)
(* a descriptor that is no client's any more; nothing in a turn can make it *)
(* so for EPOLLOUT (the runs would deadlock with the event in the batch).   *)
ClientOut(f) ==
    /\ TakeEvent(f, "OUT") /\ conn[f] # NoConn
    /\ UNCHANGED <<inbox, output, mistaken>>
    /\ IF conn[f].left = 0 /\ ~conn[f].busy
       THEN at' = "crashed" /\ UNCHANGED <<peer, child, kernel, conn, route>>
       ELSE
       /\ UNCHANGED <<peer, at>>
       /\ \E n \in IF conn[f].left = 0 THEN 1..MaxLeft ELSE {conn[f].left} :
          LET p    == kernel.fdt[f]
              dead == p \notin Peers \/ peer[p] = "reset"
              left == p \in Peers /\ peer[p] = "gone"
          IN \/ \* send fails for good; the GET branch has no way out of this
                /\ dead \/ left
                /\ IF conn[f].get
                   THEN /\ conn' = [conn EXCEPT ![f].left = n]
                        /\ UNCHANGED <<child, kernel, route>>
                   ELSE DropClient(f)
             \/ \* the socket buffer is full, or takes a part
                /\ ~dead /\ ~left
                /\ \E k \in 1..n : conn' = [conn EXCEPT ![f].left = k]
                /\ UNCHANGED <<child, kernel, route>>
             \/ \* it takes all of it, of a peer that has left too
                /\ ~dead
                /\ Complete(f) /\ UNCHANGED route

-----------------------------------------------------------------------------
Environment ==
    \/ \E p \in Peers :
          \/ Connect(p) \/ \E w \in Inputs : PeerSends(p, w)
          \/ \E h \in {"gone", "reset"} : PeerLeaves(p, h)
    \/ \E q \in Runs : ChildWrites(q) \/ ChildEnds(q)

Server ==
    \/ EpollWait \/ SweepDone \/ EventsDone \/ Accept
    \/ \E f \in Fds : Sweep(f) \/ CgiEvent(f) \/ ClientIn(f) \/ ClientOut(f)

Next == Environment \/ Server
Spec == Init /\ [][Next]_vars
FairSpec == Spec /\ WF_vars(Server)

-----------------------------------------------------------------------------
(* The registration of a script's pipe lives on, under the number the        *)
(* server gave back, while another script holds a copy of the pipe.  When a  *)
(* client gets that number (the fourth of four, with two scripts), its own   *)
(* events and the pipe's are the same to the loop: the client is rejected,   *)
(* then closed and not erased, and what follows is anyone's.  Up to that     *)
(* point, which mistaken records, the properties hold.                       *)

(* The server's view of each descriptor number is the kernel's: a client's  *)
(* number is a socket, no two clients share one, and a handler's number is  *)
(* the pipe of its own script, whatever was closed and reopened in between. *)
NumbersAgree ==
    ~mistaken => \A f \in Fds : conn[f] # NoConn =>
        /\ kernel.fdt[f] \in Peers
        /\ \A g \in Fds \ {f} : conn[g] # NoConn => kernel.fdt[g] # kernel.fdt[f]
        /\ conn[f].fd # NoFd => kernel.fdt[conn[f].fd] = conn[f].run

(* Every client is watched, with the mask its stage calls for: EPOLLOUT     *)
(* exactly while there is a response or no script to wait for.              *)
ClientsWatched ==
    ~mistaken => \A f \in Fds : conn[f] # NoConn =>
        \E r \in kernel.regs :
            /\ r.fd = f /\ r.obj = kernel.fdt[f]
            /\ conn[f].left > 0 => r.mask = "OUT"
            /\ ~conn[f].busy /\ conn[f].left = 0 => r.mask = "IN"

(* The output of a script goes to the connection that started it: what the  *)
(* map says of the number of a watched pipe is never left from another.     *)
RoutesRight ==
    ~mistaken => \A r \in kernel.regs :
        r.obj \in Runs /\ kernel.fdt[r.fd] = r.obj /\ route[r.fd] # NoFd =>
            conn[route[r.fd]] # NoConn /\ conn[route[r.fd]].run = r.obj

(* No descriptor is lost: each is a client's or a handler's, or one of a    *)
(* first pipe whose second could not be made (cgi.cpp:125-129, 249-253).    *)
AllAccounted ==
    ~mistaken => \A f \in Fds : kernel.fdt[f] \notin {Free, Leaked} =>
        conn[f] # NoConn \/ \E c \in Fds : conn[c] # NoConn /\ conn[c].fd = f

(* An event that came too late never makes HandleAllMethod run without a    *)
(* request: what it dereferences (CClient::parser) is there.                *)
NeverCrashes == ~mistaken => at # "crashed"

(* server.cpp:402: "Send failed ... cleaning up": a peer that is gone is let *)
(* go of, with every descriptor that stands for it, whatever it was sent.   *)
GoneReleased ==
    \A p \in Peers : peer[p] \in {"gone", "reset"} ~> \A f \in Fds : kernel.fdt[f] # p
=============================================================================
