-------------------------- MODULE EventLoopProofs ---------------------------
(***************************************************************************)
(* The descriptors of EventLoop, for any number of peers, scripts and      *)
(* descriptors: types, and that the server's numbers, masks and routes are *)
(* those of the kernel, as long as no event of a script's pipe came under  *)
(* the number of a client.                                                 *)
(***************************************************************************)
EXTENDS EventLoop, TLAPS

Client(f) == conn[f] # NoConn
Fdt       == kernel.fdt

(* Numbers: clients are the sockets, handlers the pipes of their scripts.  *)
Sockets ==
    /\ \A f \in Fds : Client(f) <=> Fdt[f] \in Peers
    /\ \A f, g \in Fds : Fdt[f] \in Objects /\ Fdt[f] = Fdt[g] => f = g
    /\ \A f \in Fds : Fdt[f] \in Peers => peer[Fdt[f]] \notin {"away", "waiting"}

Pipes ==
    /\ \A f \in Fds : Client(f) /\ conn[f].run = NoRun => conn[f].fd = NoFd
    /\ \A f \in Fds : Client(f) /\ conn[f].fd # NoFd => Fdt[conn[f].fd] = conn[f].run
    /\ \A f, g \in Fds : Client(f) /\ Client(g) /\ conn[f].run # NoRun
                            /\ conn[f].run = conn[g].run => f = g
    /\ \A g \in Fds : Fdt[g] \in Runs =>
          \E c \in Fds : Client(c) /\ conn[c].run = Fdt[g] /\ conn[c].fd = g

(* Registrations: one of each client, with its mask; of a pipe, the route. *)
Watched ==
    /\ \A r \in kernel.regs : r.obj \in Peers => Fdt[r.fd] = r.obj
    /\ \A f \in Fds : Client(f) => \E r \in kernel.regs : r.fd = f /\ r.obj = Fdt[f]
    /\ \A r, s \in kernel.regs : r.obj \in Peers /\ r.fd = s.fd /\ r.obj = s.obj => r = s

Piped ==
    /\ \A r \in kernel.regs : r.obj \in Runs => r.mask = "IN" /\ IsOpen(kernel, r.obj)
    /\ \A r \in kernel.regs : r.obj \in Runs /\ Fdt[r.fd] = r.obj /\ route[r.fd] # NoFd =>
          Client(route[r.fd]) /\ conn[route[r.fd]].run = r.obj

Masked ==
    \A r \in kernel.regs : r.obj \in Peers =>
        /\ conn[r.fd].left > 0 => r.mask = "OUT"
        /\ r.mask = "OUT" => conn[r.fd].left > 0 \/ conn[r.fd].busy
        /\ r.mask = "OUT" => conn[r.fd].run = NoRun \/ conn[r.fd].shut
        /\ r.mask = "IN" => conn[r.fd].parser

(* Requests: without a parser the connection is to be closed; one that has  *)
(* a response or a script is on a request.                                  *)
Heard ==
    \A f \in Fds : Client(f) =>
        /\ ~conn[f].parser => conn[f].shut
        /\ conn[f].left > 0 /\ conn[f].parser => conn[f].busy
        /\ conn[f].run # NoRun => conn[f].busy

(* Events to come: no number has two, and what they are about is there.     *)
Batched ==
    \A f \in Fds :
        /\ <<f, "OUT">> \in batch =>
              /\ Client(f) /\ (conn[f].left > 0 \/ conn[f].busy)
              /\ <<f, "IN">> \notin batch
              /\ \A r \in kernel.regs : r.fd = f /\ r.obj = Fdt[f] => r.mask = "OUT"
        /\ <<f, "IN">> \in batch /\ Client(f) => conn[f].parser

Good == Sockets /\ Pipes /\ Watched /\ Piped /\ Masked /\ Heard /\ Batched /\ at # "crashed"

IInv == TypeOK /\ (~mistaken => Good)
-----------------------------------------------------------------------------
(* What calls that give descriptors back leave of the kernel's tables.      *)

KernelType == [fdt : [Fds -> Objects \cup {Free, Leaked}], held : SUBSET (Objects \X Runs),
               regs : SUBSET [fd : Fds, obj : Objects, mask : Masks]]

(* L is K after the numbers S were given back and nothing else that is in   *)
(* use, some registrations with them; none of a socket still open.          *)
Keeps(K, L, S) ==
    /\ L \in KernelType
    /\ \A g \in Fds : L.fdt[g] \in Objects => g \notin S /\ K.fdt[g] = L.fdt[g]
    /\ \A g \in Fds \ S : K.fdt[g] \in Objects => L.fdt[g] = K.fdt[g]
    /\ L.regs \subseteq K.regs
    /\ \A r \in K.regs : r.obj \in Peers /\ L.fdt[r.fd] = r.obj => r \in L.regs
    /\ \A r \in L.regs : IsOpen(K, r.obj) => IsOpen(L, r.obj)

(* Collect keeps the registrations of what is open. *)
LEMMA CollectFacts ==
    ASSUME NEW K \in KernelType
    PROVE  /\ Collect(K) \in KernelType
           /\ Collect(K).fdt = K.fdt /\ Collect(K).held = K.held
           /\ Collect(K).regs = {r \in K.regs : IsOpen(K, r.obj)}
           /\ \A o : IsOpen(Collect(K), o) <=> IsOpen(K, o)
  BY DEF Collect, KernelType, IsOpen

(* Nothing done keeps everything. *)
LEMMA KeepsSelf == ASSUME NEW K \in KernelType PROVE Keeps(K, K, {})
  BY DEF Keeps

(* Two steps of giving back are one. *)
LEMMA KeepsTrans ==
    ASSUME NEW K, NEW L, NEW M, NEW S, NEW T, K \in KernelType, Keeps(K, L, S), Keeps(L, M, T)
    PROVE  Keeps(K, M, S \cup T)
  <1>1. /\ M \in KernelType /\ L \in KernelType
        /\ M.regs \subseteq K.regs
    BY DEF Keeps
  <1>2. \A g \in Fds : M.fdt[g] \in Objects => g \notin S \cup T /\ K.fdt[g] = M.fdt[g]
    BY DEF Keeps
  <1>3. \A g \in Fds \ (S \cup T) : K.fdt[g] \in Objects => M.fdt[g] = K.fdt[g]
    BY DEF Keeps
  <1>4. \A r \in K.regs : r.obj \in Peers /\ M.fdt[r.fd] = r.obj => r \in M.regs
    <2> TAKE r \in K.regs
    <2> HAVE r.obj \in Peers /\ M.fdt[r.fd] = r.obj
    <2>1. r.fd \in Fds /\ r.obj \in Objects
      BY DEF KernelType, Objects
    <2>2. L.fdt[r.fd] = r.obj
      BY <2>1 DEF Keeps
    <2> QED BY <2>2 DEF Keeps
  <1>5. \A r \in M.regs : IsOpen(K, r.obj) => IsOpen(M, r.obj)
    BY DEF Keeps
  <1> QED BY <1>1, <1>2, <1>3, <1>4, <1>5 DEF Keeps

(* close(2) of one number. *)
LEMMA KeepsClose ==
    ASSUME NEW K \in KernelType, NEW g \in Fds \cup {NoFd}
    PROVE  Keeps(K, Close(K, g), {g})
  <1>1. CASE g \notin Fds
    BY <1>1, KeepsSelf DEF Close, Keeps
  <1>2. CASE g \in Fds
    <2> DEFINE M == [K EXCEPT !.fdt[g] = Free]
    <2>1. /\ M \in KernelType /\ M.fdt = [K.fdt EXCEPT ![g] = Free]
          /\ M.held = K.held /\ M.regs = K.regs
      BY <1>2 DEF KernelType
    <2>2. Close(K, g) = Collect(M)
      BY <1>2 DEF Close
    <2> HIDE DEF M
    <2>3. /\ Collect(M) \in KernelType
          /\ Collect(M).fdt = M.fdt /\ Collect(M).held = M.held
          /\ Collect(M).regs = {r \in M.regs : IsOpen(M, r.obj)}
          /\ \A o : IsOpen(Collect(M), o) <=> IsOpen(M, o)
      BY <2>1, CollectFacts
    <2>4. \A x \in Fds : M.fdt[x] = IF x = g THEN Free ELSE K.fdt[x]
      BY <2>1, <1>2 DEF KernelType
    <2>5. \A r \in K.regs : M.fdt[r.fd] = r.obj => IsOpen(M, r.obj)
      BY DEF IsOpen, KernelType
    <2> QED
      BY <2>1, <2>2, <2>3, <2>4, <2>5, DistinctAssumption DEF Keeps, Objects
  <1> QED BY <1>1, <1>2

(* EPOLL_CTL_DEL of what is no socket. *)
LEMMA KeepsDel ==
    ASSUME NEW K \in KernelType, NEW g, g \in Fds => K.fdt[g] \notin Peers
    PROVE  Keeps(K, CtlDel(K, g), {})
  <1>1. CASE g \notin Fds
    BY <1>1, KeepsSelf DEF CtlDel
  <1>2. CASE g \in Fds
    <2> DEFINE M == CtlDel(K, g)
    <2>1. /\ M \in KernelType /\ M.fdt = K.fdt /\ M.held = K.held
          /\ M.regs = {r \in K.regs : r.fd # g \/ r.obj # K.fdt[g]}
      BY <1>2 DEF KernelType, CtlDel
    <2> HIDE DEF M
    <2>2. \A r \in K.regs : r.obj \in Peers /\ M.fdt[r.fd] = r.obj => r \in M.regs
      BY <2>1, <1>2
    <2>3. \A o : IsOpen(K, o) => IsOpen(M, o)
      BY <2>1 DEF IsOpen
    <2>4. Keeps(K, M, {})
      BY <2>1, <2>2, <2>3 DEF Keeps
    <2> QED BY <2>4 DEF M
  <1> QED BY <1>1, <1>2

(* The end of a process. *)
LEMMA KeepsEnd ==
    ASSUME NEW K \in KernelType, NEW q
    PROVE  Keeps(K, EndChild(K, q), {})
  <1> DEFINE M == [K EXCEPT !.held = {h \in @ : h[2] # q}]
  <1>1. /\ M \in KernelType /\ M.fdt = K.fdt /\ M.regs = K.regs
    BY DEF KernelType
  <1>2. EndChild(K, q) = Collect(M)
    BY DEF EndChild
  <1> HIDE DEF M
  <1>3. /\ Collect(M) \in KernelType
        /\ Collect(M).fdt = M.fdt /\ Collect(M).held = M.held
        /\ Collect(M).regs = {r \in M.regs : IsOpen(M, r.obj)}
        /\ \A o : IsOpen(Collect(M), o) <=> IsOpen(M, o)
    BY <1>1, CollectFacts
  <1>4. \A r \in K.regs : M.fdt[r.fd] = r.obj => IsOpen(M, r.obj)
    BY DEF IsOpen, KernelType
  <1> QED BY <1>1, <1>2, <1>3, <1>4 DEF Keeps

(* EPOLL_CTL_DEL and close of a socket. *)
LEMMA KeepsDelClose ==
    ASSUME NEW K \in KernelType, NEW f \in Fds
    PROVE  /\ Keeps(K, Close(CtlDel(K, f), f), {f})
           /\ \A r \in Close(CtlDel(K, f), f).regs : r.fd # f \/ r.obj # K.fdt[f]
  <1> DEFINE M == CtlDel(K, f)
  <1>1. /\ M \in KernelType /\ M.fdt = K.fdt /\ M.held = K.held
        /\ M.regs = {r \in K.regs : r.fd # f \/ r.obj # K.fdt[f]}
    BY DEF KernelType, CtlDel
  <1> HIDE DEF M
  <1>2. Keeps(M, Close(M, f), {f})
    BY <1>1, KeepsClose
  <1>3. \A r \in K.regs : r.obj \in Peers /\ Close(M, f).fdt[r.fd] = r.obj => r \in M.regs
    BY <1>1, <1>2 DEF Keeps, KernelType, Objects
  <1>4. \A o : IsOpen(M, o) <=> IsOpen(K, o)
    BY <1>1 DEF IsOpen
  <1>5. Keeps(K, Close(M, f), {f})
    BY <1>1, <1>2, <1>3, <1>4 DEF Keeps
  <1> QED BY <1>1, <1>2, <1>5 DEF Keeps, M

(* close_cgi of a connection gives back its script's pipe. *)
LEMMA KeepsCloseCgi ==
    ASSUME NEW K \in KernelType, NEW c \in Fds, conn[c] \in Conn,
           conn[c].run = NoRun => conn[c].fd = NoFd
    PROVE  Keeps(K, CloseCgi(K, c), {conn[c].fd})
  <1>1. CASE conn[c].run = NoRun
    <2>1. Keeps(K, Close(K, NoFd), {NoFd})
      BY KeepsClose
    <2> QED BY <1>1, <2>1, EventLoopAssumption DEF CloseCgi, Close, Fds, NoFd
  <1>2. CASE conn[c].run # NoRun
    <2>1. conn[c].fd \in Fds \cup {NoFd}
      BY DEF Conn
    <2>2. Keeps(K, Close(K, conn[c].fd), {conn[c].fd})
      BY <2>1, KeepsClose
    <2>3. Keeps(Close(K, conn[c].fd), EndChild(Close(K, conn[c].fd), conn[c].run), {})
      BY <2>2, KeepsEnd DEF Keeps
    <2>4. Keeps(K, EndChild(Close(K, conn[c].fd), conn[c].run), {conn[c].fd} \cup {})
      BY <2>2, <2>3, KeepsTrans
    <2> QED BY <1>2, <2>4 DEF CloseCgi
  <1> QED BY <1>1, <1>2
-----------------------------------------------------------------------------
(* Types. *)

(* Calls that give back keep the types of the kernel's tables. *)
LEMMA CloseTypes ==
    \A K \in KernelType : \A g : /\ Close(K, g) \in KernelType
                                  /\ CtlDel(K, g) \in KernelType
                                  /\ EndChild(K, g) \in KernelType
  <1> TAKE K \in KernelType
  <1> TAKE g
  <1>1. Close(K, g) \in KernelType
    <2>1. CASE g \notin Fds
      BY <2>1 DEF Close
    <2>2. CASE g \in Fds
      <3>1. [K EXCEPT !.fdt[g] = Free] \in KernelType
        BY <2>2 DEF KernelType
      <3> QED BY <2>2, <3>1, CollectFacts DEF Close
    <2> QED BY <2>1, <2>2
  <1>2. CtlDel(K, g) \in KernelType
    BY DEF CtlDel, KernelType
  <1>3. EndChild(K, g) \in KernelType
    <2>1. [K EXCEPT !.held = {h \in @ : h[2] # g}] \in KernelType
      BY DEF KernelType
    <2> QED BY <2>1, CollectFacts DEF EndChild
  <1> QED BY <1>1, <1>2, <1>3

(* So does close_cgi. *)
LEMMA CloseCgiType == \A K \in KernelType : \A c : CloseCgi(K, c) \in KernelType
  BY CloseTypes DEF CloseCgi

(* And EPOLL_CTL_MOD. *)
LEMMA ModType == \A K \in KernelType, f \in Fds, m \in Masks : CtlMod(K, f, m) \in KernelType
  BY DEF CtlMod, KernelType

(* And what opens, registers and forks. *)
LEMMA OpenTypes ==
    \A K \in KernelType, f \in Fds :
        /\ \A o \in Objects : Open(K, f, o) \in KernelType /\ Open(K, f, o).fdt[f] = o
        /\ K.fdt[f] \in Objects => CtlAdd(K, f) \in KernelType
  <1> TAKE K \in KernelType, f \in Fds
  <1>1. \A o \in Objects : Open(K, f, o) \in KernelType /\ Open(K, f, o).fdt[f] = o
    BY DEF Open, KernelType
  <1>2. K.fdt[f] \in Objects => CtlAdd(K, f) \in KernelType
    BY DEF CtlAdd, KernelType, Masks
  <1> QED BY <1>1, <1>2

(* fork(2) copies the table and leaves it. *)
LEMMA ForkType ==
    \A K \in KernelType, q \in Runs : Fork(K, q) \in KernelType /\ Fork(K, q).fdt = K.fdt
  BY DEF Fork, KernelType

(* A connection with a response, rejected, or without its script, is one.  *)
LEMMA ConnTypes ==
    ASSUME NEW r \in Conn
    PROVE  /\ NoCgi(r) \in Conn
           /\ \A n \in 1..MaxLeft :
                 /\ [r EXCEPT !.left = n] \in Conn
                 /\ [r EXCEPT !.left = n, !.shut = TRUE, !.parser = FALSE] \in Conn
                 /\ [NoCgi(r) EXCEPT !.left = n] \in Conn
  <1>1. NoCgi(r) \in Conn
    BY DEF Conn, NoCgi
  <1>2. \A n \in 1..MaxLeft, x \in Conn : [x EXCEPT !.left = n] \in Conn
    BY EventLoopAssumption DEF Conn
  <1>3. \A n \in 1..MaxLeft :
           [r EXCEPT !.left = n, !.shut = TRUE, !.parser = FALSE] \in Conn
    <2>1. \A x \in Conn : [x EXCEPT !.shut = TRUE, !.parser = FALSE] \in Conn
      BY DEF Conn
    <2>2. \A n \in 1..MaxLeft : [r EXCEPT !.left = n, !.shut = TRUE, !.parser = FALSE]
                                 = [[r EXCEPT !.left = n] EXCEPT !.shut = TRUE, !.parser = FALSE]
      BY DEF Conn
    <2> QED BY <1>2, <2>1, <2>2
  <1> QED BY <1>1, <1>2, <1>3

(* What the handlers change: processes, the kernel, connections, routes. *)
Tables ==
    /\ child \in [Runs -> {"none", "running", "ended"}]
    /\ kernel \in KernelType
    /\ conn \in [Fds -> Conn \cup {NoConn}]
    /\ route \in [Fds -> Fds \cup {NoFd}]

(* TypeOK is Tables and the rest. *)
LEMMA TypeParts ==
    TypeOK <=> /\ Tables
               /\ peer \in [Peers -> {"away", "waiting", "up", "gone", "reset"}]
               /\ inbox \in [Peers -> Inputs \cup {"empty"}]
               /\ output \in [Runs -> BOOLEAN]
               /\ at \in {"wait", "sweep", "events", "crashed"}
               /\ batch \subseteq (Fds \cup {ListenFd}) \X Masks
               /\ mistaken \in BOOLEAN
  BY DEF TypeOK, Tables, KernelType

(* A connection that ends, with its script. *)
LEMMA EndTypes ==
    ASSUME Tables, NEW f \in Fds, conn[f] # NoConn
    PROVE  /\ conn[f] \in Conn /\ NoCgi(conn[f]) \in Conn
           /\ EndRun(f) => child' \in [Runs -> {"none", "running", "ended"}]
           /\ \A g : Unroute(g) \in [Fds -> Fds \cup {NoFd}]
           /\ DropClient(f) => Tables'
           /\ RejectClient(f) => Tables'
           /\ LoseClient(f) => Tables'
           /\ Complete(f) /\ UNCHANGED route => Tables'
  <1>1. /\ conn[f] \in Conn /\ NoCgi(conn[f]) \in Conn
        /\ conn[f].run # NoRun => conn[f].run \in Runs
    BY DEF Tables, Conn, NoCgi
  <1>2. EndRun(f) => child' \in [Runs -> {"none", "running", "ended"}]
    BY <1>1 DEF Tables, EndRun
  <1>3. \A g : Unroute(g) \in [Fds -> Fds \cup {NoFd}]
    BY DEF Tables, Unroute
  <1>4. \A K \in KernelType : /\ CloseCgi(K, f) \in KernelType
                              /\ \A g : Close(K, g) \in KernelType /\ CtlDel(K, g) \in KernelType
                              /\ \A m \in Masks : CtlMod(K, f, m) \in KernelType
    BY CloseTypes, CloseCgiType, ModType
  <1>5. kernel \in KernelType
    BY DEF Tables
  <1>6. DropClient(f) => Tables'
    <2> SUFFICES ASSUME DropClient(f) PROVE Tables'
      OBVIOUS
    <2>1. kernel' \in KernelType
      BY <1>4, <1>5 DEF DropClient
    <2>2. conn' \in [Fds -> Conn \cup {NoConn}]
      BY DEF DropClient, Tables
    <2> QED BY <1>2, <1>3, <2>1, <2>2 DEF DropClient, Tables
  <1>7. RejectClient(f) => Tables'
    <2> SUFFICES ASSUME RejectClient(f) PROVE Tables'
      OBVIOUS
    <2>1. kernel' \in KernelType
      BY <1>4, <1>5 DEF RejectClient, Masks
    <2>2. conn' \in [Fds -> Conn \cup {NoConn}]
      <3>1. \A n \in 1..MaxLeft :
               [conn[f] EXCEPT !.left = n, !.shut = TRUE, !.parser = FALSE] \in Conn
        BY <1>1, ConnTypes
      <3> QED BY <3>1 DEF RejectClient, Tables
    <2> QED BY <2>1, <2>2 DEF RejectClient, Tables
  <1>8. LoseClient(f) => Tables'
    BY <1>4, <1>5 DEF LoseClient, Tables
  <1>9. Complete(f) /\ UNCHANGED route => Tables'
    <2> SUFFICES ASSUME Complete(f), UNCHANGED route PROVE Tables'
      OBVIOUS
    <2>1. CASE conn[f].shut
      <3>1. kernel' \in KernelType
        BY <2>1, <1>4, <1>5 DEF Complete
      <3> QED BY <2>1, <3>1, <1>2 DEF Complete, Tables
    <2>2. CASE ~conn[f].shut
      <3>1. kernel' \in KernelType
        BY <2>2, <1>4, <1>5 DEF Complete, Masks
      <3>2. [left |-> 0, get |-> FALSE, busy |-> FALSE, shut |-> FALSE,
             parser |-> conn[f].parser, run |-> NoRun, fd |-> NoFd] \in Conn
        BY <1>1, EventLoopAssumption DEF Conn
      <3>3. conn' \in [Fds -> Conn \cup {NoConn}]
        BY <2>2, <3>2 DEF Complete, Tables
      <3> QED BY <2>2, <3>1, <3>3 DEF Complete, Tables
    <2> QED BY <2>1, <2>2
  <1> QED BY <1>1, <1>2, <1>3, <1>6, <1>7, <1>8, <1>9

(* A script that starts, or does not. *)
LEMMA StartTypes ==
    ASSUME Tables, output \in [Runs -> BOOLEAN], NEW f \in Fds, NEW busy \in Conn,
           StartCgi(f, busy)
    PROVE  Tables' /\ output' \in [Runs -> BOOLEAN]
  <1>0. kernel \in KernelType
    BY DEF Tables
  <1>1. ASSUME NEW q \in FreshRuns, NEW g \in Lowest(FreeFds(kernel), 3),
               \/ kernel' = CtlAdd(Fork(Open(kernel, g, q), q), g) /\ route' = [route EXCEPT ![g] = f]
               \/ kernel' = Fork(Open(kernel, g, q), q) /\ UNCHANGED route,
               child' = [child EXCEPT ![q] = "running"],
               output' = [output EXCEPT ![q] = FALSE],
               conn' = [conn EXCEPT ![f] = [busy EXCEPT !.run = q, !.fd = g]]
        PROVE  Tables' /\ output' \in [Runs -> BOOLEAN]
    <2>1. q \in Runs /\ g \in Fds
      BY DEF FreshRuns, Lowest, FreeFds
    <2>2. Open(kernel, g, q) \in KernelType /\ Open(kernel, g, q).fdt[g] = q
      <3>1. q \in Objects
        BY <2>1 DEF Objects
      <3> QED BY <1>0, <2>1, <3>1, OpenTypes
    <2> DEFINE K == Open(kernel, g, q)
    <2> HIDE DEF K
    <2>a. Fork(K, q) \in KernelType /\ Fork(K, q).fdt[g] \in Objects
      BY <2>1, <2>2, ForkType DEF K, Objects
    <2>b. CtlAdd(Fork(K, q), g) \in KernelType
      BY <2>1, <2>a, OpenTypes
    <2>3. kernel' \in KernelType
      BY <1>1, <2>a, <2>b DEF K
    <2>4. [busy EXCEPT !.run = q, !.fd = g] \in Conn
      BY <2>1 DEF Conn
    <2> QED BY <1>1, <2>1, <2>3, <2>4 DEF Tables
  <1>2. ASSUME conn' = [conn EXCEPT ![f] = busy], UNCHANGED <<child, output, route>>,
               \/ kernel' = CtlMod(kernel, f, "OUT")
               \/ kernel' = CtlMod([kernel EXCEPT !.fdt = [x \in Fds |->
                                IF x \in Lowest(FreeFds(kernel), 2) THEN Leaked ELSE @[x]]], f, "OUT")
        PROVE  Tables' /\ output' \in [Runs -> BOOLEAN]
    <2> DEFINE K == [kernel EXCEPT !.fdt = [x \in Fds |->
                        IF x \in Lowest(FreeFds(kernel), 2) THEN Leaked ELSE @[x]]]
    <2>1. K \in KernelType
      BY <1>0 DEF KernelType
    <2> HIDE DEF K
    <2>a. CtlMod(kernel, f, "OUT") \in KernelType /\ CtlMod(K, f, "OUT") \in KernelType
      BY <1>0, <2>1, ModType DEF Masks
    <2>2. kernel' \in KernelType
      BY <1>2, <2>a DEF K
    <2> QED BY <1>2, <2>2 DEF Tables
  <1> QED BY <1>1, <1>2 DEF StartCgi

(* What a readable client brings about, its parser's word aside. *)
LEMMA ClientInCases ==
    ASSUME NEW f \in Fds, ClientIn(f)
    PROVE  /\ TakeEvent(f, "IN") /\ conn[f] # NoConn /\ UNCHANGED <<at, mistaken>>
           /\ \/ peer' = peer
              \/ kernel.fdt[f] \in Peers /\ peer' = [peer EXCEPT ![kernel.fdt[f]] = "gone"]
           /\ inbox' = inbox \/ inbox' = [inbox EXCEPT ![kernel.fdt[f]] = "empty"]
           /\ \/ UNCHANGED output /\ conn[f].parser /\ RejectClient(f)
              \/ UNCHANGED output /\ ~conn[f].parser /\ LoseClient(f)
              \/ UNCHANGED output /\ DropClient(f)
              \/ UNCHANGED <<output, child, kernel, conn, route>>
              \/ /\ conn[f].parser /\ conn[f].run = NoRun
                 /\ \E m \in Methods, s \in BOOLEAN : Handle(f, Begun(conn[f], m, s))
  BY DEF ClientIn

(* What a writable client brings about. *)
LEMMA ClientOutCases ==
    ASSUME NEW f \in Fds, ClientOut(f), conn[f] \in Conn
    PROVE  /\ TakeEvent(f, "OUT") /\ conn[f] # NoConn /\ UNCHANGED <<inbox, output, mistaken>>
           /\ \/ /\ conn[f].left = 0 /\ ~conn[f].busy /\ at' = "crashed"
                 /\ UNCHANGED <<peer, child, kernel, conn, route>>
              \/ /\ conn[f].left > 0 \/ conn[f].busy
                 /\ UNCHANGED <<peer, at>>
                 /\ \/ /\ \E n \in 1..MaxLeft : conn' = [conn EXCEPT ![f].left = n]
                       /\ UNCHANGED <<child, kernel, route>>
                    \/ DropClient(f)
                    \/ Complete(f) /\ UNCHANGED route
  <1>1. conn[f].left \in 0..MaxLeft /\ conn[f].busy \in BOOLEAN
    BY DEF Conn
  <1>2. CASE conn[f].left = 0 /\ ~conn[f].busy
    BY <1>2 DEF ClientOut
  <1>3. CASE ~(conn[f].left = 0 /\ ~conn[f].busy)
    <2>1. PICK n \in IF conn[f].left = 0 THEN 1..MaxLeft ELSE {conn[f].left} :
             \/ /\ conn' = [conn EXCEPT ![f].left = n]
                /\ UNCHANGED <<child, kernel, route>>
             \/ DropClient(f)
             \/ /\ \E k \in 1..n : conn' = [conn EXCEPT ![f].left = k]
                /\ UNCHANGED <<child, kernel, route>>
             \/ Complete(f) /\ UNCHANGED route
      BY <1>3 DEF ClientOut
    <2>2. n \in 1..MaxLeft /\ 1..n \subseteq 1..MaxLeft
      BY <1>1, EventLoopAssumption
    <2>3. /\ TakeEvent(f, "OUT") /\ conn[f] # NoConn /\ UNCHANGED <<inbox, output, mistaken>>
          /\ UNCHANGED <<peer, at>>
      BY <1>3 DEF ClientOut
    <2>4. conn[f].left > 0 \/ conn[f].busy
      BY <1>1, <1>3, EventLoopAssumption
    <2> QED BY <2>1, <2>2, <2>3, <2>4
  <1> QED BY <1>2, <1>3

(* What handling a request leaves has the types. *)
LEMMA HandleTypes ==
    ASSUME Tables, output \in [Runs -> BOOLEAN], NEW f \in Fds, conn[f] # NoConn,
           NEW m, NEW s \in BOOLEAN, Handle(f, Begun(conn[f], m, s))
    PROVE  Tables' /\ output' \in [Runs -> BOOLEAN]
  <1>1. Begun(conn[f], m, s) \in Conn
    <2>1. conn[f] \in Conn
      BY DEF Tables
    <2>2. \A x \in Conn, b, t \in BOOLEAN : [x EXCEPT !.get = b, !.shut = t] \in Conn
      BY DEF Conn
    <2>3. [conn[f] EXCEPT !.busy = TRUE] \in Conn
      BY <2>1 DEF Conn
    <2>4. [conn[f] EXCEPT !.busy = TRUE, !.get = (m = "get"), !.shut = s]
            = [[conn[f] EXCEPT !.busy = TRUE] EXCEPT !.get = (m = "get"), !.shut = s]
      BY <2>1 DEF Conn
    <2> QED BY <2>1, <2>2, <2>3, <2>4 DEF Begun
  <1>2. CASE StartCgi(f, Begun(conn[f], m, s))
    BY <1>1, <1>2, StartTypes
  <1>3. CASE /\ conn' = [conn EXCEPT ![f] = Begun(conn[f], m, s)]
             /\ kernel' = CtlMod(kernel, f, "OUT")
             /\ UNCHANGED <<child, output, route>>
    <2>1. kernel' \in KernelType
      BY <1>3, ModType DEF Tables, Masks
    <2> QED BY <1>1, <1>3, <2>1 DEF Tables
  <1> QED BY <1>2, <1>3 DEF Handle

(* A connection whose script is given up for a response. *)
LEMMA AnswerTypes ==
    ASSUME Tables, NEW c \in Fds, conn[c] \in Conn,
           \E n \in 1..MaxLeft : conn' = [conn EXCEPT ![c] = [NoCgi(@) EXCEPT !.left = n]]
    PROVE  conn' \in [Fds -> Conn \cup {NoConn}]
  <1>1. PICK n \in 1..MaxLeft : conn' = [conn EXCEPT ![c] = [NoCgi(conn[c]) EXCEPT !.left = n]]
    OBVIOUS
  <1>2. [NoCgi(conn[c]) EXCEPT !.left = n] \in Conn
    BY ConnTypes
  <1> DEFINE r == [NoCgi(conn[c]) EXCEPT !.left = n]
  <1>3. conn' = [conn EXCEPT ![c] = r] /\ r \in Conn
    BY <1>1, <1>2
  <1> HIDE DEF r
  <1> QED BY <1>3 DEF Tables

(* The initial state has the types. *)
LEMMA InitType == Init => TypeOK
  <1> SUFFICES ASSUME Init PROVE TypeOK
    OBVIOUS
  <1>1. kernel \in KernelType
    BY DEF Init, KernelType
  <1>2. Tables
    BY <1>1 DEF Init, Tables
  <1> QED BY <1>2, TypeParts DEF Init

(* Each step keeps the types. *)
LEMMA NextType == TypeOK /\ [Next]_vars => TypeOK'
  <1> SUFFICES ASSUME TypeOK, [Next]_vars PROVE TypeOK'
    OBVIOUS
  <1> USE DEF ListenFd
  <1>0. /\ Tables /\ kernel \in KernelType
        /\ peer \in [Peers -> {"away", "waiting", "up", "gone", "reset"}]
        /\ inbox \in [Peers -> Inputs \cup {"empty"}]
        /\ output \in [Runs -> BOOLEAN]
        /\ at \in {"wait", "sweep", "events", "crashed"}
        /\ batch \subseteq (Fds \cup {ListenFd}) \X Masks
        /\ mistaken \in BOOLEAN
    BY TypeParts DEF Tables
  <1> DEFINE Rest == /\ peer \in [Peers -> {"away", "waiting", "up", "gone", "reset"}]
                     /\ inbox \in [Peers -> Inputs \cup {"empty"}]
                     /\ output \in [Runs -> BOOLEAN]
                     /\ at \in {"wait", "sweep", "events", "crashed"}
                     /\ batch \subseteq (Fds \cup {ListenFd}) \X Masks
                     /\ mistaken \in BOOLEAN
  <1> SUFFICES Tables' /\ Rest'
    BY TypeParts, PTL
  <1>1. CASE UNCHANGED vars
    BY <1>0, <1>1 DEF vars, Tables
  <1>2. ASSUME NEW p \in Peers, Connect(p) PROVE Tables' /\ Rest'
    BY <1>0, <1>2 DEF Connect, Tables
  <1>3. ASSUME NEW p \in Peers, NEW w \in Inputs, PeerSends(p, w) PROVE Tables' /\ Rest'
    BY <1>0, <1>3 DEF PeerSends, Tables
  <1>4. ASSUME NEW p \in Peers, NEW h \in {"gone", "reset"}, PeerLeaves(p, h)
        PROVE  Tables' /\ Rest'
    BY <1>0, <1>4 DEF PeerLeaves, Tables
  <1>5. ASSUME NEW q \in Runs, ChildWrites(q) PROVE Tables' /\ Rest'
    BY <1>0, <1>5 DEF ChildWrites, Tables
  <1>6. ASSUME NEW q \in Runs, ChildEnds(q) PROVE Tables' /\ Rest'
    <2>1. kernel' \in KernelType
      BY <1>0, <1>6, CloseTypes DEF ChildEnds
    <2> QED BY <1>0, <1>6, <2>1 DEF ChildEnds, Tables
  <1>7. CASE EpollWait
    <2>1. ReadyEvents \subseteq (Fds \cup {ListenFd}) \X Masks
      BY <1>0 DEF ReadyEvents, KernelType, Masks
    <2> QED BY <1>0, <1>7, <2>1 DEF EpollWait, Tables
  <1>8. CASE SweepDone
    BY <1>0, <1>8 DEF SweepDone, Tables
  <1>9. CASE EventsDone
    BY <1>0, <1>9 DEF EventsDone, Tables
  <1>10. CASE Accept
    <2>1. CASE UNCHANGED <<peer, kernel, conn>>
      BY <1>0, <1>10, <2>1 DEF Accept, TakeEvent, Tables
    <2>2. ASSUME NEW p \in Peers, NEW f \in Lowest(FreeFds(kernel), 1),
                 \/ /\ peer' = [peer EXCEPT ![p] = "up"]
                    /\ kernel' = CtlAdd(Open(kernel, f, p), f)
                    /\ conn' = [conn EXCEPT ![f] =
                          [left |-> 0, get |-> FALSE, busy |-> FALSE, shut |-> FALSE,
                           parser |-> TRUE, run |-> NoRun, fd |-> NoFd]]
                 \/ peer' = [peer EXCEPT ![p] = "gone"] /\ UNCHANGED <<kernel, conn>>
          PROVE  Tables' /\ Rest'
      <3>1. f \in Fds /\ p \in Objects
        BY DEF Lowest, FreeFds, Objects
      <3>2. CtlAdd(Open(kernel, f, p), f) \in KernelType
        <4>1. Open(kernel, f, p) \in KernelType /\ Open(kernel, f, p).fdt[f] \in Objects
          BY <1>0, <3>1, OpenTypes
        <4> QED BY <3>1, <4>1, OpenTypes
      <3>3. [left |-> 0, get |-> FALSE, busy |-> FALSE, shut |-> FALSE,
             parser |-> TRUE, run |-> NoRun, fd |-> NoFd] \in Conn
        BY EventLoopAssumption DEF Conn
      <3>4. conn' \in [Fds -> Conn \cup {NoConn}] /\ kernel' \in KernelType
        BY <1>0, <2>2, <3>1, <3>2, <3>3 DEF Tables
      <3> QED BY <1>0, <1>10, <2>2, <3>4 DEF Accept, TakeEvent, Tables
    <2> QED BY <1>10, <2>1, <2>2 DEF Accept
  <1>11. ASSUME NEW c \in Fds, Sweep(c) PROVE Tables' /\ Rest'
    <2>1. /\ conn[c] \in Conn /\ child' \in [Runs -> {"none", "running", "ended"}]
          /\ route' \in [Fds -> Fds \cup {NoFd}]
      BY <1>0, <1>11, EndTypes DEF Sweep
    <2>2. kernel' \in KernelType
      BY <1>0, <1>11, CloseTypes, CloseCgiType, ModType DEF Sweep, Masks
    <2>3. conn' \in [Fds -> Conn \cup {NoConn}]
      BY <1>0, <1>11, <2>1, AnswerTypes DEF Sweep
    <2> QED BY <1>0, <1>11, <2>1, <2>2, <2>3 DEF Sweep, Tables
  <1>12. ASSUME NEW f \in Fds, CgiEvent(f) PROVE Tables' /\ Rest'
    <2> DEFINE c == route[f]
    <2>0. c = route[f]
      OBVIOUS
    <2> HIDE DEF c
    <2>1. CASE UNCHANGED <<output, child, kernel, conn, route>>
      BY <1>0, <1>12, <2>1 DEF CgiEvent, TakeEvent, Tables
    <2>2. CASE ~(c = NoFd \/ conn[c] = NoConn \/ conn[c].run = NoRun)
      <3>1. c \in Fds /\ conn[c] \in Conn
        BY <1>0, <2>0, <2>2 DEF Tables
      <3>2. /\ UNCHANGED <<peer, inbox, at, mistaken>> /\ batch' \subseteq batch
            /\ output' \in [Runs -> BOOLEAN]
        BY <1>0, <1>12, <2>0, <2>2 DEF CgiEvent, TakeEvent
      <3>3. CASE /\ EndRun(c)
                 /\ kernel' = CtlMod(CtlDel(CloseCgi(kernel, c), f), c, "OUT")
                 /\ route' = Unroute(f)
                 /\ \E n \in 1..MaxLeft : conn' = [conn EXCEPT ![c] = [NoCgi(@) EXCEPT !.left = n]]
        <4>1. /\ child' \in [Runs -> {"none", "running", "ended"}]
              /\ route' \in [Fds -> Fds \cup {NoFd}]
          BY <1>0, <2>2, <3>1, <3>3, EndTypes
        <4>2. kernel' \in KernelType
          BY <1>0, <3>1, <3>3, CloseTypes, CloseCgiType, ModType DEF Masks
        <4>3. conn' \in [Fds -> Conn \cup {NoConn}]
          BY <1>0, <3>1, <3>3, AnswerTypes
        <4> QED BY <1>0, <3>2, <4>1, <4>2, <4>3 DEF Tables
      <3>4. CASE UNCHANGED <<child, kernel, conn, route>>
        BY <1>0, <3>2, <3>4 DEF Tables
      <3>5. CASE /\ kernel' = Close(kernel, conn[c].fd) /\ conn' = [conn EXCEPT ![c].fd = NoFd]
                 /\ UNCHANGED <<child, route>>
        <4>1. kernel' \in KernelType
          BY <1>0, <3>5, CloseTypes
        <4>2. conn' \in [Fds -> Conn \cup {NoConn}]
          <5>1. [conn[c] EXCEPT !.fd = NoFd] \in Conn
            BY <3>1 DEF Conn
          <5> QED BY <1>0, <3>1, <3>5, <5>1 DEF Tables
        <4> QED BY <1>0, <3>2, <3>5, <4>1, <4>2 DEF Tables
      <3> QED BY <1>12, <2>0, <2>2, <3>3, <3>4, <3>5 DEF CgiEvent
    <2> QED BY <1>12, <2>0, <2>1, <2>2 DEF CgiEvent
  <1>13. ASSUME NEW f \in Fds, ClientIn(f) PROVE Tables' /\ Rest'
    <2>1. /\ conn[f] # NoConn
          /\ UNCHANGED <<at, mistaken>> /\ batch' \subseteq batch
          /\ peer' \in [Peers -> {"away", "waiting", "up", "gone", "reset"}]
          /\ inbox' \in [Peers -> Inputs \cup {"empty"}]
      BY <1>0, <1>13, ClientInCases DEF TakeEvent
    <2>2. CASE UNCHANGED output /\ (RejectClient(f) \/ LoseClient(f) \/ DropClient(f))
      BY <1>0, <2>1, <2>2, EndTypes
    <2>3. CASE UNCHANGED <<output, child, kernel, conn, route>>
      BY <1>0, <2>1, <2>3 DEF Tables
    <2>4. CASE \E m \in Methods, s \in BOOLEAN : Handle(f, Begun(conn[f], m, s))
      BY <1>0, <2>1, <2>4, HandleTypes
    <2> QED BY <1>13, <2>2, <2>3, <2>4, ClientInCases
  <1>14. ASSUME NEW f \in Fds, ClientOut(f) PROVE Tables' /\ Rest'
    <2>1. /\ conn[f] # NoConn /\ conn[f] \in Conn
          /\ UNCHANGED <<inbox, output, mistaken>> /\ batch' \subseteq batch
      BY <1>0, <1>14 DEF ClientOut, TakeEvent, Tables
    <2>2. CASE at' = "crashed" /\ UNCHANGED <<peer, child, kernel, conn, route>>
      BY <1>0, <2>1, <2>2 DEF Tables
    <2>3. ASSUME UNCHANGED <<peer, at>>, UNCHANGED <<child, kernel, route>>,
                 NEW n \in 0..MaxLeft, conn' = [conn EXCEPT ![f].left = n]
          PROVE  Tables' /\ Rest'
      <3>1. [conn[f] EXCEPT !.left = n] \in Conn
        BY <2>1 DEF Conn
      <3> QED BY <1>0, <2>1, <2>3, <3>1 DEF Tables
    <2>4. CASE UNCHANGED <<peer, at>> /\ (DropClient(f) \/ (Complete(f) /\ UNCHANGED route))
      BY <1>0, <2>1, <2>4, EndTypes
    <2>5. 1..MaxLeft \subseteq 0..MaxLeft
      BY EventLoopAssumption
    <2>6. \/ at' = "crashed" /\ UNCHANGED <<peer, child, kernel, conn, route>>
          \/ /\ UNCHANGED <<peer, at>> /\ UNCHANGED <<child, kernel, route>>
             /\ \E n \in 1..MaxLeft : conn' = [conn EXCEPT ![f].left = n]
          \/ UNCHANGED <<peer, at>> /\ (DropClient(f) \/ (Complete(f) /\ UNCHANGED route))
      BY <1>14, <2>1, ClientOutCases
    <2> HIDE DEF Rest
    <2> QED BY <2>2, <2>3, <2>4, <2>5, <2>6
  <1> QED
    BY <1>1, <1>2, <1>3, <1>4, <1>5, <1>6, <1>7, <1>8, <1>9, <1>10, <1>11, <1>12, <1>13, <1>14
    DEF Next, Environment, Server

(* Type correctness, of the kernel's tables and the server's. *)
THEOREM TypeCorrect == Spec => []TypeOK
  <1>1. Init => TypeOK
    BY InitType
  <1>2. TypeOK /\ [Next]_vars => TypeOK'
    BY NextType
  <1> QED BY <1>1, <1>2, PTL DEF Spec

-----------------------------------------------------------------------------
(* The steps of Good: nothing of a connection changes, one changes, one      *)
(* goes, one comes, a script comes.                                         *)

(* M is L with mask m for what number f is registered for. *)
Moves(L, M, f, m) ==
    /\ M.fdt = L.fdt /\ M.held = L.held
    /\ \A r \in M.regs : IF r.fd = f /\ r.obj = L.fdt[f]
                         THEN r.mask = m /\ \E s \in L.regs : s.fd = f /\ s.obj = r.obj
                         ELSE r \in L.regs
    /\ \A r \in L.regs : IF r.fd = f /\ r.obj = L.fdt[f]
                         THEN \E s \in M.regs : s.fd = f /\ s.obj = r.obj
                         ELSE r \in M.regs

(* EPOLL_CTL_MOD does that. *)
LEMMA ModMoves ==
    ASSUME NEW L \in KernelType, NEW f \in Fds, NEW m \in Masks
    PROVE  Moves(L, CtlMod(L, f, m), f, m)
  <1> DEFINE M == CtlMod(L, f, m)
  <1>1. /\ M.fdt = L.fdt /\ M.held = L.held
        /\ M.regs = {IF r.fd = f /\ r.obj = L.fdt[f]
                     THEN [r EXCEPT !.mask = m] ELSE r : r \in L.regs}
    BY DEF KernelType, CtlMod
  <1> HIDE DEF M
  <1>2. \A r \in L.regs : [r EXCEPT !.mask = m] = [fd |-> r.fd, obj |-> r.obj, mask |-> m]
    BY DEF KernelType
  <1>3. \A r \in M.regs : IF r.fd = f /\ r.obj = L.fdt[f]
                          THEN r.mask = m /\ \E s \in L.regs : s.fd = f /\ s.obj = r.obj
                          ELSE r \in L.regs
    BY <1>1, <1>2
  <1>4. \A r \in L.regs : IF r.fd = f /\ r.obj = L.fdt[f]
                          THEN \E s \in M.regs : s.fd = f /\ s.obj = r.obj
                          ELSE r \in M.regs
    <2> TAKE r \in L.regs
    <2>1. CASE r.fd = f /\ r.obj = L.fdt[f]
      <3> DEFINE s == [r EXCEPT !.mask = m]
      <3>1. s \in M.regs
        BY <1>1, <2>1
      <3>2. s.fd = f /\ s.obj = r.obj
        BY <1>2, <2>1
      <3> HIDE DEF s
      <3> QED BY <2>1, <3>1, <3>2
    <2>2. CASE ~(r.fd = f /\ r.obj = L.fdt[f])
      <3>1. r \in M.regs
        BY <1>1, <2>2
      <3> QED BY <2>2, <3>1
    <2> QED BY <2>1, <2>2
  <1> QED BY <1>1, <1>3, <1>4 DEF Moves, M

(* What is left of the batch, and peers that do not come back.              *)
Calm == /\ batch' \subseteq batch /\ at' # "crashed"
        /\ \A p \in Peers : peer'[p] \in {"away", "waiting"} => peer[p] \in {"away", "waiting"}
        /\ \A g \in Fds : route'[g] \in {route[g], NoFd}

(* Nothing of a connection changes. *)
LEMMA Quiet ==
    ASSUME TypeOK, Good, Keeps(kernel, kernel', {}), conn' = conn, Calm
    PROVE  Good'
  <1>1. /\ \A g \in Fds : Fdt'[g] \in Objects => Fdt[g] = Fdt'[g]
        /\ \A g \in Fds : Fdt[g] \in Objects => Fdt'[g] = Fdt[g]
        /\ kernel'.regs \subseteq kernel.regs
        /\ \A r \in kernel.regs : r.obj \in Peers /\ Fdt'[r.fd] = r.obj => r \in kernel'.regs
        /\ \A r \in kernel'.regs : IsOpen(kernel, r.obj) => IsOpen(kernel', r.obj)
    BY DEF Keeps, Fdt
  <1>2. \A f \in Fds : /\ Fdt[f] \in Peers <=> Fdt'[f] \in Peers
                       /\ Fdt[f] \in Runs <=> Fdt'[f] \in Runs
    BY <1>1 DEF Objects
  <1>3. \A r \in kernel.regs : r.fd \in Fds /\ r.obj \in Objects /\ r.mask \in Masks
    BY DEF TypeOK
  <1>4. Sockets'
    BY <1>1, <1>2 DEF Good, Sockets, Client, Calm, Objects
  <1>5. Pipes'
    <2>1. \A f \in Fds : Client(f) /\ conn[f].fd # NoFd => conn[f].fd \in Fds /\ conn[f].run \in Runs
      BY DEF Good, Pipes, Client, TypeOK, Conn
    <2> QED BY <1>1, <1>2, <2>1 DEF Good, Pipes, Client, Objects
  <1>6. Watched'
    BY <1>1, <1>2, <1>3 DEF Good, Watched, Sockets, Client, Objects
  <1>7. Piped'
    BY <1>1, <1>2, <1>3 DEF Good, Piped, Client, Objects, Calm
  <1>8. Masked' /\ Heard'
    BY <1>1 DEF Good, Masked, Heard, Client
  <1>9. Batched'
    <2> SUFFICES ASSUME NEW f \in Fds
                 PROVE  /\ <<f, "OUT">> \in batch' =>
                              /\ Client(f)' /\ (conn'[f].left > 0 \/ conn'[f].busy)
                              /\ <<f, "IN">> \notin batch'
                              /\ \A r \in kernel'.regs : r.fd = f /\ r.obj = Fdt'[f] => r.mask = "OUT"
                        /\ <<f, "IN">> \in batch' /\ Client(f)' => conn'[f].parser
      BY DEF Batched
    <2>1. Client(f)' <=> Client(f)
      BY DEF Client
    <2>2. Client(f) => Fdt'[f] = Fdt[f]
      BY <1>1 DEF Good, Sockets, Objects
    <2> QED BY <1>1, <2>1, <2>2 DEF Good, Batched, Calm
  <1> QED BY <1>4, <1>5, <1>6, <1>7, <1>8, <1>9 DEF Good, Calm

(* What the record of a connection may become when the numbers S, none or   *)
(* that of its script's pipe, were given back.                              *)
Fits(old, new, S) ==
    /\ S \subseteq {old.fd}
    /\ \/ new.run = old.run /\ new.fd = old.fd /\ old.fd \notin S
       \/ new.run = old.run /\ new.fd = NoFd /\ old.fd \in S /\ old.run # NoRun
       \/ new.run = NoRun /\ new.fd = NoFd /\ (old.fd \in S \/ old.fd = NoFd)
    /\ ~new.parser => new.shut
    /\ new.left > 0 /\ new.parser => new.busy
    /\ new.run # NoRun => new.busy

(* And the mask it calls for. *)
Suits(new, m) ==
    /\ new.left > 0 => m = "OUT"
    /\ m = "OUT" => (new.left > 0 \/ new.busy) /\ (new.run = NoRun \/ new.shut)
    /\ m = "IN" => new.parser

(* One connection changes. *)
LEMMA Update ==
    ASSUME TypeOK, TypeOK', Good, Calm,
           NEW f \in Fds, Client(f), NEW new \in Conn, conn' = [conn EXCEPT ![f] = new],
           NEW S, NEW L, Keeps(kernel, L, S), NEW m \in Masks, Moves(L, kernel', f, m),
           Fits(conn[f], new, S), Suits(new, m),
           <<f, "OUT">> \in batch' => m = "OUT", <<f, "IN">> \in batch' => new.parser
    PROVE  Good'
  <1>1. /\ \A g \in Fds : Fdt'[g] \in Objects => g \notin S /\ Fdt[g] = Fdt'[g]
        /\ \A g \in Fds \ S : Fdt[g] \in Objects => Fdt'[g] = Fdt[g]
    BY DEF Keeps, Fdt, Moves
  <1>2. /\ \A r \in kernel.regs : r.fd \in Fds /\ r.obj \in Objects /\ r.mask \in Masks
        /\ L \in KernelType
    BY DEF TypeOK, Keeps
  <1>3. /\ conn[f] \in Conn /\ new # NoConn
        /\ conn'[f] = new /\ \A g \in Fds : g # f => conn'[g] = conn[g]
        /\ \A g \in Fds : Client(g)' <=> Client(g)
    BY DistinctAssumption DEF TypeOK, Client
  <1>4. \A g \in Fds : g \in S => g = conn[f].fd /\ Fdt[g] = conn[f].run /\ Fdt[g] \in Runs
    <2>1. NoFd \notin Fds
      BY EventLoopAssumption DEF NoFd, Fds
    <2>2. \A g \in Fds : g \in S => g = conn[f].fd /\ g # NoFd
      BY <2>1 DEF Fits
    <2>3. conn[f].fd # NoFd => Fdt[conn[f].fd] = conn[f].run /\ conn[f].run # NoRun
      BY DEF Good, Pipes
    <2>4. conn[f].run # NoRun => conn[f].run \in Runs
      BY <1>3 DEF Conn
    <2> QED BY <2>2, <2>3, <2>4
  <1>5. f \notin S /\ Fdt[f] \in Peers /\ Fdt'[f] = Fdt[f] /\ L.fdt[f] = Fdt[f]
    <2>1. Fdt[f] \in Peers /\ f \notin S
      BY <1>4, DistinctAssumption DEF Good, Sockets
    <2> QED BY <2>1, <1>1 DEF Objects, Moves, Fdt
  <1>6. \A g \in Fds : Fdt[g] \in Peers <=> Fdt'[g] \in Peers
    BY <1>1, <1>4, DistinctAssumption DEF Objects
  <1>7. Sockets'
    BY <1>1, <1>3, <1>6 DEF Good, Sockets, Calm, Objects
  <1>8. Pipes'
    <2>1. \A g \in Fds : Client(g)' /\ conn'[g].run = NoRun => conn'[g].fd = NoFd
      BY <1>3 DEF Good, Pipes, Fits
    <2>2. \A g \in Fds : Client(g)' /\ conn'[g].fd # NoFd => Fdt'[conn'[g].fd] = conn'[g].run
      <3> SUFFICES ASSUME NEW g \in Fds, Client(g), conn'[g].fd # NoFd
                   PROVE  Fdt'[conn'[g].fd] = conn'[g].run
        BY <1>3
      <3>1. /\ conn'[g].fd = conn[g].fd /\ conn'[g].run = conn[g].run
            /\ g = f => conn[g].fd \notin S
        BY <1>3 DEF Fits
      <3>2. conn[g].fd \in Fds /\ Fdt[conn[g].fd] = conn[g].run /\ conn[g].run \in Runs
        BY <3>1 DEF Good, Pipes, TypeOK, Conn, Client
      <3>3. g # f => conn[g].fd \notin S
        BY <1>4, <3>2, DistinctAssumption DEF Good, Pipes
      <3> QED BY <3>1, <3>2, <3>3, <1>1 DEF Objects
    <2>3. \A g, h \in Fds : Client(g)' /\ Client(h)' /\ conn'[g].run # NoRun
                             /\ conn'[g].run = conn'[h].run => g = h
      BY <1>3 DEF Good, Pipes, Fits
    <2>4. \A g \in Fds : Fdt'[g] \in Runs =>
             \E c \in Fds : Client(c)' /\ conn'[c].run = Fdt'[g] /\ conn'[c].fd = g
      <3> SUFFICES ASSUME NEW g \in Fds, Fdt'[g] \in Runs
                   PROVE  \E c \in Fds : Client(c)' /\ conn'[c].run = Fdt'[g] /\ conn'[c].fd = g
        OBVIOUS
      <3>1. Fdt[g] = Fdt'[g] /\ g \notin S
        BY <1>1 DEF Objects
      <3>2. PICK c \in Fds : Client(c) /\ conn[c].run = Fdt[g] /\ conn[c].fd = g
        BY <3>1 DEF Good, Pipes
      <3>3. g # NoFd
        BY EventLoopAssumption DEF NoFd, Fds
      <3>4. c = f => new.run = conn[c].run /\ new.fd = g
        BY <3>1, <3>2, <3>3 DEF Fits
      <3> QED BY <3>1, <3>2, <3>4, <1>3
    <2> QED BY <2>1, <2>2, <2>3, <2>4 DEF Pipes
  (* Registrations: those of f have mask m, the others are as before. *)
  <1>9. /\ \A r \in kernel'.regs : r.obj \in Peers =>
               Fdt'[r.fd] = r.obj /\ IF r.fd = f THEN r.mask = m ELSE r \in kernel.regs
        /\ \A r \in kernel'.regs : r.obj \in Runs => r \in L.regs /\ r \in kernel.regs
        /\ \A r \in kernel'.regs : r.fd \in Fds /\ r.obj \in Objects /\ r.mask \in Masks
        /\ \A r \in kernel.regs : r.obj \in Peers =>
               \E s \in kernel'.regs : s.fd = r.fd /\ s.obj = r.obj
    <2>1. /\ \A r \in kernel'.regs : IF r.fd = f /\ r.obj = Fdt[f]
                                     THEN r.mask = m /\ \E s \in L.regs : s.fd = f /\ s.obj = r.obj
                                     ELSE r \in L.regs
          /\ \A r \in L.regs : IF r.fd = f /\ r.obj = Fdt[f]
                               THEN \E s \in kernel'.regs : s.fd = f /\ s.obj = r.obj
                               ELSE r \in kernel'.regs
      BY <1>5 DEF Moves
    <2>2. /\ L.regs \subseteq kernel.regs
          /\ \A r \in kernel.regs : r.obj \in Peers /\ L.fdt[r.fd] = r.obj => r \in L.regs
      BY DEF Keeps
    <2>3. \A r \in kernel.regs : r.obj \in Peers => Fdt[r.fd] = r.obj /\ L.fdt[r.fd] = r.obj
      <3>1. \A g \in Fds : L.fdt[g] = Fdt'[g]
        BY DEF Moves, Fdt
      <3> QED BY <1>1, <1>2, <1>4, <3>1, DistinctAssumption DEF Good, Watched, Objects
    <2>4. \A r \in kernel'.regs : r.obj \in Runs => r \in L.regs /\ r \in kernel.regs
      BY <2>1, <2>2, <1>5, DistinctAssumption
    <2>5. \A r \in kernel'.regs : r.fd \in Fds /\ r.obj \in Objects /\ r.mask \in Masks
      BY <2>1, <2>2, <1>2, <1>5 DEF Objects
    <2>6. \A r \in kernel'.regs : r.obj \in Peers =>
             Fdt'[r.fd] = r.obj /\ IF r.fd = f THEN r.mask = m ELSE r \in kernel.regs
      <3>1. \A g \in Fds : L.fdt[g] = Fdt'[g]
        BY DEF Moves, Fdt
      <3> QED BY <2>1, <2>2, <2>3, <1>5, <1>2, <3>1
    <2>7. \A r \in kernel.regs : r.obj \in Peers =>
             \E s \in kernel'.regs : s.fd = r.fd /\ s.obj = r.obj
      <3> TAKE r \in kernel.regs
      <3> HAVE r.obj \in Peers
      <3>1. r \in L.regs
        BY <2>2, <2>3
      <3> QED BY <3>1, <2>1
    <2> QED BY <2>4, <2>5, <2>6, <2>7
  <1>10. Watched'
    <2>1. \A g \in Fds : Client(g)' => \E r \in kernel'.regs : r.fd = g /\ r.obj = Fdt'[g]
      <3> TAKE g \in Fds
      <3> HAVE Client(g)'
      <3>1. Fdt[g] \in Peers /\ Fdt'[g] = Fdt[g]
        BY <1>1, <1>3, <1>4, DistinctAssumption DEF Good, Sockets, Objects
      <3>2. PICK r \in kernel.regs : r.fd = g /\ r.obj = Fdt[g]
        BY <1>3 DEF Good, Watched
      <3> QED BY <3>1, <3>2, <1>9
    <2>2. \A r, s \in kernel'.regs : r.obj \in Peers /\ r.fd = s.fd /\ r.obj = s.obj => r = s
      <3> TAKE r, s \in kernel'.regs
      <3> HAVE r.obj \in Peers /\ r.fd = s.fd /\ r.obj = s.obj
      <3>1. r \in [fd : Fds, obj : Objects, mask : Masks] /\ s \in [fd : Fds, obj : Objects, mask : Masks]
        BY DEF TypeOK
      <3>2. CASE r.fd = f
        <4>1. r.mask = m /\ s.mask = m
          BY <1>9, <3>2
        <4>2. /\ r = [fd |-> r.fd, obj |-> r.obj, mask |-> r.mask]
              /\ s = [fd |-> s.fd, obj |-> s.obj, mask |-> s.mask]
          BY <3>1
        <4> QED BY <4>1, <4>2
      <3>3. CASE r.fd # f
        BY <1>9, <3>3 DEF Good, Watched
      <3> QED BY <3>2, <3>3
    <2> QED BY <2>1, <2>2, <1>9 DEF Watched
  <1>11. Piped'
    <2>1. \A r \in kernel'.regs : r.obj \in Runs => r.mask = "IN" /\ IsOpen(kernel', r.obj)
      <3>1. \A o : IsOpen(L, o) <=> IsOpen(kernel', o)
        BY DEF Moves, IsOpen
      <3> QED BY <1>9, <3>1 DEF Good, Piped, Keeps
    <2>2. ASSUME NEW r \in kernel'.regs, r.obj \in Runs, Fdt'[r.fd] = r.obj, route'[r.fd] # NoFd
          PROVE  conn'[route'[r.fd]] # NoConn /\ conn'[route'[r.fd]].run = r.obj
      <3>1. r \in kernel.regs /\ r.fd \in Fds
        BY <1>9, <2>2
      <3>2. Fdt[r.fd] = r.obj /\ r.fd \notin S
        BY <1>1, <2>2, <3>1 DEF Objects
      <3>3. route'[r.fd] = route[r.fd] /\ route[r.fd] \in Fds
        BY <2>2, <3>1 DEF Calm, TypeOK
      <3>4. Client(route[r.fd]) /\ conn[route[r.fd]].run = r.obj
        BY <2>2, <3>1, <3>2, <3>3 DEF Good, Piped
      <3>5. route[r.fd] = f => new.run = r.obj
        <4> HAVE route[r.fd] = f
        <4>1. PICK c \in Fds : Client(c) /\ conn[c].run = r.obj /\ conn[c].fd = r.fd
          BY <2>2, <3>1, <3>2 DEF Good, Pipes
        <4>2. c = f
          BY <3>4, <4>1, <2>2, DistinctAssumption DEF Good, Pipes
        <4>3. r.fd # NoFd
          BY <3>1, EventLoopAssumption DEF NoFd, Fds
        <4> QED BY <4>1, <4>2, <4>3, <3>2 DEF Fits
      <3> QED BY <3>3, <3>4, <3>5, <1>3 DEF Client
    <2> QED BY <2>1, <2>2 DEF Piped, Client
  <1>12. Masked'
    <2> SUFFICES ASSUME NEW r \in kernel'.regs, r.obj \in Peers
                 PROVE  /\ conn'[r.fd].left > 0 => r.mask = "OUT"
                        /\ r.mask = "OUT" => conn'[r.fd].left > 0 \/ conn'[r.fd].busy
                        /\ r.mask = "OUT" => conn'[r.fd].run = NoRun \/ conn'[r.fd].shut
                        /\ r.mask = "IN" => conn'[r.fd].parser
      BY DEF Masked
    <2>1. CASE r.fd = f
      BY <1>3, <1>9, <2>1 DEF Suits
    <2>2. CASE r.fd # f
      BY <1>3, <1>9, <2>2 DEF Good, Masked
    <2> QED BY <2>1, <2>2
  <1>13. Heard'
    BY <1>3 DEF Good, Heard, Fits
  <1>14. Batched'
    <2> SUFFICES ASSUME NEW g \in Fds
                 PROVE  /\ <<g, "OUT">> \in batch' =>
                              /\ Client(g)' /\ (conn'[g].left > 0 \/ conn'[g].busy)
                              /\ <<g, "IN">> \notin batch'
                              /\ \A r \in kernel'.regs : r.fd = g /\ r.obj = Fdt'[g] => r.mask = "OUT"
                        /\ <<g, "IN">> \in batch' /\ Client(g)' => conn'[g].parser
      BY DEF Batched
    <2>1. Client(g) => Fdt'[g] = Fdt[g] /\ Fdt[g] \in Peers
      BY <1>1, <1>4, DistinctAssumption DEF Good, Sockets, Objects
    <2>2. CASE g = f
      BY <2>1, <2>2, <1>3, <1>9 DEF Good, Batched, Suits, Calm
    <2>3. CASE g # f
      BY <2>1, <2>3, <1>3, <1>9 DEF Good, Batched, Calm
    <2> QED BY <2>2, <2>3
  <1> QED BY <1>7, <1>8, <1>10, <1>11, <1>12, <1>13, <1>14 DEF Good, Calm

(* One connection goes, with the numbers S: its own and its script's. *)
LEMMA Remove ==
    ASSUME TypeOK, Good, Calm,
           NEW f \in Fds, Client(f), conn' = [conn EXCEPT ![f] = NoConn],
           Keeps(kernel, kernel', {f, conn[f].fd}),
           \A r \in kernel'.regs : r.fd # f \/ r.obj # Fdt[f],
           <<f, "OUT">> \notin batch'
    PROVE  Good'
  <1> DEFINE S == {f, conn[f].fd}
  <1>1. /\ \A g \in Fds : Fdt'[g] \in Objects => g \notin S /\ Fdt[g] = Fdt'[g]
        /\ \A g \in Fds \ S : Fdt[g] \in Objects => Fdt'[g] = Fdt[g]
        /\ kernel'.regs \subseteq kernel.regs
        /\ \A r \in kernel.regs : r.obj \in Peers /\ Fdt'[r.fd] = r.obj => r \in kernel'.regs
        /\ \A r \in kernel'.regs : IsOpen(kernel, r.obj) => IsOpen(kernel', r.obj)
    BY DEF Keeps, Fdt
  <1>2. \A r \in kernel.regs : r.fd \in Fds /\ r.obj \in Objects /\ r.mask \in Masks
    BY DEF TypeOK
  <1>3. /\ ~Client(f)' /\ \A g \in Fds : g # f => conn'[g] = conn[g] /\ (Client(g)' <=> Client(g))
    BY DEF TypeOK, Client
  <1>4. \A g \in Fds : g \in S /\ g # f => g = conn[f].fd /\ Fdt[g] = conn[f].run /\ Fdt[g] \in Runs
    <2>1. NoFd \notin Fds
      BY EventLoopAssumption DEF NoFd, Fds
    <2>2. conn[f].fd # NoFd => Fdt[conn[f].fd] = conn[f].run /\ conn[f].run # NoRun
      BY DEF Good, Pipes
    <2>3. conn[f].run # NoRun => conn[f].run \in Runs
      BY DEF TypeOK, Conn, Client
    <2> QED BY <2>1, <2>2, <2>3
  <1>5. \A g \in Fds : Fdt'[g] \in Peers <=> Fdt[g] \in Peers /\ g # f
    BY <1>1, <1>4, DistinctAssumption DEF Objects
  <1>6. Sockets'
    BY <1>1, <1>3, <1>5 DEF Good, Sockets, Calm, Objects
  <1>7. Pipes'
    <2>1. \A g \in Fds : Client(g)' /\ conn'[g].run = NoRun => conn'[g].fd = NoFd
      BY <1>3 DEF Good, Pipes
    <2>2. ASSUME NEW g \in Fds, Client(g)', conn'[g].fd # NoFd
          PROVE  Fdt'[conn'[g].fd] = conn'[g].run
      <3>1. g # f /\ Client(g) /\ conn'[g] = conn[g]
        BY <1>3, <2>2
      <3>2. conn[g].fd \in Fds /\ Fdt[conn[g].fd] = conn[g].run /\ conn[g].run \in Runs
        BY <2>2, <3>1 DEF Good, Pipes, TypeOK, Conn, Client
      <3>3. conn[g].fd \notin S
        BY <1>4, <3>1, <3>2, DistinctAssumption DEF Good, Pipes, Sockets
      <3> QED BY <3>1, <3>2, <3>3, <1>1 DEF Objects
    <2>3. \A g, h \in Fds : Client(g)' /\ Client(h)' /\ conn'[g].run # NoRun
                             /\ conn'[g].run = conn'[h].run => g = h
      BY <1>3 DEF Good, Pipes
    <2>4. ASSUME NEW g \in Fds, Fdt'[g] \in Runs
          PROVE  \E c \in Fds : Client(c)' /\ conn'[c].run = Fdt'[g] /\ conn'[c].fd = g
      <3>1. Fdt[g] = Fdt'[g] /\ g \notin S
        BY <1>1, <2>4 DEF Objects
      <3>2. PICK c \in Fds : Client(c) /\ conn[c].run = Fdt[g] /\ conn[c].fd = g
        BY <2>4, <3>1 DEF Good, Pipes
      <3> QED BY <3>1, <3>2, <1>3
    <2> QED BY <2>1, <2>2, <2>3, <2>4 DEF Pipes
  <1>8. \A r \in kernel'.regs : r.obj \in Peers => r.fd # f /\ Fdt'[r.fd] = r.obj
    BY <1>1, <1>2, <1>4, DistinctAssumption DEF Good, Watched, Objects
  <1>9. Watched'
    <2>1. ASSUME NEW g \in Fds, Client(g)'
          PROVE  \E r \in kernel'.regs : r.fd = g /\ r.obj = Fdt'[g]
      <3>1. g # f /\ Client(g) /\ Fdt[g] \in Peers /\ Fdt'[g] = Fdt[g]
        BY <1>1, <1>3, <1>4, <2>1, DistinctAssumption DEF Good, Sockets, Objects
      <3>2. PICK r \in kernel.regs : r.fd = g /\ r.obj = Fdt[g]
        BY <3>1 DEF Good, Watched
      <3> QED BY <3>1, <3>2, <1>1
    <2> QED BY <1>1, <1>8, <2>1 DEF Good, Watched
  <1>10. Piped'
    <2>1. \A r \in kernel'.regs : r.obj \in Runs => r.mask = "IN" /\ IsOpen(kernel', r.obj)
      BY <1>1 DEF Good, Piped
    <2>2. ASSUME NEW r \in kernel'.regs, r.obj \in Runs, Fdt'[r.fd] = r.obj, route'[r.fd] # NoFd
          PROVE  conn'[route'[r.fd]] # NoConn /\ conn'[route'[r.fd]].run = r.obj
      <3>1. r \in kernel.regs /\ r.fd \in Fds
        BY <1>1, <1>2
      <3>2. Fdt[r.fd] = r.obj /\ r.fd \notin S
        BY <1>1, <2>2, <3>1 DEF Objects
      <3>3. route'[r.fd] = route[r.fd] /\ route[r.fd] \in Fds
        BY <2>2, <3>1 DEF Calm, TypeOK
      <3>4. Client(route[r.fd]) /\ conn[route[r.fd]].run = r.obj
        BY <2>2, <3>1, <3>2, <3>3 DEF Good, Piped
      <3>5. PICK c \in Fds : Client(c) /\ conn[c].run = r.obj /\ conn[c].fd = r.fd
        BY <2>2, <3>1, <3>2 DEF Good, Pipes
      <3>6. c = route[r.fd]
        BY <3>3, <3>4, <3>5, <2>2, DistinctAssumption DEF Good, Pipes
      <3>7. route[r.fd] # f
        BY <3>2, <3>5, <3>6
      <3> QED BY <3>3, <3>4, <3>7, <1>3 DEF Client
    <2> QED BY <2>1, <2>2 DEF Piped, Client
  <1>11. Masked'
    BY <1>1, <1>2, <1>3, <1>8 DEF Good, Masked
  <1>12. Heard'
    BY <1>3 DEF Good, Heard
  <1>13. Batched'
    <2> SUFFICES ASSUME NEW g \in Fds
                 PROVE  /\ <<g, "OUT">> \in batch' =>
                              /\ Client(g)' /\ (conn'[g].left > 0 \/ conn'[g].busy)
                              /\ <<g, "IN">> \notin batch'
                              /\ \A r \in kernel'.regs : r.fd = g /\ r.obj = Fdt'[g] => r.mask = "OUT"
                        /\ <<g, "IN">> \in batch' /\ Client(g)' => conn'[g].parser
      BY DEF Batched
    <2>1. CASE g = f
      BY <2>1, <1>3
    <2>2. CASE g # f
      <3>1. Client(g) => Fdt'[g] = Fdt[g]
        BY <1>1, <1>4, <2>2, DistinctAssumption DEF Good, Sockets, Objects
      <3> QED BY <2>2, <3>1, <1>1, <1>3 DEF Good, Batched, Calm
    <2> QED BY <2>1, <2>2
  <1> QED BY <1>6, <1>7, <1>9, <1>10, <1>11, <1>12, <1>13 DEF Good, Calm

(* A connection's numbers: a socket, and the pipe of its script or none.    *)
LEMMA Numbers ==
    ASSUME TypeOK, Good, NEW f \in Fds, Client(f)
    PROVE  /\ kernel \in KernelType /\ conn[f] \in Conn
           /\ Fdt[f] \in Peers /\ Fdt[f] \in Objects
           /\ conn[f].run = NoRun => conn[f].fd = NoFd
           /\ conn[f].fd \in Fds \cup {NoFd} /\ conn[f].fd # f /\ NoFd \notin Fds
           /\ conn[f].fd \in Fds => Fdt[conn[f].fd] = conn[f].run /\ Fdt[conn[f].fd] \notin Peers
  <1>1. kernel \in KernelType /\ conn[f] \in Conn
    BY DEF TypeOK, KernelType, Client
  <1>2. Fdt[f] \in Peers /\ Fdt[f] \in Objects
    BY DEF Good, Sockets, Objects
  <1>3. conn[f].run = NoRun => conn[f].fd = NoFd
    BY DEF Good, Pipes
  <1>4. NoFd \notin Fds
    BY EventLoopAssumption DEF NoFd, Fds
  <1>5. conn[f].fd \in Fds => Fdt[conn[f].fd] = conn[f].run /\ Fdt[conn[f].fd] \notin Peers
    <2> HAVE conn[f].fd \in Fds
    <2>1. conn[f].fd # NoFd /\ conn[f].run \in Runs
      BY <1>1, <1>3, <1>4 DEF Conn
    <2>2. Fdt[conn[f].fd] = conn[f].run
      BY <2>1 DEF Good, Pipes
    <2> QED BY <2>1, <2>2, DistinctAssumption
  <1> QED BY <1>1, <1>2, <1>3, <1>4, <1>5 DEF Conn

(* The kernel after close_cgi and EPOLL_CTL_DEL of a number that is no      *)
(* client's: what a script's event or its failure leave.                    *)
LEMMA KeepsAnswer ==
    ASSUME TypeOK, Good, NEW c \in Fds, Client(c), NEW g, g \in Fds => Fdt[g] \notin Peers
    PROVE  Keeps(kernel, CtlDel(CloseCgi(kernel, c), g), {conn[c].fd})
  <1> DEFINE K == CloseCgi(kernel, c)
  <1>1. Keeps(kernel, K, {conn[c].fd})
    BY Numbers, KeepsCloseCgi
  <1> HIDE DEF K
  <1>2. K \in KernelType /\ (g \in Fds => K.fdt[g] \notin Peers)
    BY <1>1 DEF Keeps, Objects, Fdt
  <1>3. Keeps(K, CtlDel(K, g), {})
    BY <1>2, KeepsDel
  <1>4. Keeps(kernel, CtlDel(K, g), {conn[c].fd} \cup {})
    BY <1>1, <1>3, KeepsTrans, Numbers
  <1> QED BY <1>4 DEF K

(* The kernel after close_cgi, EPOLL_CTL_DEL and close of a client.         *)
LEMMA KeepsEndClient ==
    ASSUME TypeOK, Good, NEW f \in Fds, Client(f), NEW K, Keeps(kernel, K, {})
    PROVE  /\ Keeps(kernel, Close(CtlDel(CloseCgi(K, f), f), f), {f, conn[f].fd})
           /\ \A r \in Close(CtlDel(CloseCgi(K, f), f), f).regs : r.fd # f \/ r.obj # Fdt[f]
  <1> DEFINE L == CloseCgi(K, f)
             M == Close(CtlDel(L, f), f)
  <1>0. kernel \in KernelType /\ K \in KernelType
    BY Numbers DEF Keeps
  <1>1. Keeps(K, L, {conn[f].fd})
    BY <1>0, Numbers, KeepsCloseCgi
  <1> HIDE DEF L
  <1>2. Keeps(kernel, L, {} \cup {conn[f].fd})
    BY <1>0, <1>1, KeepsTrans
  <1>3. L \in KernelType /\ L.fdt[f] = Fdt[f]
    BY <1>2, Numbers DEF Keeps, Fdt
  <1>4. Keeps(L, M, {f}) /\ \A r \in M.regs : r.fd # f \/ r.obj # L.fdt[f]
    BY <1>3, KeepsDelClose
  <1> HIDE DEF M
  <1>5. Keeps(kernel, M, ({} \cup {conn[f].fd}) \cup {f})
    BY <1>0, <1>2, <1>4, KeepsTrans
  <1>6. ({} \cup {conn[f].fd}) \cup {f} = {f, conn[f].fd}
    OBVIOUS
  <1> QED BY <1>3, <1>4, <1>5, <1>6 DEF M, L

(* DropClient, and Complete of a connection to be closed. *)
LEMMA DropGood ==
    ASSUME TypeOK, Good, NEW f \in Fds, Client(f), Calm, <<f, "OUT">> \notin batch',
           DropClient(f) \/ (conn[f].shut /\ Complete(f))
    PROVE  Good'
  <1>1. conn' = [conn EXCEPT ![f] = NoConn]
    BY DEF DropClient, Complete
  <1>2. \E K : Keeps(kernel, K, {}) /\ kernel' = Close(CtlDel(CloseCgi(K, f), f), f)
    <2>1. CASE DropClient(f)
      <3>1. Keeps(kernel, CtlDel(kernel, conn[f].fd), {})
        BY Numbers, KeepsDel DEF Fdt
      <3> QED BY <2>1, <3>1 DEF DropClient
    <2>2. CASE conn[f].shut /\ Complete(f)
      <3>1. Keeps(kernel, kernel, {})
        BY Numbers, KeepsSelf
      <3> QED BY <2>2, <3>1 DEF Complete
    <2> QED BY <2>1, <2>2
  <1>3. PICK K : Keeps(kernel, K, {}) /\ kernel' = Close(CtlDel(CloseCgi(K, f), f), f)
    BY <1>2
  <1>4. /\ Keeps(kernel, kernel', {f, conn[f].fd})
        /\ \A r \in kernel'.regs : r.fd # f \/ r.obj # Fdt[f]
    BY <1>3, KeepsEndClient
  <1> QED BY <1>1, <1>4, Remove

(* A connection comes: a free number, and a peer known nowhere before.      *)
LEMMA Accepted ==
    ASSUME TypeOK, TypeOK', Good, Calm, NEW p \in Peers, peer[p] = "waiting",
           NEW f \in Fds, Fdt[f] = Free, peer' = [peer EXCEPT ![p] = "up"],
           kernel' = CtlAdd(Open(kernel, f, p), f), UNCHANGED route,
           NEW new, conn' = [conn EXCEPT ![f] = new], new # NoConn,
           new.left = 0, new.parser, ~new.shut, new.run = NoRun, new.fd = NoFd
    PROVE  Good'
  <1>1. /\ kernel'.fdt = [kernel.fdt EXCEPT ![f] = p] /\ kernel'.held = kernel.held
        /\ kernel'.regs = kernel.regs \cup {[fd |-> f, obj |-> p, mask |-> "IN"]}
    BY DEF TypeOK, CtlAdd, Open
  <1>2. /\ Fdt'[f] = p /\ \A g \in Fds : g # f => Fdt'[g] = Fdt[g]
    BY <1>1 DEF TypeOK, Fdt
  <1>3. \A r \in kernel.regs : r.fd \in Fds /\ r.obj \in Objects /\ r.mask \in Masks
    BY DEF TypeOK
  <1>4. \A g \in Fds : Fdt[g] # p
    BY DEF Good, Sockets
  <1>5. /\ conn'[f] = new /\ \A g \in Fds : g # f => conn'[g] = conn[g]
        /\ ~Client(f) /\ Client(f)' /\ \A g \in Fds : g # f => (Client(g)' <=> Client(g))
    BY DistinctAssumption DEF TypeOK, Client, Good, Sockets
  <1>6. \A r \in kernel.regs : r.obj \in Peers => r.obj # p /\ r.fd # f /\ Fdt'[r.fd] = r.obj
    BY <1>2, <1>3, <1>4, DistinctAssumption DEF Good, Watched
  <1>7. Sockets'
    BY <1>2, <1>4, <1>5, DistinctAssumption DEF Good, Sockets, Objects, TypeOK
  <1>8. Pipes'
    <2>1. ASSUME NEW g \in Fds, Client(g)', conn'[g].fd # NoFd
          PROVE  Fdt'[conn'[g].fd] = conn'[g].run
      <3>1. g # f /\ Client(g) /\ conn'[g] = conn[g]
        BY <1>5, <2>1
      <3>2. conn[g].fd \in Fds /\ Fdt[conn[g].fd] = conn[g].run /\ conn[g].run \in Runs
        BY <2>1, <3>1 DEF Good, Pipes, TypeOK, Conn, Client
      <3> QED BY <1>2, <3>1, <3>2, DistinctAssumption
    <2>2. ASSUME NEW g \in Fds, Fdt'[g] \in Runs
          PROVE  \E c \in Fds : Client(c)' /\ conn'[c].run = Fdt'[g] /\ conn'[c].fd = g
      <3>1. g # f /\ Fdt[g] = Fdt'[g]
        BY <1>2, <2>2, DistinctAssumption
      <3>2. PICK c \in Fds : Client(c) /\ conn[c].run = Fdt[g] /\ conn[c].fd = g
        BY <2>2, <3>1 DEF Good, Pipes
      <3> QED BY <3>1, <3>2, <1>5
    <2>3. \A g \in Fds : Client(g)' /\ conn'[g].run = NoRun => conn'[g].fd = NoFd
      BY <1>5 DEF Good, Pipes
    <2>4. \A g, h \in Fds : Client(g)' /\ Client(h)' /\ conn'[g].run # NoRun
                             /\ conn'[g].run = conn'[h].run => g = h
      BY <1>5 DEF Good, Pipes
    <2> QED BY <2>1, <2>2, <2>3, <2>4 DEF Pipes
  <1>9. Watched'
    <2>1. \A r \in kernel'.regs : r.obj \in Peers => Fdt'[r.fd] = r.obj
      BY <1>1, <1>2, <1>6
    <2>2. ASSUME NEW g \in Fds, Client(g)' PROVE \E r \in kernel'.regs : r.fd = g /\ r.obj = Fdt'[g]
      <3>1. CASE g = f
        <4> DEFINE r == [fd |-> f, obj |-> p, mask |-> "IN"]
        <4>1. r \in kernel'.regs /\ r.fd = f /\ r.obj = p
          BY <1>1
        <4> QED BY <4>1, <1>2, <3>1
      <3>2. CASE g # f
        BY <1>1, <1>2, <1>5, <2>2, <3>2 DEF Good, Watched
      <3> QED BY <3>1, <3>2
    <2>3. \A r, s \in kernel'.regs : r.obj \in Peers /\ r.fd = s.fd /\ r.obj = s.obj => r = s
      BY <1>1, <1>6 DEF Good, Watched
    <2> QED BY <2>1, <2>2, <2>3 DEF Watched
  <1>10. Piped'
    <2>1. \A r \in kernel'.regs : r.obj \in Runs => r \in kernel.regs
      BY <1>1, DistinctAssumption
    <2>2. \A o \in Runs : IsOpen(kernel, o) => IsOpen(kernel', o)
      BY <1>1, <1>2, DistinctAssumption DEF IsOpen, Fdt
    <2>3. ASSUME NEW r \in kernel'.regs, r.obj \in Runs, Fdt'[r.fd] = r.obj, route'[r.fd] # NoFd
          PROVE  conn'[route'[r.fd]] # NoConn /\ conn'[route'[r.fd]].run = r.obj
      <3>1. r \in kernel.regs /\ r.fd \in Fds /\ Fdt[r.fd] = r.obj
        BY <1>2, <1>3, <2>1, <2>3, DistinctAssumption
      <3>2. Client(route[r.fd]) /\ conn[route[r.fd]].run = r.obj /\ route[r.fd] \in Fds
        BY <2>3, <3>1 DEF Good, Piped, TypeOK
      <3> QED BY <1>5, <3>2 DEF Client
    <2> QED BY <2>1, <2>2, <2>3 DEF Good, Piped, Client
  <1>11. Masked'
    <2> SUFFICES ASSUME NEW r \in kernel'.regs, r.obj \in Peers
                 PROVE  /\ conn'[r.fd].left > 0 => r.mask = "OUT"
                        /\ r.mask = "OUT" => conn'[r.fd].left > 0 \/ conn'[r.fd].busy
                        /\ r.mask = "OUT" => conn'[r.fd].run = NoRun \/ conn'[r.fd].shut
                        /\ r.mask = "IN" => conn'[r.fd].parser
      BY DEF Masked
    <2>1. CASE r \in kernel.regs
      BY <2>1, <1>3, <1>5, <1>6 DEF Good, Masked
    <2>2. CASE r = [fd |-> f, obj |-> p, mask |-> "IN"]
      BY <2>2, <1>5
    <2> QED BY <2>1, <2>2, <1>1
  <1>12. Heard'
    BY <1>5 DEF Good, Heard
  <1>13. Batched'
    <2> SUFFICES ASSUME NEW g \in Fds
                 PROVE  /\ <<g, "OUT">> \in batch' =>
                              /\ Client(g)' /\ (conn'[g].left > 0 \/ conn'[g].busy)
                              /\ <<g, "IN">> \notin batch'
                              /\ \A r \in kernel'.regs : r.fd = g /\ r.obj = Fdt'[g] => r.mask = "OUT"
                        /\ <<g, "IN">> \in batch' /\ Client(g)' => conn'[g].parser
      BY DEF Batched
    <2>1. CASE g = f
      BY <2>1, <1>5 DEF Good, Batched, Calm
    <2>2. CASE g # f
      <3>1. \A r \in kernel'.regs : r.fd = g => r \in kernel.regs
        BY <1>1, <2>2
      <3> QED BY <2>2, <3>1, <1>2, <1>5 DEF Good, Batched, Calm
    <2> QED BY <2>1, <2>2
  <1> QED BY <1>7, <1>8, <1>9, <1>10, <1>11, <1>12, <1>13 DEF Good, Calm

(* A script comes: a free number, a run known nowhere before, and the       *)
(* connection of a new request, which has no response.                      *)
LEMMA Started ==
    ASSUME TypeOK, TypeOK', Good, batch' \subseteq batch, at' # "crashed",
           \A p \in Peers : peer'[p] \in {"away", "waiting"} => peer[p] \in {"away", "waiting"},
           NEW f \in Fds, Client(f), NEW g \in Fds, Fdt[g] = Free, NEW q \in FreshRuns,
           conn[f].run = NoRun, conn[f].left = 0, <<f, "OUT">> \notin batch,
           ~conn[f].busy, conn[f].parser,
           kernel'.fdt = [kernel.fdt EXCEPT ![g] = q], kernel.held \subseteq kernel'.held,
           \/ kernel'.regs = kernel.regs /\ route' = route
           \/ /\ kernel'.regs = kernel.regs \cup {[fd |-> g, obj |-> q, mask |-> "IN"]}
              /\ route' = [route EXCEPT ![g] = f],
           NEW new \in Conn, conn' = [conn EXCEPT ![f] = new],
           new.left = 0, new.parser, new.busy, new.run = q, new.fd = g
    PROVE  Good'
  <1>0. /\ q \in Runs /\ ~IsOpen(kernel, q) /\ \A c \in Fds : Client(c) => conn[c].run # q
    BY DEF FreshRuns, Client
  <1>1. /\ Fdt'[g] = q /\ (\A h \in Fds : h # g => Fdt'[h] = Fdt[h]) /\ \A h \in Fds : Fdt[h] # q
    BY <1>0 DEF TypeOK, Fdt, IsOpen
  <1>2. Fdt[f] \in Peers /\ f # g /\ NoFd \notin Fds
    BY Numbers, DistinctAssumption
  <1>3. \A r \in kernel.regs : r.fd \in Fds /\ r.obj \in Objects /\ r.mask \in Masks /\ r.obj # q
    BY <1>0 DEF TypeOK, Good, Piped
  <1>4. /\ conn'[f] = new /\ \A h \in Fds : h # f => conn'[h] = conn[h]
        /\ \A h \in Fds : Client(h)' <=> Client(h)
    BY DistinctAssumption DEF TypeOK, Client
  <1>5. /\ \A r \in kernel'.regs : r.obj \in Peers => r \in kernel.regs /\ r.fd # g
        /\ \A r \in kernel'.regs : r \in kernel.regs \/ r = [fd |-> g, obj |-> q, mask |-> "IN"]
        /\ kernel.regs \subseteq kernel'.regs
    BY <1>0, <1>3, DistinctAssumption DEF Good, Watched
  <1>6. Sockets'
    BY <1>0, <1>1, <1>2, <1>4, DistinctAssumption DEF Good, Sockets, Objects
  <1>7. Pipes'
    <2>1. ASSUME NEW h \in Fds, Client(h)', conn'[h].fd # NoFd
          PROVE  Fdt'[conn'[h].fd] = conn'[h].run
      <3>1. CASE h = f
        BY <3>1, <1>1, <1>4
      <3>2. CASE h # f
        <4>1. conn[h].fd \in Fds /\ Fdt[conn[h].fd] = conn[h].run /\ conn[h].run \in Runs
          BY <2>1, <3>2, <1>4 DEF Good, Pipes, TypeOK, Conn, Client
        <4> QED BY <1>1, <1>4, <3>2, <4>1, DistinctAssumption
      <3> QED BY <3>1, <3>2
    <2>2. ASSUME NEW h \in Fds, Fdt'[h] \in Runs
          PROVE  \E c \in Fds : Client(c)' /\ conn'[c].run = Fdt'[h] /\ conn'[c].fd = h
      <3>1. CASE h = g
        BY <3>1, <1>1, <1>4
      <3>2. CASE h # g
        <4>1. PICK c \in Fds : Client(c) /\ conn[c].run = Fdt[h] /\ conn[c].fd = h
          BY <2>2, <3>2, <1>1 DEF Good, Pipes
        <4>2. c # f
          BY <2>2, <3>2, <1>1, <4>1, DistinctAssumption
        <4> QED BY <3>2, <4>1, <4>2, <1>1, <1>4
      <3> QED BY <3>1, <3>2
    <2>3. \A h \in Fds : Client(h)' /\ conn'[h].run = NoRun => conn'[h].fd = NoFd
      BY <1>0, <1>4, DistinctAssumption DEF Good, Pipes
    <2>4. \A h, i \in Fds : Client(h)' /\ Client(i)' /\ conn'[h].run # NoRun
                             /\ conn'[h].run = conn'[i].run => h = i
      BY <1>0, <1>4 DEF Good, Pipes
    <2> QED BY <2>1, <2>2, <2>3, <2>4 DEF Pipes
  <1>8. Watched'
    <2>1. \A r \in kernel'.regs : r.obj \in Peers => Fdt'[r.fd] = r.obj
      BY <1>1, <1>3, <1>5 DEF Good, Watched
    <2>2. ASSUME NEW h \in Fds, Client(h)' PROVE \E r \in kernel'.regs : r.fd = h /\ r.obj = Fdt'[h]
      <3>1. Client(h) /\ h # g
        BY <2>2, <1>4, Numbers, DistinctAssumption
      <3> QED BY <3>1, <1>1, <1>5 DEF Good, Watched
    <2>3. \A r, s \in kernel'.regs : r.obj \in Peers /\ r.fd = s.fd /\ r.obj = s.obj => r = s
      BY <1>5 DEF Good, Watched
    <2> QED BY <2>1, <2>2, <2>3 DEF Watched
  <1>9. Piped'
    <2>1. \A o : IsOpen(kernel, o) /\ o \in Objects => IsOpen(kernel', o)
      BY <1>1, DistinctAssumption DEF IsOpen, Fdt, Objects
    <2>2. IsOpen(kernel', q)
      BY <1>1 DEF IsOpen, Fdt
    <2>3. \A r \in kernel'.regs : r.obj \in Runs => r.mask = "IN" /\ IsOpen(kernel', r.obj)
      BY <1>3, <1>5, <2>1, <2>2 DEF Good, Piped
    <2>4. ASSUME NEW r \in kernel'.regs, r.obj \in Runs, Fdt'[r.fd] = r.obj, route'[r.fd] # NoFd
          PROVE  conn'[route'[r.fd]] # NoConn /\ conn'[route'[r.fd]].run = r.obj
      <3>1. CASE r \in kernel.regs
        <4>1. r.fd \in Fds /\ r.fd # g /\ Fdt[r.fd] = r.obj
          BY <1>1, <1>3, <2>4, <3>1
        <4>2. route'[r.fd] = route[r.fd] /\ route[r.fd] \in Fds
          BY <2>4, <4>1 DEF TypeOK
        <4>3. Client(route[r.fd]) /\ conn[route[r.fd]].run = r.obj
          BY <2>4, <3>1, <4>1, <4>2 DEF Good, Piped
        <4>4. route[r.fd] # f
          BY <4>3, <2>4, DistinctAssumption
        <4> QED BY <4>2, <4>3, <4>4, <1>4 DEF Client
      <3>2. CASE r \notin kernel.regs
        <4>1. r.fd = g /\ r.obj = q /\ route'[g] = f
          BY <1>5, <3>2 DEF TypeOK
        <4> QED BY <4>1, <1>4, DistinctAssumption DEF Client
      <3> QED BY <3>1, <3>2
    <2> QED BY <2>3, <2>4 DEF Piped, Client
  <1>10. Masked'
    <2> SUFFICES ASSUME NEW r \in kernel'.regs, r.obj \in Peers
                 PROVE  /\ conn'[r.fd].left > 0 => r.mask = "OUT"
                        /\ r.mask = "OUT" => conn'[r.fd].left > 0 \/ conn'[r.fd].busy
                        /\ r.mask = "OUT" => conn'[r.fd].run = NoRun \/ conn'[r.fd].shut
                        /\ r.mask = "IN" => conn'[r.fd].parser
      BY DEF Masked
    <2>1. r \in kernel.regs /\ r.fd \in Fds
      BY <1>3, <1>5
    <2>2. CASE r.fd = f
      <3>1. ~(r.mask = "OUT")
        BY <2>1, <2>2 DEF Good, Masked
      <3> QED BY <3>1, <2>2, <1>4
    <2>3. CASE r.fd # f
      BY <2>1, <2>3, <1>4 DEF Good, Masked
    <2> QED BY <2>2, <2>3
  <1>11. Heard'
    BY <1>4 DEF Good, Heard
  <1>12. Batched'
    <2> SUFFICES ASSUME NEW h \in Fds
                 PROVE  /\ <<h, "OUT">> \in batch' =>
                              /\ Client(h)' /\ (conn'[h].left > 0 \/ conn'[h].busy)
                              /\ <<h, "IN">> \notin batch'
                              /\ \A r \in kernel'.regs : r.fd = h /\ r.obj = Fdt'[h] => r.mask = "OUT"
                        /\ <<h, "IN">> \in batch' /\ Client(h)' => conn'[h].parser
      BY DEF Batched
    <2>1. CASE h = f
      BY <2>1, <1>4 DEF Good, Batched
    <2>2. CASE h # f /\ h # g
      <3>1. \A r \in kernel'.regs : r.fd = h => r \in kernel.regs
        BY <1>5, <2>2
      <3> QED BY <2>2, <3>1, <1>1, <1>4 DEF Good, Batched
    <2>3. CASE h = g
      BY <2>3, <1>4, Numbers, DistinctAssumption DEF Good, Batched
    <2> QED BY <2>1, <2>2, <2>3
  <1> QED BY <1>6, <1>7, <1>8, <1>9, <1>10, <1>11, <1>12 DEF Good

-----------------------------------------------------------------------------
(* A mistaken event is never taken back. *)
LEMMA History == [Next]_vars /\ mistaken => mistaken'
  <1> SUFFICES ASSUME [Next]_vars, mistaken PROVE mistaken'
    OBVIOUS
  <1>1. CASE UNCHANGED vars
    BY <1>1 DEF vars
  <1>2. CASE Environment
    BY <1>2 DEF Environment, Connect, PeerSends, PeerLeaves, ChildWrites, ChildEnds
  <1>3. CASE EpollWait \/ SweepDone \/ EventsDone \/ Accept
    BY <1>3 DEF EpollWait, SweepDone, EventsDone, Accept
  <1>4. ASSUME NEW f \in Fds, Sweep(f) PROVE mistaken'
    BY <1>4 DEF Sweep
  <1>5. ASSUME NEW f \in Fds, CgiEvent(f) PROVE mistaken'
    BY <1>5 DEF CgiEvent
  <1>6. ASSUME NEW f \in Fds, ClientIn(f) PROVE mistaken'
    BY <1>6, ClientInCases
  <1>7. ASSUME NEW f \in Fds, ClientOut(f) PROVE mistaken'
    BY <1>7 DEF ClientOut
  <1> QED BY <1>1, <1>2, <1>3, <1>4, <1>5, <1>6, <1>7 DEF Next, Server

(* A script is done with, on the scan or by its event: the connection gets a *)
(* response and its number EPOLLOUT.                                        *)
LEMMA AnswerGood ==
    ASSUME TypeOK, TypeOK', Good, Calm, NEW c \in Fds, Client(c), conn[c].run # NoRun,
           NEW g, g \in Fds => Fdt[g] \notin Peers,
           kernel' = CtlMod(CtlDel(CloseCgi(kernel, c), g), c, "OUT"),
           NEW n \in 1..MaxLeft, conn' = [conn EXCEPT ![c] = [NoCgi(@) EXCEPT !.left = n]]
    PROVE  Good'
  <1> DEFINE L   == CtlDel(CloseCgi(kernel, c), g)
             new == [NoCgi(conn[c]) EXCEPT !.left = n]
  <1>1. Keeps(kernel, L, {conn[c].fd})
    BY KeepsAnswer
  <1>2. /\ new \in Conn /\ conn' = [conn EXCEPT ![c] = new]
        /\ new.left = n /\ new.run = NoRun /\ new.fd = NoFd /\ new.parser = conn[c].parser
        /\ new.shut = conn[c].shut /\ new.busy = conn[c].busy
    BY ConnTypes, Numbers DEF Conn, NoCgi
  <1>3. L \in KernelType /\ kernel' = CtlMod(L, c, "OUT") /\ n > 0
    BY <1>1, EventLoopAssumption DEF Keeps
  <1> HIDE DEF L, new
  <1>4. Moves(L, kernel', c, "OUT")
    BY <1>3, ModMoves DEF Masks
  <1>5. Fits(conn[c], new, {conn[c].fd}) /\ Suits(new, "OUT")
    BY <1>2, <1>3 DEF Fits, Suits, Good, Heard
  <1>6. <<c, "IN">> \in batch' => new.parser
    BY <1>2 DEF Calm, Good, Batched
  <1> QED BY <1>1, <1>2, <1>4, <1>5, <1>6, Update DEF Masks

(* The record of a connection once its request was looked at. *)
LEMMA BegunFacts ==
    ASSUME NEW r \in Conn, NEW m, NEW s \in BOOLEAN
    PROVE  LET b == Begun(r, m, s)
           IN  /\ b \in Conn /\ b.busy /\ b.left = r.left /\ b.parser = r.parser
               /\ b.run = r.run /\ b.fd = r.fd
  <1>1. CASE r.busy
    BY <1>1 DEF Begun
  <1>2. CASE ~r.busy
    <2> DEFINE b == [left |-> r.left, get |-> (m = "get"), busy |-> TRUE, shut |-> s,
                     parser |-> r.parser, run |-> r.run, fd |-> r.fd]
    <2>1. Begun(r, m, s) = b
      BY <1>2 DEF Begun, Conn
    <2>2. b \in Conn
      BY DEF Conn
    <2> QED BY <2>1, <2>2
  <1> QED BY <1>1, <1>2

(* A request for a script or for anything else, as long as numbers agree.   *)
LEMMA HandleGood ==
    ASSUME TypeOK, TypeOK', Good, NEW f \in Fds, Client(f), conn[f].run = NoRun,
           conn[f].parser, batch' \subseteq batch, <<f, "OUT">> \notin batch,
           <<f, "IN">> \notin batch', at' # "crashed",
           \A p \in Peers : peer'[p] \in {"away", "waiting"} => peer[p] \in {"away", "waiting"},
           NEW m, NEW s \in BOOLEAN, Handle(f, Begun(conn[f], m, s))
    PROVE  Good'
  <1> DEFINE b == Begun(conn[f], m, s)
  <1>1. /\ kernel \in KernelType /\ conn[f] \in Conn /\ NoFd \notin Fds
        /\ conn[f].fd = NoFd
    BY Numbers
  <1>2. /\ b \in Conn /\ b.busy /\ b.left = conn[f].left /\ b.parser
        /\ b.run = NoRun /\ b.fd = NoFd
    BY <1>1, BegunFacts
  <1> HIDE DEF b
  <1>3. Keeps(kernel, kernel, {})
    BY <1>1, KeepsSelf
  <1>4. Fits(conn[f], b, {}) /\ Suits(b, "OUT")
    BY <1>1, <1>2 DEF Fits, Suits
  <1>5. ASSUME NEW L, Keeps(kernel, L, {}), kernel' = CtlMod(L, f, "OUT"), UNCHANGED route,
               conn' = [conn EXCEPT ![f] = b]
        PROVE  Good'
    <2>1. Calm
      BY <1>5 DEF Calm
    <2>2. Moves(L, kernel', f, "OUT")
      BY <1>5, ModMoves DEF Keeps, Masks
    <2> QED BY <1>2, <1>4, <1>5, <2>1, <2>2, Update DEF Masks
  <1>6. ASSUME ~conn[f].busy, NEW q \in FreshRuns, NEW g \in Lowest(FreeFds(kernel), 3),
               \/ kernel' = CtlAdd(Fork(Open(kernel, g, q), q), g) /\ route' = [route EXCEPT ![g] = f]
               \/ kernel' = Fork(Open(kernel, g, q), q) /\ UNCHANGED route,
               conn' = [conn EXCEPT ![f] = [b EXCEPT !.run = q, !.fd = g]]
        PROVE  Good'
    <2>1. g \in Fds /\ Fdt[g] = Free /\ q \in Runs
      BY DEF Lowest, FreeFds, Fdt, FreshRuns
    <2>2. conn[f].left = 0
      <3>1. ~(conn[f].left > 0)
        BY <1>6 DEF Good, Heard
      <3> QED BY <1>1, <3>1, EventLoopAssumption DEF Conn
    <2> DEFINE new == [b EXCEPT !.run = q, !.fd = g]
               K   == Open(kernel, g, q)
               L   == Fork(K, q)
    <2>3. /\ new \in Conn /\ new.left = 0 /\ new.parser /\ new.busy
          /\ new.run = q /\ new.fd = g
      BY <1>2, <2>1, <2>2 DEF Conn
    <2>4. /\ K \in KernelType /\ K.fdt = [kernel.fdt EXCEPT ![g] = q] /\ K.fdt[g] = q
          /\ K.held = kernel.held /\ K.regs = kernel.regs
      BY <1>1, <2>1 DEF Open, KernelType, Objects
    <2>5. conn' = [conn EXCEPT ![f] = new]
      BY <1>6
    <2> HIDE DEF new, K
    <2>6. /\ L \in KernelType /\ L.fdt = K.fdt /\ K.held \subseteq L.held /\ L.regs = K.regs
      BY <2>1, <2>4, ForkType DEF Fork, KernelType
    <2>7. /\ CtlAdd(L, g).fdt = L.fdt /\ CtlAdd(L, g).held = L.held
          /\ CtlAdd(L, g).regs = L.regs \cup {[fd |-> g, obj |-> L.fdt[g], mask |-> "IN"]}
      BY <2>6 DEF CtlAdd, KernelType
    <2>8. /\ kernel'.fdt = [kernel.fdt EXCEPT ![g] = q] /\ kernel.held \subseteq kernel'.held
          /\ \/ kernel'.regs = kernel.regs /\ route' = route
             \/ /\ kernel'.regs = kernel.regs \cup {[fd |-> g, obj |-> q, mask |-> "IN"]}
                /\ route' = [route EXCEPT ![g] = f]
      BY <1>6, <2>4, <2>6, <2>7 DEF K
    <2> QED BY <1>6, <2>1, <2>2, <2>3, <2>5, <2>8, Started
  <1> DEFINE M == [kernel EXCEPT !.fdt = [x \in Fds |->
                      IF x \in Lowest(FreeFds(kernel), 2) THEN Leaked ELSE @[x]]]
  <1>7. Keeps(kernel, M, {})
    <2>1. /\ M \in KernelType /\ M.held = kernel.held /\ M.regs = kernel.regs
          /\ \A x \in Fds : M.fdt[x] = IF x \in Lowest(FreeFds(kernel), 2) THEN Leaked
                                        ELSE kernel.fdt[x]
      BY <1>1 DEF KernelType
    <2> HIDE DEF M
    <2>2. \A x \in Fds : x \in Lowest(FreeFds(kernel), 2) => kernel.fdt[x] = Free
      BY DEF Lowest, FreeFds
    <2>3. \A x \in Fds : kernel.fdt[x] \in Objects => M.fdt[x] = kernel.fdt[x]
      BY <2>1, <2>2, DistinctAssumption DEF Objects
    <2>4. \A x \in Fds : M.fdt[x] \in Objects => kernel.fdt[x] = M.fdt[x]
      BY <2>1, DistinctAssumption DEF Objects
    <2>5. \A r \in M.regs : IsOpen(kernel, r.obj) => IsOpen(M, r.obj)
      <3>1. \A r \in kernel.regs : r.obj \in Objects
        BY <1>1 DEF KernelType
      <3> QED BY <2>1, <2>3, <3>1 DEF IsOpen
    <2> QED BY <2>1, <2>3, <2>4, <2>5 DEF Keeps
  <1> QED BY <1>3, <1>5, <1>6, <1>7 DEF Handle, StartCgi, b

(* What a readable client brings about, as long as numbers agree. *)
LEMMA ClientInGood ==
    ASSUME TypeOK, TypeOK', Good, NEW f \in Fds, ClientIn(f) PROVE Good'
  <1>1. /\ Client(f) /\ <<f, "IN">> \in batch /\ batch' = batch \ {<<f, "IN">>}
        /\ at' # "crashed"
    BY ClientInCases DEF TakeEvent, Client, Good
  <1>2. /\ conn[f].parser /\ <<f, "OUT">> \notin batch /\ <<f, "OUT">> \notin batch'
        /\ <<f, "IN">> \notin batch' /\ batch' \subseteq batch
    BY <1>1 DEF Good, Batched
  <1>3. \A p \in Peers : peer'[p] \in {"away", "waiting"} => peer[p] \in {"away", "waiting"}
    BY ClientInCases DEF TypeOK
  <1>4. /\ kernel \in KernelType /\ conn[f] \in Conn /\ NoFd \notin Fds
        /\ conn[f].run = NoRun => conn[f].fd = NoFd
    BY <1>1, Numbers
  <1>5. Keeps(kernel, kernel, {})
    BY <1>4, KeepsSelf
  <1>6. CASE RejectClient(f)
    <2>1. PICK n \in 1..MaxLeft :
             conn' = [conn EXCEPT ![f] = [conn[f] EXCEPT !.left = n, !.shut = TRUE, !.parser = FALSE]]
      BY <1>6 DEF RejectClient
    <2> DEFINE new == [conn[f] EXCEPT !.left = n, !.shut = TRUE, !.parser = FALSE]
    <2>2. /\ new \in Conn /\ new.left = n /\ n > 0 /\ new.shut /\ ~new.parser
          /\ new.run = conn[f].run /\ new.fd = conn[f].fd /\ new.busy = conn[f].busy
      <3>1. new \in Conn
        BY <1>4, ConnTypes
      <3>2. /\ new.left = n /\ new.shut /\ ~new.parser
            /\ new.run = conn[f].run /\ new.fd = conn[f].fd /\ new.busy = conn[f].busy
        BY <1>4 DEF Conn
      <3>3. n > 0
        BY EventLoopAssumption
      <3> QED BY <3>1, <3>2, <3>3
    <2>3. conn' = [conn EXCEPT ![f] = new]
      BY <2>1
    <2> HIDE DEF new
    <2>4. Fits(conn[f], new, {}) /\ Suits(new, "OUT")
      BY <1>1, <2>2 DEF Fits, Suits, Good, Heard
    <2>5. Moves(kernel, kernel', f, "OUT")
      BY <1>4, <1>6, ModMoves DEF RejectClient, Masks
    <2>6. Calm
      BY <1>1, <1>2, <1>3, <1>6 DEF Calm, RejectClient
    <2> QED BY <1>1, <1>2, <1>5, <2>2, <2>3, <2>4, <2>5, <2>6, Update DEF Masks
  <1>7. CASE DropClient(f)
    <2>1. Calm
      BY <1>1, <1>2, <1>3, <1>7 DEF Calm, DropClient, Unroute, TypeOK
    <2> QED BY <1>1, <1>2, <1>7, <2>1, DropGood
  <1>8. CASE UNCHANGED <<output, child, kernel, conn, route>>
    <2>1. Calm
      BY <1>1, <1>2, <1>3, <1>8 DEF Calm
    <2> QED BY <1>5, <1>8, <2>1, Quiet
  <1>9. CASE conn[f].run = NoRun /\ \E m \in Methods, s \in BOOLEAN : Handle(f, Begun(conn[f], m, s))
    BY <1>1, <1>2, <1>3, <1>9, HandleGood
  <1> QED BY <1>2, <1>6, <1>7, <1>8, <1>9, ClientInCases

(* What a writable client brings about, as long as numbers agree.           *)
LEMMA ClientOutGood ==
    ASSUME TypeOK, TypeOK', Good, NEW f \in Fds, ClientOut(f) PROVE Good'
  <1>1. /\ conn[f] \in Conn /\ Client(f) /\ <<f, "OUT">> \in batch
        /\ batch' = batch \ {<<f, "OUT">>}
        /\ conn[f].left > 0 \/ conn[f].busy
    <2>1. conn[f] \in Conn /\ Client(f)
      BY DEF ClientOut, TypeOK, Client
    <2>2. <<f, "OUT">> \in batch /\ batch' = batch \ {<<f, "OUT">>}
      BY <2>1, ClientOutCases DEF TakeEvent
    <2> QED BY <2>1, <2>2 DEF Good, Batched
  <1>2. /\ UNCHANGED <<peer, at>>
        /\ \/ /\ \E n \in 1..MaxLeft : conn' = [conn EXCEPT ![f].left = n]
              /\ UNCHANGED <<child, kernel, route>>
           \/ DropClient(f)
           \/ Complete(f) /\ UNCHANGED route
    BY <1>1, ClientOutCases, EventLoopAssumption DEF Conn
  <1>3. /\ kernel \in KernelType /\ NoFd \notin Fds
        /\ conn[f].run = NoRun => conn[f].fd = NoFd
    BY <1>1, Numbers
  <1>4. /\ at' # "crashed" /\ batch' \subseteq batch
        /\ \A p \in Peers : peer'[p] \in {"away", "waiting"} => peer[p] \in {"away", "waiting"}
    BY <1>1, <1>2 DEF Good
  <1>5. Keeps(kernel, kernel, {})
    BY <1>3, KeepsSelf
  <1>6. PICK r \in kernel.regs : r.fd = f /\ r.obj = Fdt[f]
    BY <1>1 DEF Good, Watched
  <1>7. /\ r.mask = "OUT" /\ Fdt[f] \in Peers
        /\ \A x \in kernel.regs : x.fd = f /\ x.obj = Fdt[f] => x.mask = "OUT"
        /\ conn[f].run = NoRun \/ conn[f].shut
    BY <1>1, <1>6, Numbers DEF Good, Batched, Masked
  <1>8. ASSUME NEW n \in 1..MaxLeft, conn' = [conn EXCEPT ![f].left = n],
               UNCHANGED <<child, kernel, route>>
        PROVE  Good'
    <2> DEFINE new == [conn[f] EXCEPT !.left = n]
    <2>1. /\ new \in Conn /\ new.left = n /\ new.parser = conn[f].parser
          /\ new.shut = conn[f].shut /\ new.busy = conn[f].busy
          /\ new.run = conn[f].run /\ new.fd = conn[f].fd
      BY <1>1, ConnTypes DEF Conn
    <2>2. conn' = [conn EXCEPT ![f] = new]
      BY <1>8
    <2> HIDE DEF new
    <2>3. conn[f].parser => conn[f].busy
      BY <1>1 DEF Good, Heard
    <2>4. Fits(conn[f], new, {})
      BY <1>1, <2>1, <2>3 DEF Fits, Good, Heard
    <2>5. Suits(new, "OUT") /\ n > 0
      BY <1>7, <2>1, EventLoopAssumption DEF Suits
    <2>6. Moves(kernel, kernel', f, "OUT")
      BY <1>7, <1>8 DEF Moves, Fdt
    <2>7. Calm
      BY <1>4, <1>8 DEF Calm
    <2>8. <<f, "IN">> \notin batch'
      BY <1>1 DEF Good, Batched
    <2> QED BY <1>1, <1>5, <2>1, <2>2, <2>4, <2>5, <2>6, <2>7, <2>8, Update DEF Masks
  <1>9. CASE DropClient(f)
    <2>1. Calm
      BY <1>4, <1>9 DEF Calm, DropClient, Unroute, TypeOK
    <2> QED BY <1>1, <1>9, <2>1, DropGood
  <1>10. CASE Complete(f) /\ UNCHANGED route /\ conn[f].shut
    <2>1. Calm
      BY <1>4, <1>10 DEF Calm
    <2> QED BY <1>1, <1>10, <2>1, DropGood
  <1>11. CASE Complete(f) /\ UNCHANGED route /\ ~conn[f].shut
    <2> DEFINE new == [left |-> 0, get |-> FALSE, busy |-> FALSE, shut |-> FALSE,
                       parser |-> conn[f].parser, run |-> NoRun, fd |-> NoFd]
    <2>1. conn[f].parser /\ conn[f].run = NoRun /\ conn[f].fd = NoFd
      BY <1>1, <1>3, <1>7, <1>11 DEF Good, Heard
    <2>2. new \in Conn /\ new.left = 0 /\ new.parser /\ new.run = NoRun /\ new.fd = NoFd
      BY <2>1, EventLoopAssumption DEF Conn
    <2>3. conn' = [conn EXCEPT ![f] = new] /\ kernel' = CtlMod(kernel, f, "IN")
      BY <1>11 DEF Complete
    <2> HIDE DEF new
    <2>4. Fits(conn[f], new, {}) /\ Suits(new, "IN")
      BY <2>1, <2>2 DEF Fits, Suits
    <2>5. Moves(kernel, kernel', f, "IN")
      BY <1>3, <2>3, ModMoves DEF Masks
    <2>6. Calm /\ <<f, "OUT">> \notin batch'
      BY <1>1, <1>4, <1>11 DEF Calm
    <2> QED BY <1>1, <1>5, <2>2, <2>3, <2>4, <2>5, <2>6, Update DEF Masks
  <1> QED BY <1>2, <1>8, <1>9, <1>10, <1>11

(* A script's event: its end, nothing, or the end of its output.            *)
LEMMA CgiEventGood ==
    ASSUME TypeOK, TypeOK', Good, NEW f \in Fds, CgiEvent(f) PROVE Good'
  <1>1. /\ batch' \subseteq batch /\ UNCHANGED <<peer, inbox, at, mistaken>> /\ ~Client(f)
        /\ at # "crashed" /\ kernel \in KernelType
    BY DEF CgiEvent, TakeEvent, Client, Good, TypeOK, KernelType
  <1>2. Fdt[f] \notin Peers
    BY <1>1 DEF Good, Sockets
  <1> DEFINE c == route[f]
  <1>3. CASE UNCHANGED <<output, child, kernel, conn, route>>
    <2>1. Calm /\ Keeps(kernel, kernel', {})
      BY <1>1, <1>3, KeepsSelf DEF Calm
    <2> QED BY <1>3, <2>1, Quiet
  <1>4. CASE ~(c = NoFd \/ conn[c] = NoConn \/ conn[c].run = NoRun)
    <2>1. c \in Fds /\ Client(c) /\ conn[c].run # NoRun
      BY <1>4 DEF TypeOK, Client
    <2>2. CASE /\ kernel' = CtlMod(CtlDel(CloseCgi(kernel, c), f), c, "OUT")
               /\ route' = Unroute(f)
               /\ \E n \in 1..MaxLeft : conn' = [conn EXCEPT ![c] = [NoCgi(@) EXCEPT !.left = n]]
      <3>1. PICK n \in 1..MaxLeft : conn' = [conn EXCEPT ![c] = [NoCgi(conn[c]) EXCEPT !.left = n]]
        BY <2>2
      <3>2. Calm
        BY <1>1, <2>2 DEF Calm, Unroute, TypeOK
      <3> HIDE DEF c
      <3> QED BY <1>2, <2>1, <2>2, <3>1, <3>2, AnswerGood
    <2>3. CASE UNCHANGED <<child, kernel, conn, route>>
      <3>1. Calm /\ Keeps(kernel, kernel', {})
        BY <1>1, <2>3, KeepsSelf DEF Calm
      <3> QED BY <2>3, <3>1, Quiet
    <2>4. CASE /\ conn[c].fd # NoFd /\ kernel' = Close(kernel, conn[c].fd)
               /\ conn' = [conn EXCEPT ![c].fd = NoFd] /\ UNCHANGED <<child, route>>
      <3> DEFINE new == [conn[c] EXCEPT !.fd = NoFd]
                 g   == conn[c].fd
      <3>1. /\ conn[c] \in Conn /\ g \in Fds /\ c # g /\ Fdt[c] \in Peers /\ Fdt[g] \notin Peers
        BY <2>1, <2>4, Numbers
      <3>2. /\ new \in Conn /\ new.left = conn[c].left /\ new.parser = conn[c].parser
            /\ new.shut = conn[c].shut /\ new.busy = conn[c].busy
            /\ new.run = conn[c].run /\ new.fd = NoFd
        BY <3>1 DEF Conn
      <3>3. conn' = [conn EXCEPT ![c] = new]
        BY <2>4
      <3> HIDE DEF new
      <3>4. Keeps(kernel, kernel', {g})
        BY <1>1, <2>4, <3>1, KeepsClose
      <3>5. PICK r \in kernel.regs : r.fd = c /\ r.obj = Fdt[c]
        BY <2>1 DEF Good, Watched
      <3>6. /\ r.mask \in Masks
            /\ \A x \in kernel.regs : x.fd = c /\ x.obj = Fdt[c] => x = r
        BY <3>1, <3>5 DEF Good, Watched, TypeOK
      <3>7. kernel'.fdt[c] = Fdt[c] /\ kernel'.regs \subseteq kernel.regs
        BY <2>1, <3>1, <3>4 DEF Keeps, Objects, Fdt
      <3>8. Moves(kernel', kernel', c, r.mask)
        BY <3>6, <3>7 DEF Moves
      <3>9. Fits(conn[c], new, {g})
        BY <2>1, <3>1, <3>2 DEF Fits, Good, Heard
      <3>10. Suits(new, r.mask)
        BY <3>1, <3>2, <3>5 DEF Suits, Good, Masked
      <3>11. /\ <<c, "OUT">> \in batch' => r.mask = "OUT"
             /\ <<c, "IN">> \in batch' => new.parser
        BY <1>1, <2>1, <3>2, <3>5 DEF Good, Batched
      <3>12. Calm
        BY <1>1, <2>4 DEF Calm
      <3> HIDE DEF c, g
      <3> QED BY <2>1, <3>2, <3>3, <3>4, <3>6, <3>8, <3>9, <3>10, <3>11, <3>12, Update
    <2> QED BY <1>4, <2>2, <2>3, <2>4 DEF CgiEvent
  <1> QED BY <1>3, <1>4 DEF CgiEvent

(* A new batch: no event of a script's pipe under the number of a client.   *)
LEMMA EpollWaitGood ==
    ASSUME TypeOK, TypeOK', Good, EpollWait, ~mistaken' PROVE Good'
  <1>1. /\ batch' = ReadyEvents /\ at' = "sweep"
        /\ UNCHANGED <<peer, inbox, output, child, kernel, conn, route>>
        /\ \A r \in kernel.regs : r.obj \in Runs /\ IsReady(r) => ~Client(r.fd)
    BY DEF EpollWait, Client
  <1>2. (Sockets /\ Pipes /\ Watched /\ Piped /\ Masked /\ Heard)'
    <2>1. /\ Fdt' = Fdt /\ peer' = peer /\ kernel' = kernel /\ conn' = conn /\ route' = route
      BY <1>1 DEF Fdt
    <2>2. (Sockets /\ Pipes /\ Watched)'
      BY <2>1 DEF Good, Sockets, Pipes, Watched, Client
    <2>3. (Piped /\ Masked /\ Heard)'
      BY <2>1 DEF Good, Piped, Masked, Heard, Client, IsOpen
    <2> QED BY <2>2, <2>3
  <1>3. \A r \in kernel.regs : r.fd \in Fds /\ r.obj \in Objects /\ r.mask \in Masks
    BY DEF TypeOK
  <1>4. ASSUME NEW f \in Fds, NEW m, <<f, m>> \in ReadyEvents
        PROVE  \E r \in kernel.regs : IsReady(r) /\ r.fd = f /\ r.mask = m
    <2>1. f # ListenFd
      BY DEF Fds, ListenFd
    <2> QED BY <1>4, <2>1 DEF ReadyEvents
  <1>5. ASSUME NEW r \in kernel.regs, IsReady(r), Client(r.fd)
        PROVE  r.obj \in Peers /\ Fdt[r.fd] = r.obj
    BY <1>1, <1>3, <1>5 DEF Good, Watched, Objects
  <1>6. Batched'
    <2> SUFFICES ASSUME NEW f \in Fds
                 PROVE  /\ <<f, "OUT">> \in batch' =>
                              /\ Client(f) /\ (conn[f].left > 0 \/ conn[f].busy)
                              /\ <<f, "IN">> \notin batch'
                              /\ \A r \in kernel.regs : r.fd = f /\ r.obj = Fdt[f] => r.mask = "OUT"
                        /\ <<f, "IN">> \in batch' /\ Client(f) => conn[f].parser
      BY <1>1 DEF Batched, Client, Fdt
    <2>1. ASSUME <<f, "OUT">> \in batch'
          PROVE  /\ Client(f) /\ (conn[f].left > 0 \/ conn[f].busy)
                 /\ <<f, "IN">> \notin batch'
                 /\ \A r \in kernel.regs : r.fd = f /\ r.obj = Fdt[f] => r.mask = "OUT"
      <3>1. PICK r \in kernel.regs : IsReady(r) /\ r.fd = f /\ r.mask = "OUT"
        BY <1>1, <1>4, <2>1
      <3>2. r.obj \in Peers /\ Fdt[f] = r.obj
        BY <1>3, <3>1 DEF Good, Piped, Watched, Objects
      <3>3. Client(f) /\ (conn[f].left > 0 \/ conn[f].busy)
        BY <3>1, <3>2 DEF Good, Sockets, Masked
      <3>4. \A s \in kernel.regs : s.fd = f /\ s.obj = Fdt[f] => s.mask = "OUT"
        BY <3>1, <3>2 DEF Good, Watched
      <3>5. <<f, "IN">> \notin batch'
        <4> SUFFICES ASSUME <<f, "IN">> \in batch' PROVE FALSE
          OBVIOUS
        <4>1. PICK s \in kernel.regs : IsReady(s) /\ s.fd = f /\ s.mask = "IN"
          BY <1>1, <1>4
        <4>2. s.obj = Fdt[f]
          BY <1>5, <3>3, <4>1
        <4> QED BY <3>4, <4>1, <4>2
      <3> QED BY <3>3, <3>4, <3>5
    <2>2. ASSUME <<f, "IN">> \in batch', Client(f)
          PROVE  conn[f].parser
      <3>1. PICK s \in kernel.regs : IsReady(s) /\ s.fd = f /\ s.mask = "IN"
        BY <1>1, <1>4, <2>2
      <3> QED BY <1>5, <2>2, <3>1 DEF Good, Masked
    <2> QED BY <2>1, <2>2
  <1> QED BY <1>1, <1>2, <1>6 DEF Good

(* The listener's event: a connection, or a peer that goes away.            *)
LEMMA AcceptGood ==
    ASSUME TypeOK, TypeOK', Good, Accept PROVE Good'
  <1>1. /\ batch' \subseteq batch /\ UNCHANGED <<inbox, output, child, route, at, mistaken>>
        /\ at' # "crashed" /\ kernel \in KernelType
    BY DEF Accept, TakeEvent, Good, TypeOK, KernelType
  <1>2. ASSUME \A p \in Peers : peer'[p] \in {"away", "waiting"} => peer[p] \in {"away", "waiting"}
        PROVE  Calm
    BY <1>1, <1>2 DEF Calm
  <1>3. CASE UNCHANGED <<kernel, conn>>
              /\ (peer' = peer \/ \E p \in Peers : peer' = [peer EXCEPT ![p] = "gone"])
    <2>1. Calm
      BY <1>2, <1>3 DEF TypeOK
    <2>2. Keeps(kernel, kernel', {})
      BY <1>1, <1>3, KeepsSelf
    <2> QED BY <1>3, <2>1, <2>2, Quiet
  <1>4. ASSUME NEW p \in Peers, peer[p] = "waiting", NEW f \in Lowest(FreeFds(kernel), 1),
               peer' = [peer EXCEPT ![p] = "up"], kernel' = CtlAdd(Open(kernel, f, p), f),
               conn' = [conn EXCEPT ![f] =
                    [left |-> 0, get |-> FALSE, busy |-> FALSE, shut |-> FALSE,
                     parser |-> TRUE, run |-> NoRun, fd |-> NoFd]]
        PROVE  Good'
    <2> DEFINE new == [left |-> 0, get |-> FALSE, busy |-> FALSE, shut |-> FALSE,
                       parser |-> TRUE, run |-> NoRun, fd |-> NoFd]
    <2>1. f \in Fds /\ Fdt[f] = Free
      BY DEF Lowest, FreeFds, Fdt
    <2>2. new \in Conn
      BY EventLoopAssumption DEF Conn
    <2>3. /\ new # NoConn /\ new.left = 0 /\ new.parser /\ ~new.shut
          /\ new.run = NoRun /\ new.fd = NoFd
      BY <2>2, DistinctAssumption
    <2>4. Calm
      BY <1>2, <1>4 DEF TypeOK
    <2>5. conn' = [conn EXCEPT ![f] = new] /\ UNCHANGED route
      BY <1>1, <1>4
    <2> HIDE DEF new
    <2> QED BY <1>4, <2>1, <2>3, <2>4, <2>5, Accepted
  <1> QED BY <1>3, <1>4 DEF Accept

(* Every step keeps the numbers, masks and routes right. *)
LEMMA NextGood ==
    ASSUME TypeOK, TypeOK', Good, ~mistaken', [Next]_vars PROVE Good'
  <1>0. kernel \in KernelType /\ at # "crashed"
    BY DEF TypeOK, KernelType, Good
  <1>1. Keeps(kernel, kernel, {})
    BY <1>0, KeepsSelf
  <1>2. CASE UNCHANGED <<kernel, conn, route>> /\ batch' \subseteq batch /\ at' # "crashed"
             /\ \A p \in Peers : peer'[p] \in {"away", "waiting"} => peer[p] \in {"away", "waiting"}
    <2>1. Calm /\ Keeps(kernel, kernel', {})
      BY <1>1, <1>2 DEF Calm
    <2> QED BY <1>2, <2>1, Quiet
  <1>3. CASE UNCHANGED vars
    BY <1>0, <1>2, <1>3 DEF vars
  <1>4. ASSUME NEW p \in Peers, Connect(p) PROVE Good'
    BY <1>0, <1>2, <1>4 DEF Connect, TypeOK
  <1>5. ASSUME NEW p \in Peers, NEW w \in Inputs, PeerSends(p, w) PROVE Good'
    BY <1>0, <1>2, <1>5 DEF PeerSends
  <1>6. ASSUME NEW p \in Peers, NEW h \in {"gone", "reset"}, PeerLeaves(p, h) PROVE Good'
    BY <1>0, <1>2, <1>6 DEF PeerLeaves, TypeOK
  <1>7. ASSUME NEW q \in Runs, ChildWrites(q) PROVE Good'
    BY <1>0, <1>2, <1>7 DEF ChildWrites
  <1>8. ASSUME NEW q \in Runs, ChildEnds(q) PROVE Good'
    <2>1. Keeps(kernel, kernel', {})
      BY <1>0, <1>8, KeepsEnd DEF ChildEnds
    <2>2. Calm
      BY <1>0, <1>8 DEF Calm, ChildEnds
    <2> QED BY <1>8, <2>1, <2>2, Quiet DEF ChildEnds
  <1>9. CASE EpollWait
    BY <1>9, EpollWaitGood
  <1>10. CASE SweepDone
    BY <1>2, <1>10 DEF SweepDone
  <1>11. CASE EventsDone
    BY <1>2, <1>11 DEF EventsDone
  <1>12. CASE Accept
    BY <1>12, AcceptGood
  <1>13. ASSUME NEW c \in Fds, Sweep(c) PROVE Good'
    <2>1. Client(c) /\ conn[c].run # NoRun
      BY <1>13 DEF Sweep, Client
    <2>2. Calm
      BY <1>0, <1>13 DEF Sweep, Calm, Unroute, TypeOK
    <2>3. PICK n \in 1..MaxLeft : conn' = [conn EXCEPT ![c] = [NoCgi(conn[c]) EXCEPT !.left = n]]
      BY <1>13 DEF Sweep
    <2>4. conn[c].fd \in Fds => Fdt[conn[c].fd] \notin Peers
      BY <2>1, Numbers
    <2>5. kernel' = CtlMod(CtlDel(CloseCgi(kernel, c), conn[c].fd), c, "OUT")
      BY <1>13 DEF Sweep
    <2> QED BY <2>1, <2>2, <2>3, <2>4, <2>5, AnswerGood
  <1>14. ASSUME NEW f \in Fds, CgiEvent(f) PROVE Good'
    BY <1>14, CgiEventGood
  <1>15. ASSUME NEW f \in Fds, ClientIn(f) PROVE Good'
    BY <1>15, ClientInGood
  <1>16. ASSUME NEW f \in Fds, ClientOut(f) PROVE Good'
    BY <1>16, ClientOutGood
  <1> QED
    BY <1>3, <1>4, <1>5, <1>6, <1>7, <1>8, <1>9, <1>10, <1>11, <1>12, <1>13, <1>14, <1>15, <1>16
    DEF Next, Environment, Server

(* The invariant holds at first. *)
LEMMA InitGood == Init => IInv
  <1> SUFFICES ASSUME Init PROVE Good
    BY InitType DEF IInv
  <1>1. /\ \A f \in Fds : Fdt[f] = Free /\ ~Client(f)
        /\ kernel.regs = {} /\ batch = {} /\ at # "crashed"
    BY DEF Init, Fdt, Client
  <1> QED
    BY <1>1, DistinctAssumption
    DEF Good, Sockets, Pipes, Watched, Piped, Masked, Heard, Batched, Objects

(* And goes on holding. *)
LEMMA Invariance == Spec => []IInv
  <1>1. IInv /\ [Next]_vars => IInv'
    <2> SUFFICES ASSUME IInv, [Next]_vars PROVE IInv'
      OBVIOUS
    <2>1. TypeOK /\ TypeOK'
      BY NextType DEF IInv
    <2>2. ASSUME ~mistaken' PROVE Good'
      <3>1. Good
        BY <2>2, History DEF IInv
      <3> QED BY <2>1, <2>2, <3>1, NextGood
    <2> QED BY <2>1, <2>2 DEF IInv
  <1> QED BY <1>1, InitGood, PTL DEF Spec

(* What the loop takes a number for is what the kernel has there, whatever  *)
(* was closed and reopened in between, by how many clients and scripts.     *)
THEOREM NumbersCorrect == Spec => []NumbersAgree
  <1>1. IInv => NumbersAgree
    <2> SUFFICES ASSUME TypeOK, Good, NEW f \in Fds, Client(f)
                 PROVE  /\ Fdt[f] \in Peers
                        /\ \A g \in Fds \ {f} : Client(g) => Fdt[g] # Fdt[f]
                        /\ conn[f].fd # NoFd => Fdt[conn[f].fd] = conn[f].run
      BY DEF IInv, NumbersAgree, Client, Fdt
    <2> QED BY Numbers DEF Good, Sockets, Pipes
  <1> QED BY <1>1, Invariance, PTL

(* The output of a script never goes to another connection than its own.    *)
THEOREM RoutesCorrect == Spec => []RoutesRight
  <1>1. IInv => RoutesRight
    BY DEF IInv, RoutesRight, Good, Piped, Client, Fdt
  <1> QED BY <1>1, Invariance, PTL

(* No descriptor is lost but those of a pipe whose second failed.           *)
THEOREM DescriptorsAccounted == Spec => []AllAccounted
  <1>1. IInv => AllAccounted
    <2> SUFFICES ASSUME TypeOK, Good, NEW f \in Fds, Fdt[f] \notin {Free, Leaked}
                 PROVE  Client(f) \/ \E c \in Fds : Client(c) /\ conn[c].fd = f
      BY DEF IInv, AllAccounted, Client, Fdt
    <2>1. Fdt[f] \in Peers \/ Fdt[f] \in Runs
      BY DEF TypeOK, Fdt, Objects
    <2> QED BY <2>1 DEF Good, Sockets, Pipes
  <1> QED BY <1>1, Invariance, PTL

(* Every client is watched, with the mask of its stage.                     *)
THEOREM MasksCorrect == Spec => []ClientsWatched
  <1>1. IInv => ClientsWatched
    <2> SUFFICES ASSUME TypeOK, Good, NEW f \in Fds, Client(f)
                 PROVE  \E r \in kernel.regs :
                           /\ r.fd = f /\ r.obj = Fdt[f]
                           /\ conn[f].left > 0 => r.mask = "OUT"
                           /\ ~conn[f].busy /\ conn[f].left = 0 => r.mask = "IN"
      BY DEF IInv, ClientsWatched, Client, Fdt
    <2>1. PICK r \in kernel.regs : r.fd = f /\ r.obj = Fdt[f]
      BY DEF Good, Watched
    <2>2. r.obj \in Peers /\ r.mask \in Masks
      BY <2>1, Numbers DEF TypeOK
    <2>3. conn[f].left > 0 => r.mask = "OUT"
      BY <2>1, <2>2 DEF Good, Masked
    <2>4. ~conn[f].busy /\ conn[f].left = 0 => r.mask = "IN"
      BY <2>1, <2>2, EventLoopAssumption DEF Good, Masked, Masks
    <2> QED BY <2>1, <2>3, <2>4
  <1> QED BY <1>1, Invariance, PTL

(* EPOLLOUT never finds a client without a request or a response.           *)
THEOREM NoCrash == Spec => []NeverCrashes
  <1>1. IInv => NeverCrashes
    BY DEF IInv, NeverCrashes, Good
  <1> QED BY <1>1, Invariance, PTL
=============================================================================
