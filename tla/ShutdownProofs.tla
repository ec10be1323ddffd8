--------------------------- MODULE ShutdownProofs ---------------------------
(* Proofs about Shutdown, for any number of clients and listening sockets. *)
EXTENDS Shutdown, TLAPS

NoScripts == \A c \in Clients : scripts[c] = "none"

(* What is not yet taken on the way up, and already given back on the way   *)
(* down.  "instance" is reached from both sides.                            *)
StagesInv ==
    /\ at \in {"start", "sockets", "epoll", "instance", "exited"} => NoScripts
    /\ at = "flag" => NoScripts /\ parsers = {}
    /\ at \in {"start", "sockets", "epoll", "maps", "instance", "exited"}
          => parsers = {} /\ ~epollFd
    /\ at = "exited" => serversFd = {}

IInv == TypeOK /\ StagesInv

(* Nothing is held at the start. *)
LEMMA InitIInv == Init => IInv
  BY DEF Init, IInv, TypeOK, StagesInv, NoScripts

(* A signal or the end of a script, at any moment, keeps the invariant, and *)
(* so does each step of main.                                               *)
LEMMA NextIInv == IInv /\ [Next]_vars => IInv'
  <1> SUFFICES ASSUME IInv, [Next]_vars PROVE IInv'
    OBVIOUS
  <1> USE DEF IInv, TypeOK, StagesInv, NoScripts
  <1>1. CASE Interrupt
    BY <1>1 DEF Interrupt
  <1>2. ASSUME NEW c \in Clients, ScriptEnds(c) PROVE IInv'
    BY <1>2 DEF ScriptEnds
  <1>3. CASE InstallHandler \/ GetServersFds \/ CreateEpoll \/ SetRunning
    <2>1. CASE InstallHandler
      BY <2>1 DEF InstallHandler
    <2>2. CASE GetServersFds
      <3>1. serversFd' \subseteq Listeners /\ at' = "epoll"
        BY <2>2 DEF GetServersFds
      <3> QED
        BY <2>2, <3>1 DEF GetServersFds
    <2>3. CASE CreateEpoll
      <3>1. CASE at' = "flag" /\ epollFd' = TRUE
        BY <2>3, <3>1 DEF CreateEpoll
      <3>2. CASE at' = "instance" /\ UNCHANGED epollFd
        BY <2>3, <3>2 DEF CreateEpoll
      <3> QED
        BY <2>3, <3>1, <3>2 DEF CreateEpoll
    <2>4. CASE SetRunning
      BY <2>4 DEF SetRunning
    <2> QED
      BY <1>3, <2>1, <2>2, <2>3, <2>4
  <1>4. CASE TestFlag \/ WaitReturns
    BY <1>4 DEF TestFlag, WaitReturns
  <1>5. CASE HandleEvents
    <2>1. /\ at' = "test" /\ UNCHANGED <<is_running, asked, serversFd, epollFd>>
          /\ socks' \subseteq Clients /\ parsers' \subseteq Clients
      BY <1>5 DEF HandleEvents
    <2>2. scripts' \in [Clients -> {"none", "running", "stubborn", "ended"}]
      BY <1>5 DEF HandleEvents
    <2> QED
      BY <2>1, <2>2
  <1>6. CASE DeleteParsers \/ DestroyMaps \/ DestroyInstance
    <2>1. CASE DeleteParsers
      BY <2>1 DEF DeleteParsers
    <2>2. CASE DestroyMaps
      <3>1. at' = "instance" /\ NoScripts'
        BY <2>2 DEF DestroyMaps
      <3>2. scripts' \in [Clients -> {"none", "running", "stubborn", "ended"}]
        BY <2>2 DEF DestroyMaps
      <3> QED
        BY <2>2, <3>1, <3>2 DEF DestroyMaps
    <2>3. CASE DestroyInstance
      BY <2>3 DEF DestroyInstance
    <2> QED
      BY <1>6, <2>1, <2>2, <2>3
  <1>7. CASE UNCHANGED vars
    BY <1>7 DEF vars
  <1> QED
    BY <1>1, <1>2, <1>3, <1>4, <1>5, <1>6, <1>7 DEF Next, Main

(* Every variable keeps its type, from main's first step to its last.       *)
THEOREM TypeCorrect == Spec => []TypeOK
  <1>1. IInv => TypeOK
    BY DEF IInv
  <1> QED
    BY <1>1, InitIInv, NextIInv, PTL DEF Spec

(* Whenever SIGINT comes and whether or not the epoll instance could be     *)
(* created, main returns with listeners and epoll instance closed, parsers  *)
(* deleted and no script left.                                              *)
THEOREM ExitIsClean == Spec => []CleanExit
  <1>1. IInv => CleanExit
    BY DEF IInv, StagesInv, NoScripts, CleanExit
  <1> QED
    BY <1>1, InitIInv, NextIInv, PTL DEF Spec
=============================================================================
