--------------------------- MODULE CgiBodyProofs ----------------------------
(* Proofs about CgiBody, for bodies, outputs and pipes of any size. *)
EXTENDS CgiBody, TLAPS

(* A script sees the end of its input only after the server closed it, and  *)
(* the server closes it when all is sent.                                   *)
ClosedAfterAll == ~stdin => sent = body

(* The bounds that CgiBody states of its counters hold in every state:      *)
(* no pipe holds more than its capacity, nothing is read before it is       *)
(* written (send_post_data, execute_with_body).                             *)
THEOREM TypeCorrect == Spec => []TypeOK
<1>1. Init => TypeOK
  BY CgiBodyAssumption DEF Init, TypeOK
<1>2. TypeOK /\ [Next]_vars => TypeOK'
  <2> SUFFICES ASSUME TypeOK, [Next]_vars PROVE TypeOK'
    OBVIOUS
  <2> USE CgiBodyAssumption
  <2>1. CASE Read
    BY <2>1 DEF TypeOK, Read, CanRead, given
  <2>2. CASE Emit
    BY <2>2 DEF TypeOK, Emit, CanPrint, WantsToPrint, given
  <2>3. CASE Exit
    BY <2>3 DEF TypeOK, Exit, given
  <2>4. CASE Write
    BY <2>4 DEF TypeOK, Write, given
  <2>5. CASE Sent
    BY <2>5 DEF TypeOK, Sent, given
  <2>6. CASE UNCHANGED vars
    BY <2>6 DEF TypeOK, vars
  <2> QED
    BY <2>1, <2>2, <2>3, <2>4, <2>5, <2>6 DEF Next
<1> QED
  BY <1>1, <1>2, PTL DEF Spec

(* The script never takes a part of the body for all of it.                 *)
THEOREM BodyIsWhole == Spec => []WholeBody
<1>1. Init => ClosedAfterAll
  BY DEF Init, ClosedAfterAll
<1>2. TypeOK /\ ClosedAfterAll /\ [Next]_vars => ClosedAfterAll'
  <2> SUFFICES ASSUME TypeOK, ClosedAfterAll, [Next]_vars PROVE ClosedAfterAll'
    OBVIOUS
  <2>1. CASE Read
    BY <2>1 DEF ClosedAfterAll, Read, given
  <2>2. CASE Emit
    BY <2>2 DEF ClosedAfterAll, Emit, given
  <2>3. CASE Exit
    BY <2>3 DEF ClosedAfterAll, Exit, given
  <2>4. CASE Write
    BY <2>4 DEF ClosedAfterAll, TypeOK, Write, given
  <2>5. CASE Sent
    BY <2>5 DEF ClosedAfterAll, Sent, given
  <2>6. CASE UNCHANGED vars
    BY <2>6 DEF ClosedAfterAll, vars
  <2> QED
    BY <2>1, <2>2, <2>3, <2>4, <2>5, <2>6 DEF Next
<1>3. ClosedAfterAll => WholeBody
  BY DEF ClosedAfterAll, WholeBody, Eof
<1> QED
  BY <1>1, <1>2, <1>3, TypeCorrect, PTL DEF Spec

(* The server is never stuck in send_post_data with a script that is stuck  *)
(* in its output, when the script reads its input first or its output fits  *)
(* into a pipe.                                                             *)
THEOREM FittingScriptsNeverStick == Spec => []NeverStuck
<1>1. TypeOK => NeverStuck
  <2> SUFFICES ASSUME TypeOK, Fits, at = "send", sent < body, child = "running",
                      sent - taken = Cap
               PROVE  CanRead \/ CanPrint \/ CanExit
    BY DEF NeverStuck
  <2>1. taken < sent
    BY CgiBodyAssumption DEF TypeOK
  <2>2. CASE habit = "slurp"
    BY <2>1, <2>2 DEF CanRead, WantsToRead
  <2>3. CASE habit # "slurp"
    <3>1. output <= Cap
      BY <2>3 DEF Fits
    <3>2. habit \in {"echo", "greet", "ignore"}
      BY <2>3, CgiBodyAssumption DEF TypeOK
    <3>3. CASE printed = output
      <4>1. CASE habit = "ignore"
        BY <3>3, <4>1 DEF CanExit
      <4>2. CASE habit \in {"echo", "greet"}
        BY <2>1, <3>3, <4>2 DEF CanRead, WantsToRead
      <4> QED
        BY <3>2, <4>1, <4>2
    <3>4. CASE printed # output
      <4>1. printed < output /\ printed < Cap
        BY <3>1, <3>4, CgiBodyAssumption DEF TypeOK
      <4>2. CASE habit # "echo"
        BY <2>3, <4>1, <4>2 DEF CanPrint, WantsToPrint
      <4>3. CASE habit = "echo" /\ printed < taken
        BY <4>1, <4>3 DEF CanPrint, WantsToPrint
      <4>4. CASE habit = "echo" /\ ~(printed < taken)
        BY <2>1, <4>4 DEF CanRead, WantsToRead, TypeOK
      <4> QED
        BY <3>2, <4>2, <4>3, <4>4
    <3> QED
      BY <3>3, <3>4
  <2> QED
    BY <2>2, <2>3
<1> QED
  BY <1>1, TypeCorrect, PTL
=============================================================================
