----------------------------- MODULE MCCgiBody ------------------------------
(* Instances of CgiBody for TLC. *)
EXTENDS CgiBody
AllHabits == {"slurp", "echo", "greet", "ignore"}
=============================================================================
