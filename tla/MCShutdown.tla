----------------------------- MODULE MCShutdown -----------------------------
(* Instances of Shutdown for TLC. *)
EXTENDS Shutdown
CONSTANTS c1, c2, l1, l2
TwoClients   == {c1, c2}
TwoListeners == {l1, l2}
=============================================================================
