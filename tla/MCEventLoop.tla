---------------------------- MODULE MCEventLoop ----------------------------
(* Instances of EventLoop for TLC. *)
EXTENDS EventLoop, TLC
CONSTANTS p1, p2, q1, q2

OnePeer   == {p1}
TwoPeers  == {p1, p2}
OneRun    == {q1}
Symmetry  == Permutations(Peers) \cup Permutations(Runs)

BothMethods == {"get", "post"}
PostOnly    == {"post"}
AllInputs   == {"cgi", "file", "part", "bad"}
CgiInput    == {"cgi"}
=============================================================================
