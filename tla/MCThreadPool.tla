---------------------------- MODULE MCThreadPool ----------------------------
(* Instances of ThreadPool for TLC. *)
EXTENDS ThreadPool, TLC

CONSTANTS c1, c2
MCClients == {c1, c2}
OneClient == {c1}

(* The clients are interchangeable, the workers are numbers. *)
Symmetry == Permutations(Clients)
=============================================================================
