-------------------------- MODULE MCParallelFanIn --------------------------
(* Instances of ParallelFanIn for TLC. *)
EXTENDS ParallelFanIn, TLC

CONSTANTS w1, w2
TwoWorkers == {w1, w2}
Symmetry == Permutations(Workers)
=============================================================================
