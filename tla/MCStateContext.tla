--------------------------- MODULE MCStateContext ---------------------------
(* Instances of StateContext for TLC. *)
EXTENDS StateContext, TLC

CONSTANTS e1, e2

(* A state that is reset next to a shared and to a per-thread one.         *)
Pairs == {e1 :> "reset_per_run" @@ e2 :> p : p \in {"thread_local_owned", "shared"}}

Swap == Permutations(Threads) \union Permutations(Heap)
=============================================================================
