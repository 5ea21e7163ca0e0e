---------------------------- MODULE MCCoreRuntime ----------------------------
(* Small instances of CoreRuntime. *)
EXTENDS CoreRuntime, TLC

Symmetric ==
    Permutations(Activities) \cup Permutations(Threads) \cup Permutations(SaveLatches)
=============================================================================
