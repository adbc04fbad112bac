-------------------------- MODULE MCOrderExecution --------------------------
(* Small instances of OrderExecution for TLC: named constants for the sets. *)
EXTENDS OrderExecution, TLC

RequestSymmetry == Permutations(Users) \cup Permutations(ExitId)
=============================================================================
