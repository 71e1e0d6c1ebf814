----------------------------- MODULE MCEventLog -----------------------------
EXTENDS EventLog, TLC

(* No operator orders processes.  Not used for liveness. *)
Symmetry == Permutations(Workers) \union Permutations(Sweepers)
=============================================================================
