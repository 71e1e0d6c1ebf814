--------------------------- MODULE MCCommandPath ----------------------------
EXTENDS CommandRefinement, TLC

(* Processes of one kind are interchangeable, and so are jobs: no operator *)
(* orders them.  Used for safety only.                                     *)
Symmetry == Permutations(Jobs) \union Permutations(Dispatchers) \union Permutations(Workers)
=============================================================================
