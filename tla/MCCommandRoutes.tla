-------------------------- MODULE MCCommandRoutes ---------------------------
EXTENDS CommandRoutes, TLC

(* No operator orders jobs, keys, notes or handlers.  Used for safety only. *)
Symmetry ==
  Permutations(Jobs) \union Permutations(Keys) \union Permutations(Notes)
    \union Permutations(Handlers)
=============================================================================
