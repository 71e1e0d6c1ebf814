---------------------------- MODULE MCRateLimit -----------------------------
EXTENDS RateLimit, TLC

CONSTANTS fast, slow

(* A short window of one request, and a long one of two. *)
Max == fast :> 1 @@ slow :> 2
Win == fast :> 2 @@ slow :> 3

Symmetry == Permutations(Requests)
=============================================================================
