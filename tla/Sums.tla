-------------------------------- MODULE Sums --------------------------------
(***************************************************************************)
(* What a ledger's amounts add up to. The code sums over rows in any order *)
(* (fold_balance(), and the reserved and spent columns of a bucket); here  *)
(* every amount is counted in units of its own, so that a sum is the size  *)
(* of a set.                                                               *)
(***************************************************************************)
EXTENDS Naturals, FiniteSets

Units(f) == UNION {{k} \X (1 .. f[k]) : k \in DOMAIN f}
Total(f) == Cardinality(Units(f))
=============================================================================
