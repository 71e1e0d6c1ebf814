------------------------------ MODULE MCRewards ------------------------------
(***************************************************************************)
(* An instance of Rewards for TLC.                                         *)
(***************************************************************************)
EXTENDS Rewards, TLC

CONSTANTS i1, i2

OneEach == [i \in Items |-> IF i = i1 THEN 1 ELSE 2]
Everything == Attendances

Interchangeable ==
  Permutations(Events) \union Permutations(Redemptions) \union Permutations(Sessions)

=============================================================================
