-------------------------- MODULE MCPaidExtraction --------------------------
(***************************************************************************)
(* An instance of PaidExtraction for TLC.                                  *)
(***************************************************************************)
EXTENDS PaidExtraction, FiniteSetsExt, TLC

CONSTANTS j1, j2, w1, w2, s1

Estimates == [j \in Jobs |-> IF j = j1 THEN 2 ELSE 3]
Runs      == [j \in Jobs |-> IF j = j1 THEN 2 ELSE 1]
Ceilings  == [kind \in Kinds |-> CASE kind = "job" -> 4 [] kind = "day" -> 4 [] kind = "month" -> 5]

Unhurried == [jobLease |-> 0, patience |-> 1, decliners |-> Workers, until |-> 1]
Nested    == [jobLease |-> 1, patience |-> 0, decliners |-> {}, until |-> 2]
Timings   == {Unhurried, Nested}

Interchangeable == Permutations(Workers)

(* Units are counted as sums are. *)
ASSUME TotalIsSum ==
  \A f \in [1 .. 3 -> 0 .. 2] : Total(f) = MapThenSumSet(LAMBDA k : f[k], 1 .. 3)

=============================================================================
