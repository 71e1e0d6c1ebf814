----------------------------- MODULE MCOutreach -----------------------------
(***************************************************************************)
(* An instance of Outreach for TLC, and what the sources say of a send.    *)
(***************************************************************************)
EXTENDS Outreach, TLC

CONSTANTS c1, j1, w1, w2, a1, a2

ToOne == [j \in Jobs |-> c1]

Interchangeable == Permutations(Workers) \union Permutations(Actors)

(* SendDisposition.FAILED: "The provider failed. May succeed on a          *)
(* re-drive." So a command that has succeeded is not one whose message the *)
(* provider failed to take.                                                *)
RedrivenFailureIsSent ==
  \A j \in Jobs : jobs[j].state = "succeeded" => sends[j].disposition # "failed"

=============================================================================
