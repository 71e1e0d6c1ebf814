------------------------- MODULE CommandRefinement --------------------------
(***************************************************************************)
(* The command path implements its contract: what each job row, its outbox *)
(* rows and its event stream say of the job.                               *)
(***************************************************************************)
EXTENDS CommandPath

PhaseOf(status) ==
  CASE status = "absent"                           -> "absent"
    [] status \in {"queued", "dispatched"}         -> "waiting"
    [] status = "running"                          -> "running"
    [] status \in ResultState                      -> "done"
    [] status \in {"failed_budget", "failed_policy"} -> "refused"
    [] status \in {"failed_provider", "timed_out"} -> "parked"
    [] OTHER                                       -> "abandoned"

Contract ==
  INSTANCE CommandContract WITH
    phase    <- [j \in Jobs |-> PhaseOf(job[j].status)],
    requests <- [j \in Jobs |-> NextGeneration(j)],
    starts   <- runs,
    effect   <- [j \in Jobs |-> Completions(j) # {}]

(* Whatever the interleaving of passes, deliveries, sweeps, re-drives and  *)
(* faults, each step of the path is a step of the contract or invisible to *)
(* it: one run for each submission or re-drive at most, one committed      *)
(* effect for each job at most.                                            *)
ImplementsContract == Contract!Spec
=============================================================================
