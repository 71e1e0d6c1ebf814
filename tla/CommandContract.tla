-------------------------- MODULE CommandContract ---------------------------
(***************************************************************************)
(* What the command path promises of each job, with no outbox, dispatcher, *)
(* queue or worker in sight: a request to run a job (its submission, then  *)
(* each re-drive) is a permit for at most one run; a run that ends well    *)
(* commits the job's effect, once, and the job is then done; a request     *)
(* that cannot be served, or a run that fails for a reason worth a retry,  *)
(* parks the job for an operator; nothing else happens to a job.           *)
(***************************************************************************)
EXTENDS Naturals

CONSTANTS Jobs

VARIABLES
  phase,     \* [Jobs -> where the job is]
  requests,  \* [Jobs -> how often a run was asked for]
  starts,    \* [Jobs -> how often one began]
  effect     \* [Jobs -> whether its effect was committed]

vars == <<phase, requests, starts, effect>>

Phase ==
  {"absent", "waiting", "running", "done", "refused", "parked", "abandoned"}

TypeOK ==
  /\ phase \in [Jobs -> Phase]
  /\ requests \in [Jobs -> Nat]
  /\ starts \in [Jobs -> Nat]
  /\ effect \in [Jobs -> BOOLEAN]

Init ==
  /\ phase = [j \in Jobs |-> "absent"]
  /\ requests = [j \in Jobs |-> 0]
  /\ starts = [j \in Jobs |-> 0]
  /\ effect = [j \in Jobs |-> FALSE]

Move(j, from, to) ==
  /\ phase[j] = from
  /\ phase' = [phase EXCEPT ![j] = to]

(* A submission, or the re-drive of a parked job. *)
Request(j) ==
  /\ Move(j, "absent", "waiting") \/ Move(j, "parked", "waiting")
  /\ requests' = [requests EXCEPT ![j] = @ + 1]
  /\ UNCHANGED <<starts, effect>>

(* A run needs a request no earlier run used. *)
Start(j) ==
  /\ Move(j, "waiting", "running")
  /\ starts[j] < requests[j]
  /\ starts' = [starts EXCEPT ![j] = @ + 1]
  /\ UNCHANGED <<requests, effect>>

Complete(j) ==
  /\ Move(j, "running", "done")
  /\ ~effect[j]
  /\ effect' = [effect EXCEPT ![j] = TRUE]
  /\ UNCHANGED <<requests, starts>>

(* A failure of policy or budget: final. *)
Refuse(j) ==
  /\ Move(j, "running", "refused")
  /\ UNCHANGED <<requests, starts, effect>>

Abandon(j) ==
  /\ Move(j, "parked", "abandoned")
  /\ UNCHANGED <<requests, starts, effect>>

(* A run failed or fell silent, or a request could not be dispatched; one  *)
(* pass of the sweep or of the reclaim may park several jobs at once.      *)
Park(from) ==
  /\ \E S \in SUBSET {j \in Jobs : phase[j] = from} :
       phase' = [j \in Jobs |-> IF j \in S THEN "parked" ELSE phase[j]]
  /\ UNCHANGED <<requests, starts, effect>>

Next ==
  \/ \E j \in Jobs : Request(j) \/ Start(j) \/ Complete(j) \/ Refuse(j) \/ Abandon(j)
  \/ Park("waiting")
  \/ Park("running")

Spec == Init /\ [][Next]_vars
=============================================================================
