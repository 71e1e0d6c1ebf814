----------------------------- MODULE JobStates -----------------------------
(***************************************************************************)
(* The durable job state machine of smartmatch_domain/jobs.py: the states  *)
(* a job row may hold and the transitions the domain allows.  Nothing here *)
(* says which code takes a transition; the modules that extend this one    *)
(* do.                                                                     *)
(***************************************************************************)

JobState ==
  { "queued", "dispatched", "running", "succeeded", "partial",
    "failed_provider", "failed_budget", "failed_policy", "cancelled",
    "timed_out", "redrive_pending", "abandoned" }

(* TRANSITIONS: the states a job may move to from each state.  A state the *)
(* table maps to nothing is terminal.                                      *)
TRANSITIONS ==
  [ s \in JobState |->
      CASE s = "queued"          -> {"dispatched", "cancelled", "failed_provider"}
        [] s = "dispatched"      -> {"running", "cancelled"}
        [] s = "running"         -> {"succeeded", "partial", "failed_provider",
                                     "failed_budget", "failed_policy",
                                     "cancelled", "timed_out"}
        [] s = "failed_provider" -> {"queued", "redrive_pending"}
        [] s = "timed_out"       -> {"queued", "redrive_pending"}
        [] s = "redrive_pending" -> {"queued", "abandoned"}
        [] OTHER                 -> {} ]

CanTransition(from, to) == to \in TRANSITIONS[from]

(* What a handler may make of the job it ran: HandlerResult's two states   *)
(* and the states _state_for gives a failure.                              *)
ResultState  == {"succeeded", "partial"}
FailureState == {"failed_provider", "failed_budget", "failed_policy"}
=============================================================================
