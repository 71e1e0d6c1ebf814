---------------------------- MODULE RouteTables -----------------------------
(***************************************************************************)
(* What the command routes read and write: the job rows, the outbox rows   *)
(* each labelled with the key whose command added it, the idempotency      *)
(* records, and the accepted answers clients have been given.              *)
(***************************************************************************)
EXTENDS JobStates, Integers, Sequences, FiniteSets

CONSTANTS
  Jobs,   \* job ids, those of submissions still to come included
  Keys,   \* the Idempotency-Key values clients use
  Notes   \* what else a body says: a payload, or a reason

(* A key is scoped to its command type (uq_idempotency_scope). *)
Command == {"submit", "redrive", "abandon"}
Scope   == [command: Command, key: Keys]

(* result_generation is NULL for a command that dispatches nothing new. *)
NoGeneration == -1
Generation   == {NoGeneration} \union Nat

(* An idempotency_record: the fingerprint of its request is the note, and  *)
(* for a re-drive or an abandonment the job too.                           *)
Record == [scope: Scope, note: Notes, job: Jobs, generation: Generation]

(* What a 2xx answer tells the client. *)
Answer == [scope: Scope, job: Jobs, generation: Generation]

VARIABLES
  job,      \* [Jobs -> the status of its row, "absent" before submission]
  outbox,   \* [Jobs -> the scopes its outbox rows were added under, by generation]
  idem,     \* the idempotency_record rows
  answers   \* the accepted answers sent

tables == <<job, outbox, idem, answers>>

TablesTypeOK ==
  /\ job \in [Jobs -> JobState \union {"absent"}]
  /\ outbox \in [Jobs -> Seq(Scope)]
  /\ idem \in SUBSET Record
  /\ answers \in SUBSET Answer

TablesInit ==
  /\ job = [j \in Jobs |-> "absent"]
  /\ outbox = [j \in Jobs |-> <<>>]
  /\ idem = {}
  /\ answers = {}

-----------------------------------------------------------------------------
Recorded(s) == {r \in idem : r.scope = s}

Parkable(j) == job[j] # "absent" /\ CanTransition(job[j], "redrive_pending")

(* _next_generation(): how many outbox rows the job has. *)
NextGeneration(j) == Len(outbox[j])

Enqueued(j, s) == outbox' = [outbox EXCEPT ![j] = Append(@, s)]

Keep(s, n, j, g) ==
  idem' = idem \union {[scope |-> s, note |-> n, job |-> j, generation |-> g]}

(* What the commit of an accepted command writes, each in one transaction. *)
CreateJob(s, n, j) ==
  /\ job' = [job EXCEPT ![j] = "queued"]
  /\ Enqueued(j, s)
  /\ Keep(s, n, j, NoGeneration)
  /\ UNCHANGED answers

RequeueJob(s, n, j) ==
  /\ job' = [job EXCEPT ![j] = "queued"]
  /\ Enqueued(j, s)
  /\ Keep(s, n, j, NextGeneration(j))
  /\ UNCHANGED answers

CloseJob(s, n, j) ==
  /\ job' = [job EXCEPT ![j] = "abandoned"]
  /\ Keep(s, n, j, NoGeneration)
  /\ UNCHANGED <<outbox, answers>>

(* The rest of the system moves jobs along every transition but those the  *)
(* routes take; nothing cancels a job.                                     *)
Work(j) ==
  \E to \in JobState \ {"queued", "redrive_pending", "abandoned", "cancelled"} :
    /\ job[j] # "absent"
    /\ CanTransition(job[j], to)
    /\ job' = [job EXCEPT ![j] = to]
    /\ UNCHANGED <<outbox, idem, answers>>
=============================================================================
