------------------------------ MODULE Redrive -------------------------------
(***************************************************************************)
(* CommandSubmission and RedriveRepository: the writes an operator or a    *)
(* client makes.  A re-drive parks the job, re-queues it and adds an       *)
(* outbox row of the next generation in one transaction, and keeps an      *)
(* audit record of what was decided.                                       *)
(***************************************************************************)
EXTENDS CommandStore

VARIABLES records  \* [Jobs -> the job's redrive_record rows, oldest first]

(* attempt_history is a set: what orders it is time, which is not kept.    *)
Entry ==
  [ event: {"attempt", "parked", "redriven", "abandoned"}, gen: Nat,
    detail: JobState \union OutboxStatus ]

RedriveRecord == [history: SUBSET Entry, redriven: BOOLEAN]

RedriveTypeOK == records \in [Jobs -> Seq(RedriveRecord)]

RedriveInit == records = [j \in Jobs |-> <<>>]

-----------------------------------------------------------------------------
(* submit_command(): the job and its outbox row are one transaction. *)
Submit(j) ==
  /\ job[j].status = "absent"
  /\ job' = [job EXCEPT ![j] = [status |-> "queued", lease |-> "none"]]
  /\ EnqueueRow(j, 0)
  /\ UNCHANGED <<log, task, runs, faults, records>>

(* _attempt_entries(): the outbox rows as they are now. *)
AttemptEntries(j) ==
  {[event |-> "attempt", gen |-> outbox[i].gen, detail |-> outbox[i].status] : i \in RowsOf(j)}

(* Mutant: a new record starts an empty history. *)
CarriedNothing(j) == {}

(* What _insert_record() carries over: the decisions of the newest record. *)
Carried(j) ==
  IF records[j] = <<>> THEN {}
  ELSE {e \in records[j][Len(records[j])].history : e.event # "attempt"}

(* Mutant: rows that were written off are not counted. *)
NextGenerationOfDispatched(j) ==
  Cardinality({i \in RowsOf(j) : outbox[i].status = "dispatched"})

(* _next_generation(): the number of rows the job has. *)
NextGeneration(j) == Cardinality(RowsOf(j))

(* Mutant: any failure may be re-driven. *)
ParkableAnyFailure(j) ==
  job[j].status \in {"failed_provider", "failed_budget", "failed_policy", "timed_out"}

(* The state a job can be parked from: assert_transition in _open_parking. *)
(* A job is parked and decided on in one transaction, so no transaction    *)
(* finds one already parked.                                               *)
Parkable(j) == job[j].status # "absent" /\ CanTransition(job[j].status, "redrive_pending")

(* The record parking inserts, with the decision the same transaction      *)
(* appends to it.                                                          *)
Decided(j, decision, redriven) ==
  LET parked == [event |-> "parked", gen |-> NextGeneration(j) - 1, detail |-> job[j].status]
  IN  records' = [records EXCEPT ![j] =
        Append(@, [history |-> Carried(j) \union AttemptEntries(j) \union {parked, decision},
                   redriven |-> redriven])]

RedriveJob(j) ==
  /\ Parkable(j)
  /\ NextGeneration(j) \in Generations
  /\ job' = [job EXCEPT ![j] = [status |-> "queued", lease |-> "none"]]
  /\ EnqueueRow(j, NextGeneration(j))
  /\ Decided(j, [event |-> "redriven", gen |-> NextGeneration(j), detail |-> "queued"], TRUE)
  /\ UNCHANGED <<log, task, runs, faults>>

AbandonJob(j) ==
  /\ Parkable(j)
  /\ job' = [job EXCEPT ![j] = [status |-> "abandoned", lease |-> "none"]]
  /\ Decided(j, [event |-> "abandoned", gen |-> NextGeneration(j) - 1, detail |-> "abandoned"], FALSE)
  /\ UNCHANGED <<outbox, log, task, runs, faults>>
=============================================================================
