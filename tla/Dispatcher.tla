----------------------------- MODULE Dispatcher -----------------------------
(***************************************************************************)
(* ScheduledPass and OutboxDispatcher: processes that sweep stalled jobs,  *)
(* write off stranded outbox rows, claim a batch of rows and turn each     *)
(* into a task.  Every action is one transaction or one call to the queue, *)
(* so passes of several processes interleave as they do in production.     *)
(***************************************************************************)
EXTENDS CommandStore

CONSTANTS Dispatchers

VARIABLES disp  \* [Dispatchers -> where its pass is and what it claimed]

(* ClaimedOutboxRecord: the row, the attempt this claim is, its token. *)
ClaimRecord == [row: Nat, attempts: Nat, token: Nat]

PassStep == {"sweep", "reclaim", "claim", "enqueue", "record", "fail"}

DispatcherTypeOK ==
  /\ disp \in [Dispatchers -> [pc: PassStep, claims: Seq(ClaimRecord)]]
  /\ \A d \in Dispatchers :
       /\ \A k \in DOMAIN disp[d].claims : disp[d].claims[k].row \in RowIds
       /\ (disp[d].claims = <<>>) <=> (disp[d].pc \in {"sweep", "reclaim", "claim"})

DispatcherInit == disp = [d \in Dispatchers |-> [pc |-> "sweep", claims |-> <<>>]]

At(d, step) == disp[d].pc = step

GoTo(d, step) == disp' = [disp EXCEPT ![d].pc = step]

Current(d) == Head(disp[d].claims)

CurrentRow(d) == outbox[Current(d).row]

(* The next claimed row, or the end of the pass (lag and heartbeat only    *)
(* read).                                                                  *)
NextRow(d) ==
  disp' = [disp EXCEPT ![d] =
             [pc |-> IF Len(@.claims) = 1 THEN "sweep" ELSE "enqueue",
              claims |-> Tail(@.claims)]]

(* Mutant: a pass that ends keeps its batch. *)
EndPassKeepsClaims(d) == disp' = [disp EXCEPT ![d].pc = "sweep"]

EndPass(d) == disp' = [disp EXCEPT ![d] = [pc |-> "sweep", claims |-> <<>>]]

-----------------------------------------------------------------------------
(* StalledJobSweeper.sweep(): the jobs and their timed_out events are one  *)
(* transaction.                                                            *)
Sweep(d) ==
  /\ At(d, "sweep")
  /\ \E S \in Batches(ExpiredJobs) :
       /\ job' = [j \in Jobs |->
                    IF j \in S THEN [status |-> "timed_out", lease |-> "none"] ELSE job[j]]
       /\ log' = [j \in Jobs |->
                    IF j \in S
                      THEN log[j] \union {[kind |-> "timed_out", run |-> runs[j]]}
                      ELSE log[j]]
  /\ GoTo(d, "reclaim")
  /\ UNCHANGED <<outbox, task, runs, faults>>

(* The guarded failure of the sweep: the pass goes on. *)
SweepFails(d) ==
  /\ At(d, "sweep")
  /\ GoTo(d, "reclaim")
  /\ Fault
  /\ UNCHANGED <<job, outbox, log, task, runs>>

(* Mutant: the jobs of the rows are left queued. *)
ReclaimRowsOnly(d) ==
  /\ At(d, "reclaim")
  /\ LET S == Oldest({i \in RowIds : Stranded(i)}) IN
     outbox' = [i \in RowIds |-> IF i \in S THEN Finished(outbox[i], "failed") ELSE outbox[i]]
  /\ GoTo(d, "claim")
  /\ UNCHANGED <<job, log, task, runs, faults>>

(* reclaim_stranded(): the rows and their jobs are one transaction; a job  *)
(* that already left 'queued' is left as it was.                           *)
Reclaim(d) ==
  /\ At(d, "reclaim")
  /\ LET S == Oldest({i \in RowIds : Stranded(i)})
         owners == {outbox[i].job : i \in S}
     IN /\ outbox' = [i \in RowIds |->
                        IF i \in S THEN Finished(outbox[i], "failed") ELSE outbox[i]]
        /\ job' = [j \in Jobs |->
                     IF j \in owners /\ job[j].status = "queued"
                       THEN [status |-> "failed_provider", lease |-> "none"]
                       ELSE job[j]]
  /\ GoTo(d, "claim")
  /\ UNCHANGED <<log, task, runs, faults>>

ReclaimFails(d) ==
  /\ At(d, "reclaim")
  /\ GoTo(d, "claim")
  /\ Fault
  /\ UNCHANGED <<job, outbox, log, task, runs>>

(* claim_batch(): the oldest claimable rows, one attempt and one fresh     *)
(* token each; the dispatcher works on them oldest first.                  *)
Leased(row) ==
  [row EXCEPT !.status = "leased", !.lease = "live",
              !.attempts = @ + 1, !.token = row.attempts + 1]

ClaimOf(i) == [row |-> i, attempts |-> outbox[i].attempts + 1, token |-> outbox[i].attempts + 1]

InOrder(S) ==
  {q \in [1 .. Cardinality(S) -> S] : \A a, b \in DOMAIN q : a < b => q[a] < q[b]}

ClaimBatch(d) ==
  /\ At(d, "claim")
  /\ LET S == Oldest({i \in RowIds : Claimable(i)}) IN
     \E q \in InOrder(S) :
        /\ outbox' = [i \in RowIds |-> IF i \in S THEN Leased(outbox[i]) ELSE outbox[i]]
        /\ disp' = [disp EXCEPT ![d] =
                      [pc |-> IF S = {} THEN "sweep" ELSE "enqueue",
                       claims |-> [k \in DOMAIN q |-> ClaimOf(q[k])]]]
  /\ UNCHANGED <<job, log, task, runs, faults>>

(* A failing claim is raised: the pass ends with nothing claimed. *)
ClaimFails(d) ==
  /\ At(d, "claim")
  /\ EndPass(d)
  /\ Fault
  /\ UNCHANGED <<job, outbox, log, task, runs>>

-----------------------------------------------------------------------------
(* _dispatch_row(): the enqueue is outside every transaction. *)

Created(d) ==
  LET n == TaskName(CurrentRow(d).job, CurrentRow(d).gen)
  IN  task' = IF task[n] = "none" THEN [task EXCEPT ![n] = "live"] ELSE task

(* The queue accepts the task, or answers TaskAlreadyExists. *)
Enqueue(d) ==
  /\ At(d, "enqueue")
  /\ Created(d)
  /\ GoTo(d, "record")
  /\ UNCHANGED <<job, outbox, log, runs, faults>>

(* The call fails, with or without having created the task. *)
EnqueueFails(d) ==
  /\ At(d, "enqueue")
  /\ Created(d) \/ task' = task
  /\ GoTo(d, "fail")
  /\ Fault
  /\ UNCHANGED <<job, outbox, log, runs>>

(* The transaction of _record_dispatched(): nothing when the row is no     *)
(* longer held, otherwise the row, and the job if it is still queued.      *)
MarkDispatched(d) ==
  LET c == Current(d) IN
  IF HeldBy(c)
    THEN /\ outbox' = [outbox EXCEPT ![c.row] = Finished(@, "dispatched")]
         /\ job' = Transition(job, CurrentRow(d).job, "queued", "dispatched", "none")
    ELSE UNCHANGED <<job, outbox>>

RecordDispatched(d) ==
  /\ At(d, "record")
  /\ MarkDispatched(d)
  /\ NextRow(d)
  /\ UNCHANGED <<log, task, runs, faults>>

(* The transaction raises, whether it was rolled back or committed with    *)
(* its answer lost: the dispatcher then records a failure.                 *)
RecordDispatchedFails(d) ==
  /\ At(d, "record")
  /\ MarkDispatched(d) \/ UNCHANGED <<job, outbox>>
  /\ GoTo(d, "fail")
  /\ Fault
  /\ UNCHANGED <<log, task, runs>>

(* Mutant: the job is parked whether or not the row may be retried. *)
MarkFailedParks(d) ==
  LET c == Current(d) IN
  IF ~HeldBy(c) THEN UNCHANGED <<job, outbox>>
  ELSE /\ job' = Transition(job, CurrentRow(d).job, "queued", "failed_provider", "none")
       /\ outbox' = [outbox EXCEPT ![c.row].lease = "live"]

(* Mutant: the last attempt is taken to be the one before it. *)
MarkFailedEarly(d) ==
  LET c == Current(d) IN
  IF ~HeldBy(c) THEN UNCHANGED <<job, outbox>>
  ELSE IF c.attempts + 1 >= MaxDispatchAttempts
    THEN /\ outbox' = [outbox EXCEPT ![c.row] = Finished(@, "failed")]
         /\ job' = Transition(job, CurrentRow(d).job, "queued", "failed_provider", "none")
    ELSE /\ outbox' = [outbox EXCEPT ![c.row].lease = "live"]
         /\ job' = job

(* The transaction of _record_failure(): a retry after a back-off, which   *)
(* is a lease like any other, or on the last attempt the end of the row    *)
(* and of its job.                                                         *)
MarkFailed(d) ==
  LET c == Current(d) IN
  IF ~HeldBy(c) THEN UNCHANGED <<job, outbox>>
  ELSE IF c.attempts >= MaxDispatchAttempts
    THEN /\ outbox' = [outbox EXCEPT ![c.row] = Finished(@, "failed")]
         /\ job' = Transition(job, CurrentRow(d).job, "queued", "failed_provider", "none")
    ELSE /\ outbox' = [outbox EXCEPT ![c.row].lease = "live"]
         /\ job' = job

RecordFailure(d) ==
  /\ At(d, "fail")
  /\ MarkFailed(d)
  /\ NextRow(d)
  /\ UNCHANGED <<log, task, runs, faults>>

(* _record_failure_safely() swallows the exception. *)
RecordFailureFails(d) ==
  /\ At(d, "fail")
  /\ NextRow(d)
  /\ Fault
  /\ UNCHANGED <<job, outbox, log, task, runs>>

(* The process ends: what it claimed stays leased until the lease is over. *)
DispatcherCrash(d) ==
  /\ ~At(d, "sweep")
  /\ EndPass(d)
  /\ Fault
  /\ UNCHANGED <<job, outbox, log, task, runs>>

-----------------------------------------------------------------------------
(* The steps of a pass that are not failures: fairness is about these. *)
PassProgress(d) ==
  \/ Sweep(d)
  \/ Reclaim(d)
  \/ ClaimBatch(d)
  \/ Enqueue(d)
  \/ RecordDispatched(d)
  \/ RecordFailure(d)

PassFault(d) ==
  \/ SweepFails(d)
  \/ ReclaimFails(d)
  \/ ClaimFails(d)
  \/ EnqueueFails(d)
  \/ RecordDispatchedFails(d)
  \/ RecordFailureFails(d)
  \/ DispatcherCrash(d)
=============================================================================
