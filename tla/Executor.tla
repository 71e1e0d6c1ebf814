------------------------------ MODULE Executor ------------------------------
(***************************************************************************)
(* TaskExecutor behind POST /tasks/execute: workers that answer the        *)
(* queue's deliveries, and the queue that makes them.  A delivery claims   *)
(* the job, emits, runs the handler and finishes, each in a transaction of *)
(* its own, so two deliveries of one task, a sweep and a re-drive can all  *)
(* come between two of its steps.                                          *)
(***************************************************************************)
EXTENDS CommandStore

CONSTANTS Workers

VARIABLES worker  \* [Workers -> the delivery it handles, and where it is]

NoTask == <<>>

DeliveryStep == {"idle", "delivered", "refused", "claimed", "working", "ack"}

ExecutorTypeOK ==
  /\ worker \in [Workers -> [pc: DeliveryStep, task: TaskNames \union {NoTask}, run: Nat]]
  /\ \A w \in Workers : worker[w].pc # "idle" => worker[w].task \in TaskNames

Idle == [pc |-> "idle", task |-> NoTask, run |-> 0]

ExecutorInit == worker = [w \in Workers |-> Idle]

On(w, step) == worker[w].pc = step

Step(w, step) == worker' = [worker EXCEPT ![w].pc = step]

JobOf(w) == worker[w].task[1]

-----------------------------------------------------------------------------
(* The queue delivers at least once: a task it has not seen acknowledged   *)
(* may be delivered again while an earlier delivery is still running.      *)
Deliver(w, n) ==
  /\ On(w, "idle")
  /\ task[n] = "live"
  /\ worker' = [worker EXCEPT ![w] = [pc |-> "delivered", task |-> n, run |-> 0]]
  /\ UNCHANGED storeVars

(* Mutant: a claim that starts no lease. *)
ClaimJobUndated(w) ==
  /\ On(w, "delivered")
  /\ IF job[JobOf(w)].status = "dispatched"
       THEN /\ job' = Transition(job, JobOf(w), "dispatched", "running", "none")
            /\ runs' = [runs EXCEPT ![JobOf(w)] = @ + 1]
            /\ worker' = [worker EXCEPT ![w] =
                            [pc |-> "claimed", task |-> @.task, run |-> runs[JobOf(w)] + 1]]
       ELSE Step(w, "refused") /\ UNCHANGED <<job, runs>>
  /\ UNCHANGED <<outbox, log, task, faults>>

(* Mutant: an early delivery claims the job at once. *)
ClaimJobEarly(w) ==
  /\ On(w, "delivered")
  /\ IF job[JobOf(w)].status \in {"queued", "dispatched"}
       THEN /\ job' = [job EXCEPT ![JobOf(w)] = [status |-> "running", lease |-> "live"]]
            /\ runs' = [runs EXCEPT ![JobOf(w)] = @ + 1]
            /\ worker' = [worker EXCEPT ![w] =
                            [pc |-> "claimed", task |-> @.task, run |-> runs[JobOf(w)] + 1]]
       ELSE Step(w, "refused") /\ UNCHANGED <<job, runs>>
  /\ UNCHANGED <<outbox, log, task, faults>>

(* execute(): claim() takes a dispatched job and nothing else. *)
ClaimJob(w) ==
  /\ On(w, "delivered")
  /\ IF job[JobOf(w)].status = "dispatched"
       THEN /\ job' = Transition(job, JobOf(w), "dispatched", "running", "live")
            /\ runs' = [runs EXCEPT ![JobOf(w)] = @ + 1]
            /\ worker' = [worker EXCEPT ![w] =
                            [pc |-> "claimed", task |-> @.task, run |-> runs[JobOf(w)] + 1]]
       ELSE Step(w, "refused") /\ UNCHANGED <<job, runs>>
  /\ UNCHANGED <<outbox, log, task, faults>>

(* Mutant: every refused delivery is answered 503. *)
EarlyDeliveryAlways(w) ==
  /\ On(w, "refused")
  /\ worker' = [worker EXCEPT ![w] = Idle]
  /\ UNCHANGED storeVars

(* The refused claim is explained by a second read, in a transaction of    *)
(* its own: a job that reads queued is an early delivery, answered 503 so  *)
(* that the queue delivers it again; anything else is a duplicate and is   *)
(* acknowledged.                                                           *)
EarlyDelivery(w) ==
  /\ On(w, "refused")
  /\ job[JobOf(w)].status = "queued"
  /\ worker' = [worker EXCEPT ![w] = Idle]
  /\ UNCHANGED storeVars

(* Mutant: every refused delivery is acknowledged. *)
DuplicateDeliveryAlways(w) ==
  /\ On(w, "refused")
  /\ Step(w, "ack")
  /\ UNCHANGED storeVars

DuplicateDelivery(w) ==
  /\ On(w, "refused")
  /\ job[JobOf(w)].status # "queued"
  /\ Step(w, "ack")
  /\ UNCHANGED storeVars

(* _emit(): the event and the renewed lease are one transaction, and the   *)
(* renewal asks only that the job be running.                              *)
Start(w) ==
  /\ On(w, "claimed")
  /\ log' = Appended(JobOf(w), "started", worker[w].run)
  /\ RenewLease(JobOf(w))
  /\ Step(w, "working")
  /\ UNCHANGED <<outbox, task, runs, faults>>

(* A handler's progress event is kept out of the log: only what it does to *)
(* the lease matters here.                                                 *)
Progress(w) ==
  /\ On(w, "working")
  /\ Running(JobOf(w))
  /\ RenewLease(JobOf(w))
  /\ UNCHANGED <<outbox, log, task, runs, faults, worker>>

(* Mutant: the outcome is written whatever the job has become. *)
FinishUnconditional(w, state) ==
  /\ On(w, "working")
  /\ LET j == JobOf(w)
         kind == IF state \in ResultState THEN "completed" ELSE "failed"
     IN /\ job' = [job EXCEPT ![j] = [status |-> state, lease |-> "none"]]
        /\ log' = Appended(j, kind, worker[w].run)
  /\ Step(w, "ack")
  /\ UNCHANGED <<outbox, task, runs, faults>>

(* Mutant: the handler's writes commit although the transition did not apply. *)
FinishWithoutRollback(w, state) ==
  /\ On(w, "working")
  /\ LET j == JobOf(w)
         kind == IF state \in ResultState THEN "completed" ELSE "failed"
     IN /\ job' = Transition(job, j, "running", state, "none")
        /\ log' = Appended(j, kind, worker[w].run)
  /\ Step(w, "ack")
  /\ UNCHANGED <<outbox, task, runs, faults>>

(* _finish(): while the job reads running, the handler's writes, the       *)
(* transition and its event commit together; otherwise all is rolled back  *)
(* and the outcome is recorded as discarded.                               *)
Finish(w, state) ==
  /\ On(w, "working")
  /\ LET j == JobOf(w)
         kind == IF state \in ResultState THEN "completed" ELSE "failed"
     IN /\ job' = Transition(job, j, "running", state, "none")
        /\ log' = Appended(j, IF Running(j) THEN kind ELSE "outcome_discarded", worker[w].run)
  /\ Step(w, "ack")
  /\ UNCHANGED <<outbox, task, runs, faults>>

(* 200: the queue deletes the task and keeps its name. *)
Acknowledge(w) ==
  /\ On(w, "ack")
  /\ task' = [task EXCEPT ![worker[w].task] = "gone"]
  /\ worker' = [worker EXCEPT ![w] = Idle]
  /\ UNCHANGED <<job, outbox, log, runs, faults>>

(* The worker dies, or a transaction of the delivery raises and the answer *)
(* is a 500, or the answer is lost: the queue keeps the task.              *)
DeliveryFails(w) ==
  /\ ~On(w, "idle")
  /\ worker' = [worker EXCEPT ![w] = Idle]
  /\ Fault
  /\ UNCHANGED <<job, outbox, log, task, runs>>

-----------------------------------------------------------------------------
(* The steps a delivery takes by itself once the queue has made it. *)
DeliveryProgress(w) ==
  \/ ClaimJob(w)
  \/ EarlyDelivery(w)
  \/ DuplicateDelivery(w)
  \/ Start(w)
  \/ \E state \in ResultState \union FailureState : Finish(w, state)
  \/ Acknowledge(w)
=============================================================================
