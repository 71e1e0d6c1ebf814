---------------------------- MODULE CommandPath -----------------------------
(***************************************************************************)
(* The command path as a whole: clients submit jobs, dispatchers turn      *)
(* outbox rows into tasks, the queue delivers tasks to workers, the sweep  *)
(* times out silent jobs, operators re-drive or abandon what failed.       *)
(***************************************************************************)
EXTENDS Dispatcher, Executor, Redrive

vars == <<job, outbox, log, task, runs, faults, disp, worker, records>>

Init ==
  /\ StoreInit
  /\ DispatcherInit
  /\ ExecutorInit
  /\ RedriveInit

ScheduledPassStep(d) ==
  /\ PassProgress(d) \/ PassFault(d)
  /\ UNCHANGED <<worker, records>>

DeliveryOf(w) ==
  /\ \/ \E n \in TaskNames : Deliver(w, n)
     \/ DeliveryProgress(w)
     \/ Progress(w)
     \/ DeliveryFails(w)
  /\ UNCHANGED <<disp, records>>

Decision(j) ==
  /\ Submit(j) \/ RedriveJob(j) \/ AbandonJob(j)
  /\ UNCHANGED <<disp, worker>>

Tick ==
  /\ \/ \E i \in RowIds : LeaseExpires(i)
     \/ \E j \in Jobs : JobLeaseExpires(j)
  /\ UNCHANGED <<disp, worker, records>>

Next ==
  \/ \E d \in Dispatchers : ScheduledPassStep(d)
  \/ \E w \in Workers : DeliveryOf(w)
  \/ \E j \in Jobs : Decision(j)
  \/ Tick

Spec == Init /\ [][Next]_vars

-----------------------------------------------------------------------------
(* Fairness.  A process that runs takes its next step; the scheduler keeps *)
(* starting passes; time passes; the queue keeps delivering a task until   *)
(* it is acknowledged.  Nobody is obliged to submit, re-drive or abandon,  *)
(* and no fault is obliged to happen.                                      *)
Fairness ==
  /\ \A d \in Dispatchers : WF_vars(PassProgress(d) /\ UNCHANGED <<worker, records>>)
  /\ \A w \in Workers : WF_vars(DeliveryProgress(w) /\ UNCHANGED <<disp, records>>)
  /\ \A n \in TaskNames :
       SF_vars(\E w \in Workers : Deliver(w, n) /\ UNCHANGED <<disp, records>>)
  /\ WF_vars(Tick)

FairSpec == Spec /\ Fairness

-----------------------------------------------------------------------------
(* Invariants *)

(* Every variable has its type, a dispatcher holds claims exactly while it *)
(* works on rows, and a worker names a task while it handles one.          *)
TypeOK ==
  /\ StoreTypeOK
  /\ DispatcherTypeOK
  /\ ExecutorTypeOK
  /\ RedriveTypeOK

(* A job that exists has the outbox row it was submitted with. *)
SubmittedHasRow ==
  \A j \in Jobs : job[j].status # "absent" => RowsOf(j) # {}

Live(i) == outbox[i].status \in {"pending", "leased"}

(* Every queued job has an outbox row somebody will still act on. *)
QueuedHasLiveRow ==
  \A j \in Jobs : job[j].status = "queued" => \E i \in RowIds : outbox[i].job = j /\ Live(i)

(* No row is live beside a job that has left 'queued'. *)
LiveRowIsQueued ==
  \A i \in RowIds : Live(i) => job[outbox[i].job].status = "queued"

(* No job has two live rows, one per generation. *)
OneLiveRow ==
  \A i, k \in RowIds : Live(i) /\ Live(k) /\ outbox[i].job = outbox[k].job => i = k

(* A queued job and its one live row go together through every dispatcher  *)
(* crash, late write, reclaim and re-drive: a job queued with no live row  *)
(* would never run, and a live row beside a parked job is the "failed job  *)
(* beside a live row" that _record_failure shares a transaction to prevent.*)
OutboxCarriesQueue == QueuedHasLiveRow /\ LiveRowIsQueued /\ OneLiveRow

(* A job holds a lease exactly while it runs: the sweep looks for expired  *)
(* leases only, so a running job without one would be running for ever,    *)
(* and a lease left behind would time out a job that is not running.       *)
RunningHasLease ==
  \A j \in Jobs : Running(j) <=> job[j].lease # "none"

(* A row leaves the outbox as dispatched only after the queue accepted its *)
(* task, whatever failed and whoever else held the row in between; and the *)
(* queue forgets a task only when its row is settled: a delivery that      *)
(* overtakes the dispatcher's own record is not acknowledged away.         *)
TaskFollowsRow ==
  \A i \in RowIds :
    LET t == task[TaskName(outbox[i].job, outbox[i].gen)] IN
    /\ outbox[i].status = "dispatched" => t # "none"
    /\ t = "gone" => ~Live(i)

(* Duplicate deliveries, redeliveries and tasks of older generations never *)
(* make a job run more often than it was dispatched.                       *)
OneClaimPerDispatch ==
  \A j \in Jobs :
    runs[j] <= Cardinality({i \in RowsOf(j) : outbox[i].status = "dispatched"})

Completions(j) == {e \in log[j] : e.kind = "completed"}

(* However many runs a job has had, its handler's writes were committed at *)
(* most once, and exactly when the job is succeeded or partial.            *)
EffectOnce ==
  \A j \in Jobs :
    /\ Cardinality(Completions(j)) <= 1
    /\ Completions(j) # {} <=> job[j].status \in ResultState

(* A row is written off only when every attempt was spent, and no stale    *)
(* write ever makes it spend more than there are.                          *)
WrittenOffIsSpent ==
  \A i \in RowIds :
    /\ outbox[i].attempts <= MaxDispatchAttempts
    /\ outbox[i].status = "failed" => outbox[i].attempts = MaxDispatchAttempts

(* The generation a re-drive would use names a task no earlier attempt     *)
(* used: uq_outbox_task_name never refuses a re-drive (ADR-0007).          *)
RedriveNotRefused ==
  \A j \in Jobs : Parkable(j) => ~NameTaken(TaskName(j, NextGeneration(j)))

(* The newest audit record of a job names every re-drive the job ever had, *)
(* and the abandonment if there was one: no decision is lost by parking    *)
(* the job again.                                                          *)
DecisionsKept ==
  \A j \in Jobs :
    LET newest == records[j][Len(records[j])].history IN
    /\ records[j] # <<>> =>
         {e.gen : e \in {f \in newest : f.event = "redriven"}} = 1 .. NextGeneration(j) - 1
    /\ records[j] = <<>> => NextGeneration(j) <= 1
    /\ job[j].status = "abandoned" <=>
         records[j] # <<>> /\ \E e \in newest : e.event = "abandoned"

(* The invariant the proofs rest on: no part of it is inductive alone.     *)
IndInv == TypeOK /\ SubmittedHasRow /\ OutboxCarriesQueue /\ RunningHasLease

-----------------------------------------------------------------------------
(* Action properties *)

(* While a row's lease is running, only the dispatcher whose claim minted  *)
(* the row's token writes to it: one that lost its lease to a peer cannot  *)
(* shorten the peer's lease or spend its attempts (J17).                   *)
Holds(d, i) ==
  \E k \in DOMAIN disp[d].claims :
    disp[d].claims[k].row = i /\ disp[d].claims[k].token = outbox[i].token

LiveLeaseRespected ==
  [][\A d \in Dispatchers, i \in RowIds :
       /\ outbox[i].status = "leased"
       /\ outbox[i].lease = "live"
       /\ disp'[d] # disp[d]
       /\ outbox'[i] # outbox[i]
       => Holds(d, i)]_vars

-----------------------------------------------------------------------------
(* Liveness *)

(* Every queued job is dispatched or parked, whatever crashed. *)
QueuedIsResolved ==
  \A j \in Jobs : job[j].status = "queued" ~> job[j].status # "queued"

(* Every running job ends, through its worker or through the sweep. *)
RunningIsResolved ==
  \A j \in Jobs : job[j].status = "running" ~> job[j].status # "running"

(* The queue is not asked for ever to deliver a task again. *)
TaskIsRetired ==
  \A n \in TaskNames : task[n] = "live" ~> task[n] = "gone"

-----------------------------------------------------------------------------
(* What comments in the code say, and the code does not do *)

(* execution.py: a refused delivery whose job is no longer queued may be   *)
(* acknowledged because "the job has moved on".  Then a dispatched job     *)
(* always has a task the queue will still deliver.                         *)
DispatchedIsDeliverable ==
  \A j \in Jobs :
    job[j].status = "dispatched" => \E g \in Generations : task[TaskName(j, g)] = "live"

(* execution.py: a swept handler's eventual outcome is discarded. *)
SweptOutcomeDiscarded ==
  \A j \in Jobs : \A e \in log[j] :
    e.kind = "timed_out" =>
      ~ \E f \in log[j] : f.run = e.run /\ f.kind \in {"completed", "failed"}
=============================================================================
