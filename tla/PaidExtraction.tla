--------------------------- MODULE PaidExtraction ---------------------------
(***************************************************************************)
(* extraction.paid_pages: the handler that reserves, calls a paid provider *)
(* and settles, run by workers whose job may be swept and re-driven under  *)
(* them, beside the sweep of abandoned reservations.                       *)
(*                                                                         *)
(* Of the job only what decides who runs it is here (CommandPath has the   *)
(* rest): a claim takes a ready job and a lease, progress renews it, the   *)
(* sweep takes a running job whose lease is over, a re-drive makes a       *)
(* failed or swept job ready, and an outcome is recorded for a running job *)
(* whoever it comes from. Any statement of the handler may raise: nothing  *)
(* in it catches what the ledger or the event log raises, and the executor *)
(* then ends the job as failed_provider.                                   *)
(***************************************************************************)
EXTENDS SpendLedger, Sums

CONSTANTS
  Workers,      \* worker processes
  Costs,        \* what the provider may charge for a call
  Deployments,  \* job_lease_seconds, beside how long a worker may take from
                \* its claim to the answer to its reservation, the workers
                \* whose handler may refuse before it dispatches (none in the
                \* repository), and a bound: where the clock stops
  MaxRuns       \* bound: how often each job is claimed

ASSUME PaidAssumption ==
  /\ Workers \subseteq Sessions
  /\ Costs \subseteq Nat
  /\ Deployments \subseteq
       [jobLease: Nat, patience: Nat, decliners: SUBSET Workers, until: 0 .. MaxTime]
  /\ MaxRuns \in [Jobs -> Nat]

Sweepers == Sessions \ Workers

VARIABLES
  timing,  \* the deployment's, which never changes
  jobs,    \* [Jobs -> whether it may be claimed, its lease and its claims]
  run,     \* [Workers -> where its handler is, and for which claim]
  calls    \* [Keys -> the claims whose runs called under the reservation]
           \* (history)

vars == <<rows, buckets, tx, now, timing, jobs, run, calls>>

(* "closed" stands for every end that no re-drive takes: succeeded,        *)
(* partial, failed_budget.                                                 *)
Outcome == {"closed", "failed_provider"}

(* Of a job's failures the number of its claims at the time is kept: a     *)
(* failure comes after those claims and before the later ones (history).   *)
Job == [state: Outcome \union {"ready", "running", "timed_out"}, expires: Nat,
        runs: Nat, failed: SUBSET Nat]

Idle == [at |-> "idle"]
Places == {"claimed", "reserving", "receipt", "announced", "calling", "settling",
           "refused", "settled"}
Run == {Idle} \union
  [at: Places, job: Jobs, claim: Nat, time: Nat, key: Keys, outcome: Outcome]

TypeOK ==
  /\ LedgerTypeOK
  /\ timing \in Deployments
  /\ jobs \in [Jobs -> Job]
  /\ run \in [Workers -> Run]
  /\ calls \in [Keys -> SUBSET Nat]

Init ==
  /\ LedgerInit
  /\ timing \in Deployments
  /\ jobs = [j \in Jobs |-> [state |-> "ready", expires |-> 0, runs |-> 0, failed |-> {}]]
  /\ run = [w \in Workers |-> Idle]
  /\ calls = [k \in Keys |-> {}]

At(w, place) == run[w].at = place
GoTo(w, place) == run' = [run EXCEPT ![w].at = place]

HasReceipt(w, k) ==
  run' = [run EXCEPT ![w].at = "receipt", ![w].key = k, ![w].time = 0]

(* The outcome the handler will report, decided. *)
Over(w, place, outcome) ==
  run' = [run EXCEPT ![w].at = place, ![w].outcome = outcome, ![w].time = 0]

-----------------------------------------------------------------------------
(* The job *)

Claim(w, j) ==
  /\ At(w, "idle")
  /\ jobs[j].state = "ready"
  /\ jobs' = [jobs EXCEPT ![j].state = "running",
                          ![j].expires = now + timing.jobLease, ![j].runs = @ + 1]
  /\ run' = [run EXCEPT ![w] =
       [at |-> "claimed", job |-> j, claim |-> jobs[j].runs + 1, time |-> now,
        key |-> <<j, 1>>, outcome |-> "closed"]]
  /\ UNCHANGED <<ledger, tx, now, calls>>

(* The last emit and _finish(): the outcome of whoever finishes while the  *)
(* job is running. *)
Finish(w) ==
  /\ \/ At(w, "refused")
     \/ At(w, "settled")
  /\ LET j == run[w].job
     IN  jobs' = IF jobs[j].state = "running"
                 THEN [jobs EXCEPT ![j].state = run[w].outcome, ![j].expires = 0,
                         ![j].failed = IF run[w].outcome = "failed_provider"
                                       THEN @ \union {jobs[j].runs} ELSE @]
                 ELSE jobs
  /\ run' = [run EXCEPT ![w] = Idle]
  /\ UNCHANGED <<ledger, tx, now, calls>>

SweepJob(j) ==
  /\ jobs[j].state = "running" /\ jobs[j].expires < now
  /\ jobs' = [jobs EXCEPT ![j].state = "timed_out", ![j].expires = 0]
  /\ UNCHANGED <<ledger, tx, now, run, calls>>

(* A re-drive, and the dispatch and delivery of what it queued. *)
Redrive(j) ==
  /\ jobs[j].state \in {"failed_provider", "timed_out"}
  /\ jobs[j].runs < MaxRuns[j]
  /\ jobs' = [jobs EXCEPT ![j].state = "ready"]
  /\ UNCHANGED <<ledger, tx, now, run, calls>>

-----------------------------------------------------------------------------
(* The handler *)

(* reserve(): the clock was read at t, some time after the claim, and the  *)
(* family is read now. *)
Reserve(w) ==
  LET j == run[w].job
  IN  /\ At(w, "claimed")
      /\ \E t \in run[w].time .. now :
           /\ Redelivery(j, t) = "open"
           /\ BeginReserve(w, j, t)
      /\ GoTo(w, "reserving")
      /\ UNCHANGED <<jobs, calls>>

(* The family's newest row answers for the unit. *)
Redelivered(w) ==
  LET j == run[w].job
  IN  /\ At(w, "claimed")
      /\ \E t \in run[w].time .. now :
           \/ Redelivery(j, t) = "live" /\ HasReceipt(w, Newest(j))
           \/ /\ Redelivery(j, t) \in {"already_reconciled", "refused"}
              /\ Over(w, "settled", "closed")
      /\ UNCHANGED <<ledger, tx, now, jobs, calls>>

ReserveStep(w) ==
  /\ At(w, "reserving")
  /\ \/ Debit(w) /\ UNCHANGED run
     \/ DebitRefused(w) /\ Over(w, "settled", "closed")
     \/ WorkKeyCollision(w) /\ Over(w, "settled", "closed")
     \/ InsertReservation(w) /\ HasReceipt(w, tx[w].key)
  /\ UNCHANGED <<jobs, calls>>

(* The progress event, in a transaction of its own, renews the lease of a  *)
(* job that is still running.                                              *)
Emit(w) ==
  /\ At(w, "receipt")
  /\ LET j == run[w].job
     IN  jobs' = IF jobs[j].state = "running"
                 THEN [jobs EXCEPT ![j].expires = now + timing.jobLease] ELSE jobs
  /\ GoTo(w, "announced")
  /\ UNCHANGED <<ledger, tx, now, calls>>

(* dispatch(), with the receipt. *)
Dispatch(w) ==
  /\ At(w, "announced")
  /\ calls' = [calls EXCEPT ![run[w].key] = @ \union {run[w].claim}]
  /\ GoTo(w, "calling")
  /\ UNCHANGED <<ledger, tx, now, jobs>>

(* The provider answers, and reconcile() reads a row that another may have *)
(* settled. *)
Reconcile(w, cost) ==
  LET k == run[w].key
  IN  /\ At(w, "calling")
      /\ \/ BeginSettle(w, k, "reconciled", cost) /\ GoTo(w, "settling")
         \/ /\ rows[k].state = "reconciled"
            /\ GoTo(w, "settled")
            /\ UNCHANGED <<ledger, tx, now>>
         \/ /\ rows[k].state \in {"expired_spent", "released"}
            /\ GoTo(w, "refused")
            /\ UNCHANGED <<ledger, tx, now>>
      /\ UNCHANGED <<jobs, calls>>

(* A timeout or another exception, and expire_on_timeout(). *)
ExpireOnTimeout(w) ==
  LET k == run[w].key
  IN  /\ At(w, "calling")
      /\ \/ /\ BeginSettle(w, k, "expired_spent", Estimate[k[1]])
            /\ Over(w, "settling", "failed_provider")
         \/ /\ rows[k].state # "reserved"
            /\ Over(w, "refused", "failed_provider")
            /\ UNCHANGED <<ledger, tx, now>>
      /\ UNCHANGED <<jobs, calls>>

(* release_before_dispatch(), of a handler that refuses its own call: the  *)
(* unit may be tried again.                                                *)
Release(w) ==
  LET k == run[w].key
  IN  /\ w \in timing.decliners /\ At(w, "receipt")
      /\ \/ /\ rows[k].state = "reserved" /\ rows[k].expires > now
            /\ BeginSettle(w, k, "released", 0)
            /\ Over(w, "settling", "failed_provider")
         \/ /\ rows[k].state # "reserved" \/ rows[k].expires <= now
            /\ Over(w, "settled", "failed_provider")
            /\ UNCHANGED <<ledger, tx, now>>
      /\ UNCHANGED <<jobs, calls>>

SettleStep(w) ==
  /\ At(w, "settling")
  /\ \/ LockForSettle(w) /\ UNCHANGED run
     \/ SettleLost(w) /\ GoTo(w, "refused")
     \/ CommitSettle(w) /\ GoTo(w, "settled")
  /\ UNCHANGED <<jobs, calls>>

(* A statement raises (a lost connection, a driver's error, the            *)
(* RuntimeError of _credit_bucket), or the answer to a commit is lost: of  *)
(* reserve() or of a settle, or of an event before or after them. The      *)
(* transaction is rolled back if it has not committed, the row stays as it *)
(* is, and the executor's last except clause decides the outcome.          *)
Raise(w) ==
  /\ ~At(w, "idle")
  /\ RollBack(w)
  /\ Over(w, "refused", "failed_provider")
  /\ UNCHANGED <<jobs, calls>>

(* The process dies, in the middle of anything, or _finish() itself raises. *)
Crash(w) ==
  /\ ~At(w, "idle")
  /\ RollBack(w)
  /\ run' = [run EXCEPT ![w] = Idle]
  /\ UNCHANGED <<jobs, calls>>

-----------------------------------------------------------------------------
(* The sweep and the clock *)

(* A pass that raises or dies is rolled back, for the next to take up. *)
SweepReservation(s) ==
  /\ \/ \E k \in Keys : SelectAbandoned(s, k)
     \/ LockForSettle(s)
     \/ SettleLost(s)
     \/ CommitSettle(s)
     \/ tx[s].op # "none" /\ RollBack(s)
  /\ UNCHANGED <<jobs, run, calls>>

(* A worker has its answer from reserve() within the patience of its       *)
(* claim; calls and settles take as long as they take.                     *)
Tick ==
  /\ now < timing.until
  /\ \A w \in Workers :
       At(w, "claimed") \/ At(w, "reserving") => now < run[w].time + timing.patience
  /\ now' = now + 1
  /\ UNCHANGED <<ledger, tx, jobs, run, calls>>

(* Nothing is left to do: every worker idle, no job to claim, the clock at *)
(* its bound.                                                              *)
Finished ==
  /\ now = timing.until
  /\ \A w \in Workers : At(w, "idle")
  /\ \A s \in Sessions : tx[s].op = "none"
  /\ UNCHANGED <<ledger, tx, now, jobs, run, calls>>

Step ==
  \/ \E w \in Workers :
       \/ \E j \in Jobs : Claim(w, j)
       \/ Reserve(w) \/ Redelivered(w) \/ ReserveStep(w)
       \/ Emit(w) \/ Dispatch(w)
       \/ \E cost \in Costs : Reconcile(w, cost)
       \/ ExpireOnTimeout(w) \/ Release(w) \/ SettleStep(w)
       \/ Finish(w) \/ Raise(w) \/ Crash(w)
  \/ \E j \in Jobs : SweepJob(j) \/ Redrive(j)
  \/ \E s \in Sweepers : SweepReservation(s)
  \/ Tick
  \/ Finished

Next == Step /\ UNCHANGED timing

Spec == Init /\ [][Next]_vars

-----------------------------------------------------------------------------
(* Whatever the leases, no unit of work is charged twice: the attempts     *)
(* before the newest were all released, so a unit has one charge however   *)
(* often it is redelivered, swept and re-driven.                           *)
ChargedOnce ==
  \A j \in Jobs :
    Cardinality({k \in Keys : k[1] = j /\ rows[k].state \notin {"absent", "released"}}) <= 1

(* Whoever waits for a row of the ledger waits for somebody who will let   *)
(* go of it: no set of transactions waits for itself.                      *)
NoDeadlock ==
  \A S \in (SUBSET Sessions) \ {{}} :
    \E s \in S : \A q \in S : ~Waits(s, q)

Debits(k, b) == \E i \in 1 .. 3 : BucketsOf(k, rows[k].day)[i] = b

Held(b) == [k \in Keys |-> IF rows[k].state = "reserved" /\ Debits(k, b) THEN Estimate[k[1]] ELSE 0]

Charged(b) == [k \in Keys |-> IF rows[k].state \in Settled /\ Debits(k, b) THEN rows[k].amount ELSE 0]

(* A bucket holds what its reservations hold and has spent what they were  *)
(* settled for, through every refusal, lost race, crash and midnight: the  *)
(* credits of _settle() are those of the buckets named on the row.         *)
LedgerBalances ==
  \A b \in BucketIds :
    /\ buckets[b].reserved = Total(Held(b))
    /\ buckets[b].spent = Total(Charged(b))

Overage(b) ==
  [k \in Keys |->
     IF rows[k].state = "reconciled" /\ rows[k].amount > Estimate[k[1]] /\ Debits(k, b)
     THEN rows[k].amount - Estimate[k[1]] ELSE 0]

(* No ceiling is passed by anything but the overage of calls that cost     *)
(* more than their estimate, which A1 has posted in full: concurrent       *)
(* reservations are each refused once the room is gone.                    *)
WithinCeilings ==
  \A b \in BucketIds :
    buckets[b].reserved + buckets[b].spent <= Ceiling[b[1]] + Total(Overage(b))

(* The lease of a job outlives the reservation its worker took. Nothing in *)
(* the configuration asks for it: job_lease_seconds need only be positive. *)
LeasesNest == timing.jobLease >= timing.patience + Lease

(* Where it does and no handler refuses what it reserved for, as none in   *)
(* the repository does, a unit is called again only if its job was         *)
(* recorded as failed between the two claims: a crash, a sweep and its     *)
(* re-drive, or a redelivery leads to no second call, and a settle that    *)
(* raised only once the failure it led to was recorded and re-driven. And  *)
(* nothing hands back the reservation of a call.                           *)
CalledAgainOnlyAfterFailure ==
  LeasesNest /\ timing.decliners = {} =>
    /\ \A k, q \in Keys : k[1] = q[1] =>
         \A n \in calls[k], m \in calls[q] :
           n < m => \E f \in jobs[k[1]].failed : n <= f /\ f < m
    /\ \A k \in Keys : calls[k] # {} => rows[k].state \notin {"absent", "released"}

BucketsOn ==
  [j \in Jobs |-> [d \in 0 .. DayOf(MaxTime) |-> {BucketsOf(<<j, 1>>, d)[i] : i \in 1 .. 3}]]

CeilingOn == [b \in BucketIds |-> Ceiling[b[1]]]

Atomic == INSTANCE AtomicLedger WITH
  Attempts <- 1 .. MaxAttempts, Names <- BucketsOn, CeilingOf <- CeilingOn

(* Every commit is one step of the atomic ledger: the ceilings, read one   *)
(* after the other, hold together when the reservation commits, and a new  *)
(* attempt is numbered over released ones alone though the family was read *)
(* before.                                                                 *)
ImplementsAtomicLedger == Atomic!Spec

=============================================================================
