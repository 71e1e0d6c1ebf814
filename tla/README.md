# A verification of IA Smart Match

This directory holds TLA+ models of the IA Smart Match service, the TLC runs that
check them on small instances, and theorems that TLAPS checks for every value of
the constants. The models are translated from the source in `src/`; `PROJECT.json`
names, for each definition, the lines it stands for.

Seven parts are modelled: the **command path**, which carries every durable command
of the system from its job row to a committed outcome; the **command routes**, which
accept commands and decisions from clients that retry; the **quota** charged in front
of them; the **event log** of a job, which its clients follow; the **spend ledger** and
the worker that buys a paid call under it; **outreach**, from what decides whether
somebody may be written to, to the message that leaves; and **rewards**, the points an
attendance earns and the tickets that spend them. The rest of the system is inventoried
below, and what is left of it is named at the end.

## 1. The system

### Command path (modelled)

| Part | Code | State it keeps | Operations |
|---|---|---|---|
| job state machine | `smartmatch_domain/jobs.py` | none | `TRANSITIONS`, `can_transition`, `assert_transition` |
| job repository | `smartmatch_persistence/jobs.py` | `job` (status, `lease_expires_at`), `job_event` | `create`, `transition`, `claim`, `renew_lease`, `sweep_expired_leases`, `append_event`, `events_since` |
| outbox | `smartmatch_persistence/outbox.py` | `outbox_record` (status, attempts, lease, token, task name) | `enqueue`, `claim_batch`, `reclaim_stranded`, `mark_dispatched`, `mark_failed` |
| dispatcher | `smartmatch_worker/dispatcher.py` | the batch a pass holds | `ScheduledPass.run` = sweep, reclaim, claim, then per row enqueue and record |
| executor | `smartmatch_worker/execution.py` | the delivery in hand | `execute`, `_emit`, `_finish`; `StalledJobSweeper.sweep` |
| re-drive | `smartmatch_persistence/redrive.py` | `redrive_record` (attempt history) | `redrive`, `abandon` |
| submission | `smartmatch_api/commands.py` | `idempotency_record` | `submit_command` |
| task queue | Cloud Tasks, or `local_tasks.py` | tasks and the tombstones of their names | `enqueue`, at-least-once delivery |

How they interact. `submit_command` writes the job and its outbox row in one
transaction. Any number of scheduled passes lease rows, create a task outside every
transaction, and record the dispatch in another. The queue posts the task to a
worker, which claims the job, runs the handler and commits the handler's writes with
the terminal transition. The sweep times out running jobs whose lease is over. An
operator re-drives a failed job, which adds an outbox row of the next *generation*,
hence a new task name. There is no lock across these steps: correctness rests on
conditional updates (`expected_from`, lease tokens), on deterministic task names,
and on which writes share a transaction.

What is hard: several dispatchers and workers interleave; a task can be delivered
before its dispatch is recorded, twice, or long after its row was written off; any
process can die between two transactions; a write can commit with its answer lost;
a process can be slower than every lease it holds.

### Command routes and quota (modelled)

| Part | Code | State it keeps | Operations |
|---|---|---|---|
| idempotency | `smartmatch_persistence/idempotency.py` | `idempotency_record` (scope, fingerprint, job, generation) | `reserve`, `record_result` |
| routes | `smartmatch_api/commands.py`, `routers/redrive.py` | one transaction for each request, with a savepoint | `submit_command`, `redrive_job`, `abandon_job` |
| quota | `smartmatch_persistence/rate_limit.py`, `smartmatch_api/dependencies.py` | `rate_limit_counter` | `charge_quota`, `RateLimiter.check`, `sweep_expired` |

A request is charged first, in a transaction of its own (ADR-0015). It then inserts
its idempotency key, which waits for any other transaction that has inserted the same
key, and runs its command in the same transaction: a fresh key commits with the work,
a refused command takes its key down with it, and a key found committed is answered
from its record. A decision reads the job without a lock and parks it by a conditional
update, which waits for whoever is updating the row. The repository runs PostgreSQL at
its default, READ COMMITTED.

What is hard: overlapping requests with one key, and decisions with different keys on
one failure; what was read before a wait and is used after it; a retry that comes long
after, when the job has moved on; an answer lost after the commit; counters that are
deleted while clocks disagree about whether their window is over.

### Event log (modelled)

| Part | Code | State it keeps | Operations |
|---|---|---|---|
| job events | `smartmatch_persistence/jobs.py` | `job_event`, unique by job and `sequence` | `append_event`, `events_since` |
| writers | `smartmatch_worker/execution.py` | the transactions of `_emit`, `_finish` and the sweep, and the one a handler writes in | `_emit`, `_finish`, `StalledJobSweeper.sweep` |
| stream | `smartmatch_api/routers/jobs.py` | the client's cursor | `stream_job_events` |

Each appending transaction computes the next number itself, from the rows committed
when its INSERT starts. What keeps two of them apart is the unique index, on which the
second waits and then fails; what else they do meanwhile is update the job's row, some
before the INSERT and some after it. Clients resume after the highest number they saw.

What is hard: a late handler of a swept run writes beside the sweep and the next run;
two transactions take the row and the index entry in opposite orders; one loses a race
or dies with half of its work done.

### Spend (modelled)

| Part | Code | State it keeps | Operations |
|---|---|---|---|
| ledger | `smartmatch_persistence/spend.py` | `spend_reservation`, `spend_ceiling_bucket` (job, day, month) | `reserve`, `reconcile`, `expire_on_timeout`, `release_before_dispatch` |
| sweep | `smartmatch_persistence/spend_sweeper.py` | the rows it has selected | settles reservations whose lease is over as spent |
| handler | `smartmatch_worker/paid_extraction.py` | a receipt | reserve, dispatch the call, settle |

A unit of paid work is reserved against three ceilings before its call is made and
settled after it: for what the call cost, for all that was reserved if nobody knows, or
for nothing if no call was made. What is hard: two reservations meet at a ceiling; a
settle locks a row and then the buckets of another day; a family of attempts is read
without a lock and the next one numbered by counting it; a call outlives the lease of
its reservation, its worker dies, or the settle itself raises and ends the job with the
reservation alive, and the job is run again.

### Outreach and consent (modelled)

| Part | Code | State it keeps | Operations |
|---|---|---|---|
| contacts | `routers/outreach_contacts.py`, `smartmatch_domain/consent.py` | a contact channel's lifecycle | register, move, suppress |
| suppression | `smartmatch_persistence/suppression.py` | one row for each address, with the source that asked for it | `record` (merging by rank), `lift` |
| Speakers' choices | `speaker_channel_consent.py` | an append-only choice for each channel | opt in, opt out |
| unsubscribe link | `routers/outreach.py` | a token for each send | suppress the address |
| sending | `routers/outreach.py`, `smartmatch_worker/outreach.py`, `smartmatch_persistence/outreach.py` | `outreach_send` with its disposition, delivery events | check and submit, reserve, refuse, call, conclude |

The portal and the Connectors' routes lock the channel's row and then decide on what they
read; the link has nobody behind it and locks the suppression alone. The route that sends
checks the recipient and commits a command, and the worker checks again when it runs.
What is hard: a recipient's word against moves already under way; consent withdrawn while
the command waits; a worker that dies between the provider's answer and its record; the
executor rolling back what a failed handler wrote.

### Rewards (modelled)

| Part | Code | State it keeps | Operations |
|---|---|---|---|
| ledger | `smartmatch_persistence/rewards.py` | `point_ledger_entry`: credits, reversals, debits; no balance | `credit_attendance`, `record_reversal`, `balance_for_subject` |
| attendance | `routers/attendance.py` | `attendance_record` | record, with its credit |
| redemption | `routers/rewards.py` | `redemption`, one open for each student and reward | request; approve, deny, fulfil |

What is hard: a balance is folded before a write that changes it, by transactions that
lock a ticket or an attendance but never the student.

What makes all of it correct: the properties of section 4.

### The rest of the system (inventory)

| Component | State | Operations | What is hard | What would make it correct |
|---|---|---|---|---|
| pipeline (`pipeline.py`) | stage records | advance, withdraw, provision | two coordinators move one speaker | stages move along the funnel; the history explains the stage |
| review and imports (`review.py`) | review items, decisions | claim, approve, reject | two reviewers decide | one decision for each item |
| invitations and portal (`cba_invitations.py`, `speaker_portal.py`) | invitations, tokens | invite, answer, expire, activate | an answer after expiry or revocation | one answer for each invitation |
| registration and meetings (`event_registration.py`, `meetings.py`) | registrations | register, cancel | the last seat | capacity is respected |
| class exercise (`exercise/`) | team codes, sessions, runs | join, run, reset | reset while teams run | a result belongs to the session it was made in |
| local queue (`local_tasks.py`) | in-process task table, pump | enqueue, deliver, retry | a pump restarted mid-delivery | at-least-once, name tombstones as Cloud Tasks |

Left out for good, with the reason in `PROJECT.json`: matching and scoring over real
feature data, engagement-load arithmetic, text parsers, authentication checks, data
tables, the frontend, and the deployment configuration.

## 2. Modules

```
JobStates                 the domain's states and transition table
  CommandStore            job, outbox, log, task tables; repository operations; time
    Dispatcher            ScheduledPass and OutboxDispatcher as processes
    Executor              TaskExecutor and the queue's deliveries
    Redrive               submission, re-drive, abandonment, audit records
      CommandPath         the composition, its properties, fairness
        CommandRefinement   the mapping to CommandContract
          MCCommandPath       instances for TLC
          CommandPathProofs   the theorems: types and coherence, the other safety
                              properties, and the refinement
CommandContract           what the path promises of each job

  RouteTables             job states, the tables the routes write, what a commit writes
    AtomicRoutes          what the routes promise: commands that happen in one step
    CommandRoutes         the routes statement by statement, with PostgreSQL's waits
      MCCommandRoutes       instances for TLC
      CommandRoutesProofs   the theorems

OrderedLog                what an event stream promises
EventLog                  the appends of one job's events statement by statement
  MCEventLog              an instance for TLC
  EventLogProofs          the theorems

RateLimit                 the quota, clocks and the sweep of counters
  MCRateLimit             an instance for TLC
  RateLimitProofs         the theorems

AtomicLedger              what the spend ledger promises
SpendLedger               reservations and settlements, lock by lock
  PaidExtraction          the workers that buy calls, their jobs, the sweep, the clock
    MCPaidExtraction        an instance for TLC
    PaidExtractionProofs    the theorems

ContactConsent            who may be written to: Speakers, Connectors, links
  Outreach                the command that writes to them
    MCOutreach              instances for TLC
    OutreachProofs          the theorems

Sums                      what a ledger's amounts add up to (also of PaidExtraction)
  SumsProofs                lemmas on how sums move
PointsBook                what the rewards promise, without transactions
Rewards                   attendance, points and tickets
  MCRewards               an instance for TLC
  RewardsProofs           the theorems
```

`CommandRoutes` looks at the jobs from the other side of the tables that
`CommandPath` works on. `CommandPath` takes a decision as one indivisible step;
`CommandRoutes` has every other transaction as `Work` on a job's row, and proves that
a decision may be taken so: `ImplementsAtomicRoutes`.

### The command path

How state and actions correspond to the code:

* `job`, `outbox`, `log`, `records` are the tables `job`, `outbox_record`,
  `job_event`, `redrive_record`. An outbox row's id is its index, so `created_at`
  order is index order. `task` is the queue's knowledge of each task name:
  never seen, still to deliver, or deleted with its name still refused.
* `disp[d]` and `worker[w]` are the local state of a pass and of a delivery: a
  program counter and what was read from the database and is still held. Every
  action is **one transaction or one call to the queue**, because that is what
  PostgreSQL makes atomic: `claim_batch`, `_record_dispatched`, `_record_failure`,
  the reclaim, the sweep, `_claim`, the re-read in `execute`, each `_emit`, `_finish`.
* Time is the value of a lease: `live`, `expired` or `none`. Two actions let any
  lease pass at any moment. The back-off of `mark_failed` is a lease like any other,
  as in the code. Nothing is lost by this: the code only ever compares a deadline
  with now.
* A lease token is the number of the claim that minted it, which identifies the
  claim of that row as the random UUID does.
* `runs` counts claims of a job and is history only: no guard reads it. Events carry
  the run that wrote them, which the code keeps in the worker's local state.
* Faults: a dispatcher or worker dies anywhere, an enqueue fails with or without
  having created its task, a transaction raises after rolling back or after
  committing, an answer to the queue is lost, the guarded parts of a pass fail.
  `MaxFaults` bounds how many happen in one behaviour.
* What a handler computes is abstracted to its outcome. Its writes are the
  `completed` event, because they are committed in the same transaction.
  Progress events are reduced to the lease renewal they carry.
* `Redrive` parks and decides in one action because `redrive()` and `abandon()` do so
  in one transaction. Concurrent decisions are serialised by the conditional update
  on `job.status`.

`cancelled` is in the transition table but no code at this commit takes it, so no
action does.

### The command routes

* `job`, `idem` are the status column of `job` and the rows of `idempotency_record`;
  `outbox[j]` lists the job's outbox rows by generation, each labelled with the scope
  (command type and key) of the command that added it, which is what the properties
  compare. `answers` is what clients were told, and no code reads it.
* `handler[h]` is a request in progress: its next statement, and what it has read.
  **What a transaction wrote and did not commit is in its handler.** Others see of it
  only a lock: `KeyHolders(s)` and `RowHolders(j)` are the handlers whose transaction
  has inserted a key or updated a row, by the statement they have reached, and
  `CanInsert` and `Park` wait for there to be none. `Create`, `Redrive` and `Abandon`
  commit: they write the tables at once.
* `Read` is `_open_parking()`'s plain SELECT and `Park` its conditional update, two
  steps with anything between them. Between `Park` and the commit nobody else can
  write the row, so the rest of the decision is one step.
* `Refuse` is a 409: savepoint and transaction end with nothing written. `Fail` is a
  500, a dead instance or an answer nobody received; after the commit it loses only
  the answer. A retry is a new `Receive` with the same key.
* The fingerprint of a request is its `note`, for a decision together with the job.
* Left out: refusals ahead of the key (429, 404, 403, 400), which write none of these
  tables; the audit records, which `Redrive` has; the fallback for keys recorded
  before migration 0004; and the branch for a job found already parked, since every
  transaction that parks a job also decides about it.

### The quota

* `counter` is the table, 0 where there is no row: the upsert and its guard treat the
  two alike. `admitted` counts what was let through and no code reads it.
* `request[r]` is a request between reading its clock and its upsert. `now` is the
  time; an instance's clock shows a time at most `Lead` ahead, and a request is charged
  at most `Lag` after the moment it read. `GraceAssumption`, `Lag + Lead <= Grace`, is
  what the comment on `DEFAULT_SWEEP_GRACE` says the five minutes are for. No code
  enforces it, and `WithinLimit` needs it.
* `charge_quota` commits as soon as the upsert is done, so `Admit` is one step, and
  whatever becomes of the request afterwards does not touch the charge.
* `Sweep` runs at any moment, on any clock, and is told any subset of the limits. One
  operation has one limit, as every route declares it.

### The event log

* `EventLog` opens what `CommandPath` takes as one step: the transactions of `_emit`,
  `_finish` and the sweep. `CommandPath` has all jobs, tasks and passes around them;
  here there is one job, whose dispatches and re-drives are one action.
* `session[p]` is a process and its open transaction: `number` has computed nothing,
  `insert` has a number, `refer` has its row in the index, `renew` and `commit` have the
  foreign key's lock on the job's row. What is not committed is in `session` only.
  Others see its locks: `HasEntry`, `HoldsRow`, and `Referring` for the lock that every
  row with a foreign key to the job brings, the handler's own included (`staged`).
* `WaitsFor` says who waits for whom: an INSERT for the same number, a foreign key
  for the sweep's FOR UPDATE but not for a plain update, an update for an update. The
  sweep waits for nobody, it skips (`SKIP LOCKED`). `Deadlocked` transactions are
  ended by PostgreSQL, whichever it picks; `Collide` is the unique violation.
* `GiveUp` is what the code does with either: nothing retries. A progress report's
  error ends its handler as a failure; an outcome's or a sweep's ends the request.
* A lease is `live`, `expired` or `none`. The first job row is the dispatched one:
  what comes before writes no events.
* `Finish` compares nothing but the status, as the code does, so that a late handler
  may end a later run. Events carry the run of the process that wrote them, which no
  guard reads.

### The spend ledger

* `rows` are the reservations by unit of work and attempt, `buckets` the three ceilings.
  `tx[s]` is a session's transaction: what it will write, and how many rows of its `Plan`
  it has locked. Nothing is waited for after the last lock, so the step that takes it
  commits. `BUCKET_LOCK_ORDER` is the order of `BucketsOf`.
* A bucket nobody debited and an empty one are one state, because a ceiling is a
  constant. A receipt is the key of its row, because the lease token does not change
  until the row is settled.
* `PaidExtraction` takes of the job only what decides who runs it: `CommandPath` has the
  rest. `timing` is chosen at the start: leases need only be positive, and nothing says
  that the job's outlives the reservation's. `Unhurried` and `Nested` are the two ways.
  `patience` is how long a run may take from its claim to the answer to its reservation.
* A run goes from its claim to its answer (`Reserve`, `Redelivered`, `ReserveStep`), emits
  its progress in a transaction of its own (`Emit`), calls (`Dispatch`) and settles
  (`Reconcile`, `ExpireOnTimeout`, `SettleStep`). **Any statement on the way may raise**, and
  the handler catches nothing but what the provider's call raises: `Raise` rolls back the
  open transaction, leaves the row as the last commit left it, and has `Finish` end the job
  as `failed_provider`, which is the executor's last `except` (`execution.py:314-330`). It
  stands for a lost answer to a commit as well. `Crash` forgets the run and leaves its job
  running until the lease is over. The sweeper's transaction may be rolled back too.
* `calls` is history: for each reservation the claims whose runs called under it.
  `jobs[j].failed` is history too: the number of claims at each failure recorded.
* `Release` is for handlers that refuse what they reserved for, `timing.decliners`. The
  repository's handler never does; the ledger's operation is there for others.

### Outreach

* A tenant has one channel for an address, so a channel stands for the two. `tx[a]` is a
  portal's or a Connector's transaction between its locks and its commit. Whoever refuses
  or finds nothing to do ends at once, which is no step.
* Contacts start at any state of their lifecycle. That a candidate has an approved consent
  source is `active_candidate` itself here: no route makes one without.
* The handler's session commits as it goes, so `run[w]` moves from commit to commit. The
  read of the recipient is one step and the call another: what is revoked between the two
  is not seen, by the code either.
* `Refuse` is possible for anybody, because `portal_body()` and the checks of the draft
  have reasons of their own; `CallProvider` only for whom `LoadRecipient` found eligible.
* `LoginAddress` is the set of channels whose Speaker signs in with the address, whose
  opt-in may lift more. The instance has its channel in it, which allows the most.
* Left out: composing and approving drafts, which `Check` presumes; the pipeline advance
  after a send, since no route names a journey; the provider's webhooks, which nothing
  receives.

### Rewards

* The entries of one source are their sums: `credited` and `withdrawn` for an attendance,
  `paid` for a ticket. `Balance` folds them as `fold_balance` does, with the sums of `Sums`.
* A transaction is cut where it reads and where it commits. `TicketIsFree` and
  `AttendanceIsFree` are `FOR UPDATE`. The request takes no lock: what keeps a second
  ticket out is the partial unique index, in `InsertRedemption`, and whoever it keeps out
  reads the first one back.
* `PointsBook` has an attendance's standing (none, counted, corrected) and the tickets, and
  one step for each operation; `Standing` reads the former off the ledger's sums. Its
  `HandOver` says what the code makes true, with `Others` for the decisions beside one.
* Reward items are as an operator made them. `record_reversal` is called by no route; it
  is an operation of the repository beside the others.

## 3. The runs

The first four use module `MCCommandPath`; `routes`, `rate_limit`, `paid_extraction` and
`rewards` the MC module of their part, and the last two of the event log and of outreach
share theirs.

| Run | Instance | States | Question |
|---|---|---|---|
| `command_path` | 1 job, 2 dispatchers, 2 workers, 2 attempts, 1 re-drive, 1 fault | 648,346 | every safety and action property, and the contract |
| `liveness` | 1 job, 1 dispatcher, 2 workers, 2 attempts, 1 re-drive, 1 fault | 85,749 | does work end |
| `dispatched_is_deliverable` | as `command_path`, no fault needed | violated | finding 1 |
| `swept_outcome_discarded` | as above | violated | finding 2 |
| `routes` | 1 job, 2 keys, 2 bodies, 2 requests at a time, 2 failures | 235,350 | do statements add up to commands |
| `rate_limit` | 1 caller, 2 operations, 2 requests at a time, times 0 to 7 | 82,218 | does the limit hold |
| `event_log` | 2 workers, 1 sweep, 1 client, 2 runs, pages of 2, progress up to 2 events | 91,789 | do the events add up to a log, and is a silent job swept |
| `silent_job_is_swept` | as above, no client, handlers may hang | violated | finding 3 |
| `paid_extraction` | 2 units of work (one claimed twice), 2 workers, the sweep, 2 days, 2 deployments | 508,406 | do the ceilings hold, and is a call made and charged once |
| `outreach` | 1 recipient, 2 sessions, 1 command, 2 workers, 3 runs | 753,499 | is anybody written to against their word, or twice |
| `redriven_failure_is_sent` | as above, 2 runs | violated | finding 4 |
| `rewards` | 1 student, 2 events, rewards for 1 and 2 points, 4 tickets, 3 sessions | 18,650 | does the ledger say what happened, and how far can it be overdrawn |

Why the bounds are enough to make the interesting cases happen. Two dispatchers and
an expiring lease give a peer that re-claims a row under a slow dispatcher (J17),
and with two attempts the slow one can come back before, between and after the
re-claim and the write-off (J12). Two workers give a duplicate delivery beside a
running one, and a swept worker beside its successor. One re-drive gives two task
names, a late delivery of the older one, and the carried audit history. One fault is
any single crash or error anywhere; slow processes need none. A batch is of one row, as
there is one job; the proofs of section 6 are for any. The code's own values
(`MAX_DISPATCH_ATTEMPTS`, the batch size of 20) only repeat what happens at 1 and 2:
attempts remain, attempts are spent.

The routes need two requests to overlap. Two failures let a key be retried after somebody
else re-drove the job again (J14); two keys give two people deciding on one failure, and
two bodies a key used for another request. What the routes do with one job does not look
at another; the proofs are for any number. `MaxFailures` only bounds the rest of the
system, and so the length of the tables.

The quota's windows are two and three units long, with limits of one and two, so their
boundaries coincide at 0 and 6 and differ between; seven units are enough for a counter
of each, known to the sweep or not, to be charged, to pass its end, its grace and the
longest window, and to be swept. The grace is two units, for clocks one unit ahead and
charges one unit late, and the mutant that sweeps without it is refuted.

The event log needs a second worker, for the late handler of a swept run, and a second
run beside it. `MaxEvents` bounds how often handlers report progress; the events that
start and end runs go on above it. A page of two is smaller than what a client may have
to catch up with.

The spend ledger needs two units of work to meet at the ceilings of a day and a month,
which have room for one and not for both, and one of the two to be run again after a
crash or a failure. Costs of one and three are below and above an estimate. A day is two
readings of the clock, so a lease of one passes at midnight. `Unhurried` has a job's lease of
nothing and handlers that may refuse: a second run meets the first one wherever it is, and
finds its reservation alive, over, settled or handed back. `Nested` has a job's lease just as
long as the longest reservation's, one unit longer a clock and nobody who refuses, so that
what `CalledAgainOnlyAfterFailure` says of such deployments is at its edge: crashes, sweeps
and late handlers as before, and settles that raise while the reservation is alive.

A recipient's word is contested by two sessions and the link, and a command is run by two
workers, the second while the first may only be slow; the third run finds what both left.
Five states of the lifecycle are enough for a candidate to be made, to go stale and to
come back. `MaxRuns` bounds how often a job is claimed, here as for the spend ledger.

Two events of one point each pay for the two-point reward or for the other one twice over,
and three sessions put a request, a decision and a correction beside each other. Four
tickets let a reward be asked for again after a denial, and are as many as it takes to pass
the bound on overdrafts if the balance is not folded again at the debit: the mutant needs
all four. Students share nothing.

`CHECK_DEADLOCK` stays on except for the event log, which comes to its end with its job,
and the rewards, whose points and tickets are used up. It says little where something can
always happen: an idle pass, a request that fails. That nobody waits for ever for a lock is
therefore a property, `RequestsProceed` of the routes and `NoDeadlock` of the ledger, and a
theorem about the event log, whose transactions do deadlock (`QueuesAlwaysEnd`).

Symmetry: processes, sessions, keys, bodies, tickets and events that nothing tells apart
are interchangeable. It is used only where no liveness is checked.

The types of the command routes, the quota, the event log, the spend ledger and the rewards
are not repeated by their runs: `RoutesTypeOK` and the `TypeOK` of the four others are
theorems of section 6.

## 4. The properties

Coherence of job and outbox
: `OutboxCarriesQueue`: a queued job and exactly one live row go together.
  `TaskFollowsRow`: a dispatch is recorded only of a task the queue accepted, and a task
  is not acknowledged away by a delivery that overtakes the record of its dispatch.
  `WrittenOffIsSpent`: rows are written off when attempts are spent, neither before
  nor after.

Deliveries
: `OneClaimPerDispatch` and `EffectOnce`: duplicate, late and
  older-generation deliveries never run a job more often than it was dispatched, and
  its effect is committed at most once, exactly when the job says so.

Decisions
: `RedriveNotRefused`: a re-drive's generation names an unused task (ADR-0007).
  `DecisionsKept`: the newest audit record names every earlier decision.

Steps
: `LiveLeaseRespected`: while a lease runs, only its holder writes the row (J17).

Commands and retries
: `KeyNamesAcceptedWork`: a key has one record, what it says was done was done under
  that key, and no job, dispatch or abandonment is without its record.
  `AnswersAgree`: all accepted answers to a key are the same answer.
  `OneDecisionPerFailure`: each failure is decided at most once, and an undecided one
  can still be decided. `ImplementsAtomicRoutes`: the statements of
  concurrent requests are a way of taking commands one at a time (`AtomicRoutes`).
  `RequestsProceed`: while there are requests, one of them is waiting for nobody.

Quota
: `WithinLimit`: no window admits more than its limit, sweeps and clocks
  notwithstanding. `DeniedWhenSpent`: a request is denied only by a window that let
  its full number through, so no failure consumes quota that nobody got.

Event log
: `EveryRunIsExplained`: every run that is over has one ending event, and the last one
  says what the job is, whoever wrote it. `ImplementsOrderedLog`: numbers become
  visible in order and without gaps, so that a client that resumes after the highest it
  saw misses nothing (`OrderedLog`). `SilentJobIsSwept`: a running job past its
  deadline does not stay so.

`SilentJobIsSwept` assumes that transactions which are not killed go on, that passes are
started again and again and a pass that could take the job for ever after is granted it
in the end (strong fairness), that processes are not killed for ever, and, in
`event_log`, that a handler which has written comes to its end. The run
without that assumption is finding 3.

Spend
: `ImplementsAtomicLedger`: transactions that lock one bucket after the other add up to
  reservations and settlements in one step, each attempt over released ones only
  (`AtomicLedger`). `LedgerBalances`: buckets are what their rows add up to.
  `WithinCeilings`: only what a call cost above its estimate passes a ceiling.
  `ChargedOnce`: a unit of work is charged once, whatever the leases.
  `CalledAgainOnlyAfterFailure`: where the job's lease outlives the reservation's and no
  handler refuses what it reserved for, two runs call for one unit of work only if a failure
  of its job was recorded between their claims; so crashes, sweeps, redeliveries and slow
  workers alone lead to no second call. And nothing hands back the reservation of a call.
  `NoDeadlock`: no set of sessions waits for itself.

Outreach
: `SpeakersWordStands`: whoever opted in is a candidate no Connector suppresses, whoever
  opted out is suppressed. `StopsAreLiftedKnowingly`: only the opt-in that was decided on a
  suppression lifts it. `CallsWereAllowed`: nobody is written to who could at no moment of
  the run be written to. `ConcludedOnce`, `ConcludedIsNotResent`: an outcome is recorded
  once, and a run that finds one calls nobody. `EndedIsExplained`: a command that ended for
  good has an outcome and the event for it.

Rewards
: `LedgerIsExplained`: an attendance is credited once and withdrawn once at most, and a
  ticket is debited once if and only if it is fulfilled. `OneTicketPerItem`: requests that
  overlap resolve to one ticket. `OverdraftIsBounded`: what overlapping decisions overspend
  is at most the dearest reward for each of the others, though every one of them folds a
  balance without the others' debits. `ImplementsPointsBook`: every commit is one step of a
  book (`PointsBook`) or none. An attendance is counted and then corrected, each once; a
  ticket is opened only over points that were earned and no open ticket for the same
  reward, answered, and handed over once it is approved; a closed one stays closed. The
  book refuses to hand over what is not earned, up to `OverdraftIsBounded`, at the moment
  of the commit, while the code folds the balance some time before.

Liveness of the command path (`QueuedIsResolved`, `RunningIsResolved`,
`TaskIsRetired`), under the fairness in `CommandPath!Fairness`:

* weak fairness of a pass's and a delivery's next step: a process that did not die
  goes on, and Cloud Scheduler starts passes for ever;
* strong fairness of delivering each task: the queue retries a task until it is
  acknowledged, on whichever worker is free. The deployed queue stops after ten
  attempts (`infra/terraform/modules/cloud_tasks_queue/main.tf`), so this holds of
  the code only while a task needs fewer;
* weak fairness of time;
* none for faults, which are bounded, nor for clients and operators. A handler that
  emits for ever is excluded: `Finish` is part of the fair steps.

The contract (`CommandContract`, `ImplementsContract`) says it without outbox,
queue or worker: a submission or re-drive is a permit for at most one run, a run that
ends well commits one effect and the job is done, anything else parks or ends the
job. Under the mapping in `CommandRefinement`, queued and dispatched are both
"waiting", and the requests of a job are its outbox rows.

## 5. What the code does not keep

Four statements made by comments in the code are not true of it; each is a run that
TLC refutes.

1. **A dispatched job can lose its only task.** `TaskExecutor.execute` re-reads a
   job in a second transaction to learn why its claim was refused. When the
   dispatcher commits `queued -> dispatched` in between, the early delivery looks
   like a duplicate, is answered 200, and the queue deletes the task. No dispatcher,
   sweep or re-drive moves a dispatched job. (`DispatchedIsDeliverable`)
2. **A swept handler's outcome can be committed.** After a sweep, a re-drive and the
   next run's claim, the job is `running` again, and the first worker's `_finish`
   finds what it expects. `EffectOnce` still holds: whichever of the two finishes
   first wins and the other is discarded. (`SweptOutcomeDiscarded`)
3. **A handler that hangs may never be swept.** Once it has written a row that refers to
   its job (`import_batch`, `match_run`, `outreach_send`), its open transaction has a
   key-share lock on the job's row, which `FOR UPDATE SKIP LOCKED` skips, pass after
   pass. (`SilentJobIsSwept`, under `HangSpec`)
4. **A message the provider failed to take is never sent, and its command says it
   succeeded.** The failure concludes the send; the re-drive finds the outcome and reports
   it as a replay. (`RedrivenFailureIsSent`)

The models show more that no run states, because the code's own documentation is of two
minds about it or silent:

* Two approved tickets of one student that are fulfilled at the same time both fold the
  balance before either debit, and overdraw it: `Balance(s) >= 0` is not an invariant of
  `Rewards`; `OverdraftIsBounded` says by how much, and the theorem
  `SerialDecisionsNeverOverdraw` that nothing but the overlap is to blame. The docstring of
  `transition_redemption` says so; that of its module and of `_debit_for` say that the
  second is refused.
* A ticket that is approved and no longer affordable stays open, and blocks its reward for
  the student: nothing may deny it any more (`approved` leads to `fulfilled` and `expired`
  only) and no route expires it, though the module's docstring has a coordinator do either.
* A call can be made twice under one reservation. Where a job's lease is shorter than the
  reservation's, a second run is handed the receipt under which the first one is still
  calling; that is the condition of `CalledAgainOnlyAfterFailure`. And whatever the leases, a
  settle that raises (a lost connection in `reconcile` or `expire_on_timeout`, or the
  `RuntimeError` of `_credit_bucket`) ends the job as `failed_provider` at once, with the
  reservation unsettled and its lease running. A prompt re-drive is handed the live receipt
  (`spend.py:827-849`) and calls again: the case that property leaves, and all that it
  leaves. The module's docstring heads its list of exits "Every exit settles the
  reservation" (`paid_extraction.py:24`), which is true of the exits it lists. The ledger
  charges the unit once in both cases (`ChargedOnce`).
* A reservation of a send without a disposition, left by a crash or held by a slow worker,
  is taken up by the next run, which calls the provider again. `calls` may pass one.
* A message that was delivered may stand as `blocked`, when two runs overlap and the
  recipient's word came between them.

## 6. The proofs

`CommandPathProofs` proves first, for every number of jobs, dispatchers and workers and
every bound, `Spec => []TypeOK`, `Spec => []OutboxCarriesQueue` and
`Spec => []RunningHasLease`.

None of the three is inductive alone. `OutboxCarriesQueue` needs the type invariant
to know that a dispatcher's claim names a row that exists, and that a submitted job
has a row (`SubmittedHasRow`), so that an *absent* job has none and a submission
cannot meet an old live row. Types need the claims to be non-empty while a row is
worked on. The conjunction `IndInv` is inductive, and TLC checked it first.

The argument: every change to `job` and `outbox` is one of four kinds, each a
lemma that keeps the two tables coherent: neither changes what matters
(`CoherentSame`, `CoherentRows`), jobs already past `queued` move on
(`CoherentJobs`), rows settle together with their queued jobs (`CoherentSettled`,
which is the reclaim, the record of a dispatch and the last failure), or a job with
no live row is queued with a new one (`CoherentRequested`, a submission or a
re-drive). `PassKeeps`, `DeliveryKeeps`, `DecisionKeeps` and `TickKeeps` take each
action to one of them. The assumptions used are those the modules declare on the
constants.

It then proves what is left of the command path's safety on top of `IndInv`: `OneClaimPerDispatch`, `EffectOnce`, `WrittenOffIsSpent`, `RedriveNotRefused`,
`TaskFollowsRow`, `DecisionsKept`, `LiveLeaseRespected` and the refinement
`ImplementsContract`. Two lemmas reduce some thirty actions to a few kinds of step. For
rows (`RowsOnlyStep`), a step rewrites some in place, keeping job, generation and what is
settled, or adds one for a request. For jobs (`JobsOnlyStep`), a step asks for a run,
sends, begins or ends one, parks a set of jobs, closes one, or leaves them alone. Each
property then has its own invariant, kept by each kind:

* `ClaimsFit`, for `OneClaimPerDispatch`: a job in `dispatched` has a dispatch that no run
  has used yet. Without it the bound is not inductive, since a claim adds a run.
* `EffectTrue`, for `EffectOnce`: a result is committed with the state that no step leaves.
  `PathKeepsContract` follows from these two, each kind of step being one of the
  contract's or a stutter.
* `ClaimsSound` and `RowsSound`, for `WrittenOffIsSpent`: a claim's token is the number of
  its attempt, so a failure recorded with an old token meets no row.
* `GenerationsCounted`, for `RedriveNotRefused`: a job's rows are of generations below its
  next one.
* `TasksInv`, for `TaskFollowsRow`: a worker past its claim works on a task whose name
  nobody will send again (`Settled`), and names are not reused, so forgetting the task
  cannot lose a dispatch that is still being recorded.
* `DecisionsInv`, for `DecisionsKept`: the newest record names every generation up to the
  job's last one, and says "abandoned" when the job does; parking carries it over.

`LiveLeaseRespected` is a property of steps: each write to a leased row is one whose guard
compares tokens (`LeaseRespected`), or a reclaim, which needs the lease to be over.

`CommandRoutesProofs` proves, for every number of jobs, keys, bodies, requests and
failures, `RoutesTypeOK`, `AnswersAgree`, `OneDecisionPerFailure`, `KeyNamesAcceptedWork`
and the refinement `ImplementsAtomicRoutes`. They rest on `RoutesInv`: what a handler has established
under a lock stays true until its transaction ends. A handler past its insert is the
only holder of its key, and the key has no record (`KeysHeld`); one past its update is
the only holder of the row, and the job is still in a failure that may be parked
(`RowsHeld`); the id a submission minted is nobody else's, and every other job a
handler or record names exists (`JobsKnown`); what is answered is on record
(`AnswersRecorded`). `KeysHeld` makes each commit the first one of its key, which is
what `AtomicRoutes` asks, and `RowsHeld` makes the job parkable at the commit though it
was read long before. `AnswersAgree` follows since records are unique and never
change. `OneDecisionPerFailure` is inductive on top of `RoutesInv`: a decision adds
one record and takes the job out of its failure in the same commit. All other
transactions respect row locks (`JobMoves`), which is the assumption on the rest of the
system. `RequestsReady` is the safety half of "no request waits for ever": while requests are
in progress, one of them satisfies the guard of its next statement, since the holder of a
row waits for nothing and the holder of a key at most for a row. That the step is then
`ENABLED`, as `RequestsProceed` has it, stays with TLC.

`RateLimitProofs` proves `TypeOK`, `WithinLimit` and `DeniedWhenSpent` for all limits, windows and
callers, from `LimitAssumption`, which `RateLimit.__post_init__` enforces, and
`GraceAssumption`. `WithinLimit` alone is not inductive, since a sweep can forget what
was admitted. `CountersTrue` adds that a counter agrees with what its window admitted
until no request can be charged to the window any more (`Over`): the sweep deletes only
such counters, because a clock at most `Lead` ahead, less the window and a grace of at
least `Lag + Lead`, is past the window's end by `Lag`.

`EventLogProofs` proves `TypeOK`, `EveryRunIsExplained` and the refinement
`ImplementsOrderedLog` for all processes, clients, runs and page sizes. They rest on
`LogInv`: committed rows are numbered without gaps (`LogIsSequence`), an uncommitted row
has the next number and is the only one in the index (`NextNumberHeldOnce`), and one
transaction at a time has updated the job's row, which says "running" to everybody else
(`RowHeldOnce`). The second makes each commit an append at the end (`CommitAppends`);
the third makes each ending the first of its run (`CommitExplains`); and a page is all
there is between the cursor and its last row (`PageIsContiguous`). A number computed
early may be stale when it is used: the index, not the computation, is what the proof
rests on.

Its transactions take the index entry, the key-share and the row in orders that differ, so
they can wait for each other. `QueuesAlwaysEnd` says that this is no more than the comment
on `Deadlocked` claims: a transaction goes on (`GoesOn`), or waits for one or two others of
which the last goes on or is in a cycle of two, which PostgreSQL cancels. Whoever holds an
entry waits for the row at most, and whoever holds the row for the entry at most
(`EntryHolderGoesOn`, `RowHolderGoesOn`). Detecting cycles of two, as the model does, is
therefore detecting all.

`PaidExtractionProofs` proves `TypeOK`, `ChargedOnce`, `NoDeadlock`,
`LedgerBalances`, `WithinCeilings` and the refinement `ImplementsAtomicLedger` for any units of work, workers, ceilings, costs and leases. Locks
are exclusive (`Exclusive`), and a bucket that was debited keeps the room it was found to
have until the commit (`RoomKept`), so three ceilings read one after the other hold
together. An attempt that exists has only released ones below it (`FamilyInOrder`), and
stays the one a reserve has in mind because the insert collides with any other
(`ReserveStands`). `NoDeadlock` is a rank argument: rows before buckets, and buckets in one
order, so in any set of sessions the one that waits furthest along waits for none of it.

The two sums need no induction over data. `Sums` counts every amount in units of its own, so
that a total is the size of a set, and what moves it is one lemma on finite sets
(`TotalMoves`: if one amount changes, the total changes by as much; `TotalIsSum` has TLC
compare the definition with the usual one). By the refinement a step of the ledger is a
reserve or a settle of one reservation or neither (`LedgerSteps`), each of which moves one
amount of three totals for every bucket it debits. `Balance`, inductive on top of the
ledger's invariant, is the two properties and that the totals are finite.

`CallsFollowFailures` proves `CalledAgainOnlyAfterFailure`. The two conditions, nested leases
and no handler that refuses, are the property's own: the theorem has no hypothesis. The
invariant (`CoverInvariant`) has two halves.

* `Covered`: a reservation is over by the time another claim can meet it, or the job has
  failed. A job whose lease is running has the lease of its last claim, and a reservation
  made by that claim ends no later; a sweep comes after both. So the reservation of a unit
  whose job is running does not outlive that job's lease (`JobCovered`), and a job that may
  be claimed has no live reservation, unless the last thing recorded of its last claim is a
  failure (`LastFailed`). The same is said of a reservation on its way: chosen
  (`KeyCovered`), in a transaction (`TxCovered`), held by a run (`RunCovered`).
* `Callers`: whoever has called for a unit and whoever may still call for it (`MayCall`: a
  run that has a receipt, or will get one) were claimed on different sides of a
  failure (`Apart`). Only a claim adds a run that may call, and by `Covered` it either comes
  after a failure that follows every earlier claim, or finds that no earlier run is still
  before its answer and no reservation of the unit is alive. Failures are never taken back
  (`FailuresStay`), so runs once apart stay apart.

`OutreachProofs` proves all seven properties of the `outreach` run, for any number of
channels, sessions, commands, workers and runs. `LocksKept` says what of a consent
transaction's reading is still true when it commits, although the link may write the
suppression under a transaction that found no row to lock. `RunsKept` says what the send
holds by the place a run has reached, and `SendsGrow` that a disposition never changes once
there is one; together with `EventsKept` and `EndingsKept` the rest follows.

`RewardsProofs` proves `TypeOK` and the four properties of the `rewards` run, for any
students, events, prices, tickets and sessions: what a transaction established of the row
it has locked (`ReversalsAreDue`, `DecisionsAreDue`) is untouched by others (`LocksHeld`)
and so true of the row it writes. `OneTicketPerItem` needs no lock: the index keeps a second
ticket out, and no transition reopens one (`TicketsMove`). From the same invariant
`DecisionsAlwaysStand` has that a closed ticket never changes (`DecisionsStand`), which
`ImplementsPointsBook` makes part of the book.

`OverdraftIsBounded` is not inductive: a decision that has found its points and not yet debited
them counts nowhere. `PromisesBounded` adds the promises of such decisions to what is paid.
A fold that covers a price shows that what is paid and this price are earned, and each of
the other sessions promises at most the dearest reward (`OthersAreBounded`); a commit turns
a promise into a payment. Sums move as above.

`BookIsImplemented` is the refinement of `PointsBook`. What the book calls earned and spent
are the ledger's sums by `LedgerIsExplained` (`BookTotals`); what a request found stays
earned, because a correction is an entry of its own and earnings only grow
(`AsksAreEarned`, `EarningsGrow`); a decision that hands over is one of the promises that
`PromisesBounded` bounds (`TotalCovers`). Each commit is then one step of the book, and no
other step of a transaction changes it.

`SerialDecisionsNeverOverdraw` has one hypothesis more, `[]OneDecider`: no two decisions on
a student have found the balance and not yet committed. Nothing in the code enforces it,
since the lock is the ticket's. Under it `NeverOverdrawn` holds by the same lemma
(`PromisesKept`) with no room for others, whatever is credited, corrected or asked for
meanwhile: a lock on the student for the time of a decision would be enough.

Only model-checked: `RequestsProceed` for its `ENABLED`, and liveness. Liveness under fairness and `ENABLED` are
beyond the prover, as is induction over recursively defined data; nothing here is
`RECURSIVE`.

## 7. What is left

Next: modules for `Pipeline` (stages and their history), `Review` (two reviewers of one
item), `Invitations` and `Registration` (one answer, the last seat).

Not modelled, beside the components of the inventory:

* the deployed queue's ten attempts (`infra/terraform/modules/cloud_tasks_queue/main.tf`),
  after which a task is gone: the liveness properties hold of tasks that need fewer;
* the clocks that order audit records (`parked_at`): the models order them by commit;
* check-in codes, reward items, drafts and their review, Speakers' availability;
* matching and scoring, engagement load, parsers, authentication, the frontend, tools and
  deployment, which keep no state that several actors change or only compute.
