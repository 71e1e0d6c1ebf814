---------------------------- MODULE CommandStore ----------------------------
(***************************************************************************)
(* What the command path keeps in PostgreSQL and in the task queue, and    *)
(* the repository operations on it: job rows with their lease, the         *)
(* transactional outbox, the job event stream, and the queue's tasks.      *)
(*                                                                         *)
(* Time is abstracted to what its comparisons decide: a lease is running   *)
(* ("live"), over ("expired") or NULL ("none").  LeaseExpires and          *)
(* JobLeaseExpires are the passage of time, and may come at any moment,    *)
(* so a process may be slower than any lease it holds.                     *)
(***************************************************************************)
EXTENDS JobStates, Naturals, Sequences, FiniteSets

CONSTANTS
  Jobs,                 \* job ids
  MaxDispatchAttempts,  \* MAX_DISPATCH_ATTEMPTS
  BatchSize,            \* rows a pass claims or reclaims, jobs it sweeps
  MaxGeneration,        \* bound: re-drives of one job
  MaxFaults             \* bound: crashes, queue errors and database errors

ASSUME AttemptsAssumption   == MaxDispatchAttempts \in Nat \ {0}
ASSUME BatchAssumption      == BatchSize \in Nat \ {0}
ASSUME GenerationAssumption == MaxGeneration \in Nat
ASSUME FaultsAssumption     == MaxFaults \in Nat

VARIABLES
  job,     \* [Jobs -> the job row]
  outbox,  \* the outbox rows, in the order of created_at; a row's id is its index
  log,     \* [Jobs -> the job_event rows]
  task,    \* [TaskNames -> what the queue knows of the task]
  runs,    \* [Jobs -> how often the job was claimed]; history, no code reads it
  faults   \* how many faults have happened

storeVars == <<job, outbox, log, task, runs, faults>>

-----------------------------------------------------------------------------
Lease == {"none", "live", "expired"}

JobRow == [status: JobState \union {"absent"}, lease: Lease]

Generations == 0 .. MaxGeneration

(* A task name is a hash of the job and the re-drive generation: one value *)
(* for each pair.                                                          *)
TaskName(j, g) == <<j, g>>
TaskNames == Jobs \X Generations

(* A lease token is the number of the claim that minted it, which no other *)
(* claim of that row has; 0 is NULL.                                       *)
NoToken == 0

OutboxStatus == {"pending", "leased", "dispatched", "failed"}

OutboxRow ==
  [ job: Jobs, gen: Nat, status: OutboxStatus, attempts: Nat,
    lease: Lease, token: Nat ]

(* The queue: a name it never saw, a task it still has to deliver, and a   *)
(* task it deleted on a 2xx, whose name it still refuses.                  *)
TaskState == {"none", "live", "gone"}

EventKind ==
  {"started", "completed", "failed", "outcome_discarded", "timed_out"}

(* An event names the run that wrote it, so that runs can be told apart.   *)
Event == [kind: EventKind, run: Nat]

RowIds == DOMAIN outbox

StoreTypeOK ==
  /\ job \in [Jobs -> JobRow]
  /\ outbox \in Seq(OutboxRow)
  /\ log \in [Jobs -> SUBSET Event]
  /\ task \in [TaskNames -> TaskState]
  /\ runs \in [Jobs -> Nat]
  /\ faults \in 0 .. MaxFaults

StoreInit ==
  /\ job = [j \in Jobs |-> [status |-> "absent", lease |-> "none"]]
  /\ outbox = <<>>
  /\ log = [j \in Jobs |-> {}]
  /\ task = [n \in TaskNames |-> "none"]
  /\ runs = [j \in Jobs |-> 0]
  /\ faults = 0

Fault == faults < MaxFaults /\ faults' = faults + 1

-----------------------------------------------------------------------------
(* JobRepository *)

(* transition(): the new value of the job table.  It writes only when the  *)
(* job is in expected_from, and writes the lease on every move.            *)
Transition(table, j, from, to, lease) ==
  IF table[j].status = from
    THEN [table EXCEPT ![j] = [status |-> to, lease |-> lease]]
    ELSE table

Running(j) == job[j].status = "running"

(* renew_lease(): conditional on the status alone. *)
RenewLease(j) ==
  job' = IF Running(j) THEN [job EXCEPT ![j].lease = "live"] ELSE job

(* append_event() *)
Appended(j, kind, run) == [log EXCEPT ![j] = @ \union {[kind |-> kind, run |-> run]}]

ExpiredJobs == {j \in Jobs : Running(j) /\ job[j].lease = "expired"}

(* Jobs order by lease expiry, which is not kept: any full batch of them.  *)
Batches(S) ==
  {T \in SUBSET S : Cardinality(T) <= BatchSize /\ (T # S => Cardinality(T) = BatchSize)}

-----------------------------------------------------------------------------
(* OutboxRepository *)

HasAttempts(i) == outbox[i].attempts < MaxDispatchAttempts

LeaseOver(i) == outbox[i].status = "leased" /\ outbox[i].lease = "expired"

(* Mutant: no recovery of a row whose dispatcher died. *)
ClaimablePendingOnly(i) == outbox[i].status = "pending" /\ HasAttempts(i)

Claimable(i) == (outbox[i].status = "pending" \/ LeaseOver(i)) /\ HasAttempts(i)

(* Mutant: a row is written off with attempts left. *)
StrandedEarly(i) == LeaseOver(i)

Stranded(i) == LeaseOver(i) /\ ~HasAttempts(i)

(* ORDER BY created_at LIMIT BatchSize over the rows of S. *)
Oldest(S) == {i \in S : Cardinality({k \in S : k < i}) < BatchSize}

NewRow(j, g) ==
  [ job |-> j, gen |-> g, status |-> "pending", attempts |-> 0,
    lease |-> "none", token |-> NoToken ]

NameTaken(n) == \E i \in RowIds : TaskName(outbox[i].job, outbox[i].gen) = n

(* enqueue(): one pending row; uq_outbox_task_name refuses a name in use. *)
EnqueueRow(j, g) ==
  /\ ~NameTaken(TaskName(j, g))
  /\ outbox' = Append(outbox, NewRow(j, g))

RowsOf(j) == {i \in RowIds : outbox[i].job = j}

(* Mutant: the ownership test before J17, any lease. *)
HeldByStatusOnly(c) == outbox[c.row].status = "leased"

(* _held_by(): this claim still owns the row. *)
HeldBy(c) == outbox[c.row].status = "leased" /\ outbox[c.row].token = c.token

Finished(row, status) ==
  [row EXCEPT !.status = status, !.lease = "none", !.token = NoToken]

-----------------------------------------------------------------------------
(* Time *)

LeaseExpires(i) ==
  /\ i \in RowIds
  /\ outbox[i].lease = "live"
  /\ outbox' = [outbox EXCEPT ![i].lease = "expired"]
  /\ UNCHANGED <<job, log, task, runs, faults>>

JobLeaseExpires(j) ==
  /\ job[j].lease = "live"
  /\ job' = [job EXCEPT ![j].lease = "expired"]
  /\ UNCHANGED <<outbox, log, task, runs, faults>>
=============================================================================
