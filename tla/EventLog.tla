------------------------------ MODULE EventLog ------------------------------
(***************************************************************************)
(* The job_event rows of one job: the transactions that append to them     *)
(* statement by statement, at READ COMMITTED, beside the updates of the    *)
(* job's row in the same transactions, and the clients that follow them.   *)
(*                                                                         *)
(* A transaction that appends holds the index entry of its number, then a  *)
(* key-share lock on the job's row (the foreign key), and updates of the   *)
(* row hold the row: each waits for the others, and what waits for itself  *)
(* is ended by PostgreSQL.                                                 *)
(***************************************************************************)
EXTENDS Integers, FiniteSets, Sequences

CONSTANTS
  Workers,     \* processes that run the job's handler, late ones included
  Sweepers,    \* scheduled passes
  Readers,     \* clients that follow the stream
  PageSize,    \* _MAX_EVENTS_PER_RESPONSE
  MaxRuns,     \* bound: how often the job is claimed
  MaxEvents    \* bound: no progress is reported in a longer log

ASSUME BoundsAssumption ==
  /\ PageSize \in Nat \ {0}
  /\ MaxRuns \in Nat
  /\ MaxEvents \in Nat

Sessions == Workers \union Sweepers

Outcome == {"completed", "failed"}
Ending  == Outcome \union {"timed_out"}
Kind    == Ending \union {"started", "progress", "discarded"}
Event   == [kind: Kind, run: 1 .. MaxRuns]

VARIABLES
  job,        \* the row: its status, its lease, and how often it was claimed
  events,     \* [sequence -> Event], the rows that are committed
  session,    \* [Sessions -> what a process is doing]
  cursor,     \* [Readers -> the Last-Event-ID of a client]
  received    \* [Readers -> the numbers of the events it was sent]

vars == <<job, events, session, cursor, received>>

(* A job that ended is named after the event that says how; "dispatched"   *)
(* stands for all from the re-drive, or the submission, to the claim.      *)
Status == Ending \union {"dispatched", "running"}
Job    == [status: Status, lease: {"live", "expired", "none"}, run: Nat]

(* Where an append is: its number computed, its row in the index, the      *)
(* foreign key checked, the lease renewed or found to be nobody's.         *)
Appending == {"number", "insert", "refer", "renew", "renewed", "commit"}

(* staged: the handler's own transaction has rows that refer to the job.   *)
Idle == [at |-> "idle", kind |-> "none", run |-> 0, number |-> 0, staged |-> FALSE]
Session ==
  [ at: {"idle", "claimed", "working", "failing"} \union Appending,
    kind: Kind \union {"none"}, run: Nat, number: Nat, staged: BOOLEAN ]

TypeOK ==
  /\ job \in Job
  /\ DOMAIN events \subseteq Nat \ {0}
  /\ \A n \in DOMAIN events : events[n] \in Event
  /\ session \in [Sessions -> Session]
  /\ cursor \in [Readers -> Nat]
  /\ received \in [Readers -> SUBSET Nat]

Init ==
  /\ job = [status |-> "dispatched", lease |-> "none", run |-> 0]
  /\ events = <<>>
  /\ session = [p \in Sessions |-> Idle]
  /\ cursor = [r \in Readers |-> 0]
  /\ received = [r \in Readers |-> {}]

-----------------------------------------------------------------------------
(* Locks *)

On(p, step) == session[p].at = step

(* Those whose row is in the index of (job_id, sequence), uncommitted. *)
HasEntry(p) == session[p].at \in {"refer", "renew", "renewed", "commit"}

(* Mutant: an update does not wait for the one before it. *)
NobodyUpdates(p) == {}

(* It has updated the job's row: for a renewal, or for the job's end. *)
HoldsRow(p) ==
  \/ On(p, "renewed")
  \/ session[p].at \in Appending /\ session[p].kind \in Ending

RowHolders(p) == {q \in Sessions \ {p} : HoldsRow(q)}

(* Those that have it locked FOR UPDATE, which a key-share waits for. *)
RowSweepers(p) == {q \in RowHolders(p) : session[q].kind = "timed_out"}

(* Those with a row that refers to the job's. *)
Referring(p) == session[p].staged \/ session[p].at \in {"renew", "renewed", "commit"}

WaitsFor(p) ==
  CASE On(p, "insert") -> {q \in Sessions \ {p} : HasEntry(q) /\ session[q].number = session[p].number}
    [] On(p, "refer")  -> RowSweepers(p)
    [] On(p, "renew")  -> RowHolders(p)
    [] OTHER           -> {}

(* One row and one next number can be held: no cycle is longer than two. *)
Deadlocked(p) == \E q \in WaitsFor(p) : p \in WaitsFor(q)

GoTo(p, step) == session' = [session EXCEPT ![p].at = step]
End(p)        == session' = [session EXCEPT ![p] = Idle]

-----------------------------------------------------------------------------
(* What starts a transaction *)

(* Mutant: the claim sets no lease. *)
ClaimUndated(w) ==
  /\ On(w, "idle")
  /\ job.status = "dispatched"
  /\ job.run < MaxRuns
  /\ RowHolders(w) = {}
  /\ job' = [status |-> "running", lease |-> "none", run |-> job.run + 1]
  /\ session' = [session EXCEPT ![w] = [Idle EXCEPT !.at = "claimed", !.run = job.run + 1]]
  /\ UNCHANGED <<events, cursor, received>>

(* claim(): the lease is set with the status. *)
Claim(w) ==
  /\ On(w, "idle")
  /\ job.status = "dispatched"
  /\ job.run < MaxRuns
  /\ RowHolders(w) = {}
  /\ job' = [status |-> "running", lease |-> "live", run |-> job.run + 1]
  /\ session' = [session EXCEPT ![w] = [Idle EXCEPT !.at = "claimed", !.run = job.run + 1]]
  /\ UNCHANGED <<events, cursor, received>>

(* _emit(), in a transaction of its own. *)
Emit(w) ==
  /\ \/ On(w, "claimed")
     \/ On(w, "working") /\ Cardinality(DOMAIN events) < MaxEvents
  /\ session' = [session EXCEPT ![w].at = "number",
                   ![w].kind = IF On(w, "claimed") THEN "started" ELSE "progress"]
  /\ UNCHANGED <<job, events, cursor, received>>

(* The handler writes a row that refers to its job. *)
Stage(w) ==
  /\ On(w, "working") /\ ~session[w].staged
  /\ RowSweepers(w) = {}
  /\ session' = [session EXCEPT ![w].staged = TRUE]
  /\ UNCHANGED <<job, events, cursor, received>>

(* _finish(): a failure rolls back what the handler staged, then the       *)
(* conditional update waits for the row; a job that is not running any     *)
(* more rolls back the rest, and that is what is recorded.                 *)
Finish(w, kind) ==
  /\ On(w, "working") \/ (On(w, "failing") /\ kind = "failed")
  /\ RowHolders(w) = {}
  /\ session' = [session EXCEPT ![w].at = "number",
                   ![w].kind   = IF job.status = "running" THEN kind ELSE "discarded",
                   ![w].staged = @ /\ kind = "completed" /\ job.status = "running"]
  /\ UNCHANGED <<job, events, cursor, received>>

(* sweep_expired_leases() skips a row that is locked at all. *)
Sweep(s) ==
  /\ On(s, "idle")
  /\ job.status = "running" /\ job.lease = "expired"
  /\ RowHolders(s) = {}
  /\ \A p \in Sessions : ~Referring(p)
  /\ session' = [session EXCEPT ![s] =
       [Idle EXCEPT !.at = "number", !.kind = "timed_out", !.run = job.run]]
  /\ UNCHANGED <<job, events, cursor, received>>

-----------------------------------------------------------------------------
(* append_event() and what follows it in its transaction *)

Last == Cardinality(DOMAIN events)

(* Mutant: the number is taken from a counter that counts other            *)
(* transactions' rows before they commit.                                  *)
NumberAhead(p) ==
  /\ On(p, "number")
  /\ session' = [session EXCEPT ![p].at = "insert",
                   ![p].number = Last + 1 + Cardinality({q \in Sessions \ {p} : HasEntry(q)})]
  /\ UNCHANGED <<job, events, cursor, received>>

(* max(sequence) + 1, of the rows committed when the statement starts. *)
Number(p) ==
  /\ On(p, "number")
  /\ \E n \in {0} \union DOMAIN events :
       /\ \A m \in DOMAIN events : m <= n
       /\ session' = [session EXCEPT ![p].at = "insert", ![p].number = n + 1]
  /\ UNCHANGED <<job, events, cursor, received>>

Insert(p) ==
  /\ On(p, "insert")
  /\ session[p].number \notin DOMAIN events
  /\ WaitsFor(p) = {}
  /\ GoTo(p, "refer")
  /\ UNCHANGED <<job, events, cursor, received>>

Refer(p) ==
  /\ On(p, "refer")
  /\ WaitsFor(p) = {}
  /\ GoTo(p, IF session[p].kind \in {"started", "progress"} THEN "renew" ELSE "commit")
  /\ UNCHANGED <<job, events, cursor, received>>

(* renew_lease() *)
Renew(p) ==
  /\ On(p, "renew")
  /\ WaitsFor(p) = {}
  /\ GoTo(p, IF job.status = "running" THEN "renewed" ELSE "commit")
  /\ UNCHANGED <<job, events, cursor, received>>

Commit(p) ==
  /\ On(p, "commit") \/ On(p, "renewed")
  /\ events' = [n \in DOMAIN events \union {session[p].number} |->
       IF n = session[p].number THEN [kind |-> session[p].kind, run |-> session[p].run]
                                ELSE events[n]]
  /\ job' = IF session[p].kind \in Ending
              THEN [job EXCEPT !.status = session[p].kind, !.lease = "none"]
              ELSE IF On(p, "renewed") THEN [job EXCEPT !.lease = "live"] ELSE job
  /\ IF session[p].kind \in {"started", "progress"} THEN GoTo(p, "working") ELSE End(p)
  /\ UNCHANGED <<cursor, received>>

(* The error of a handler's progress report ends its handler, which        *)
(* _run_claimed_job() records as a failure; every other error ends the     *)
(* request.                                                                *)
GiveUp(p) ==
  IF session[p].kind = "progress"
    THEN session' = [session EXCEPT ![p].at = "failing", ![p].staged = FALSE]
    ELSE End(p)

(* uq_job_event_sequence: the number was committed by another. *)
Collide(p) ==
  /\ On(p, "insert")
  /\ session[p].number \in DOMAIN events
  /\ GiveUp(p)
  /\ UNCHANGED <<job, events, cursor, received>>

(* deadlock_timeout *)
Cancel(p) ==
  /\ Deadlocked(p)
  /\ GiveUp(p)
  /\ UNCHANGED <<job, events, cursor, received>>

-----------------------------------------------------------------------------
(* A process ends, and its transactions are rolled back. *)
Die(p) ==
  /\ ~On(p, "idle")
  /\ End(p)
  /\ UNCHANGED <<job, events, cursor, received>>

LeasePasses ==
  /\ job.status = "running" /\ job.lease = "live"
  /\ job' = [job EXCEPT !.lease = "expired"]
  /\ UNCHANGED <<events, session, cursor, received>>

(* A re-drive, and its dispatch. *)
Redrive ==
  /\ job.status \in {"failed", "timed_out"}
  /\ \A p \in Sessions : RowHolders(p) = {}
  /\ job' = [job EXCEPT !.status = "dispatched"]
  /\ UNCHANGED <<events, session, cursor, received>>

(* stream_job_events(): the next page after the cursor, in order. *)
Read(r) ==
  LET new  == {n \in DOMAIN events : n > cursor[r]}
      page == {n \in new : Cardinality({m \in new : m < n}) < PageSize}
  IN /\ \E last \in page :
          /\ \A n \in page : n <= last
          /\ cursor' = [cursor EXCEPT ![r] = last]
     /\ received' = [received EXCEPT ![r] = @ \union page]
     /\ UNCHANGED <<job, events, session>>

Proceed(p) ==
  \/ Number(p) \/ Insert(p) \/ Refer(p) \/ Renew(p) \/ Commit(p)
  \/ Collide(p) \/ Cancel(p)

Next ==
  \/ \E w \in Workers :
       \/ Claim(w) \/ Emit(w) \/ Stage(w)
       \/ \E kind \in Outcome : Finish(w, kind)
  \/ \E s \in Sweepers : Sweep(s)
  \/ \E p \in Sessions : Proceed(p) \/ Die(p)
  \/ LeasePasses
  \/ Redrive
  \/ \E r \in Readers : Read(r)

Spec == Init /\ [][Next]_vars

(* Transactions that are not killed go on, PostgreSQL grants locks in the  *)
(* order they were asked for, passes are started again and again, and      *)
(* processes are not killed for ever.                                      *)
Fairness ==
  /\ \A p \in Sessions : SF_vars(Proceed(p))
  /\ \A s \in Sweepers : SF_vars(Sweep(s))
  /\ <>[][\A p \in Sessions : ~Die(p)]_vars

(* A handler that has written rows comes to its end. *)
HandlersEnd ==
  \A w \in Workers : SF_vars(session[w].staged /\ \E kind \in Outcome : Finish(w, kind))

(* A handler may hang, and its process stay healthy. *)
HangSpec == Spec /\ Fairness

FairSpec == HangSpec /\ HandlersEnd

-----------------------------------------------------------------------------
(* Properties *)

Endings == {n \in DOMAIN events : events[n].kind \in Ending}

(* "A terminal state with no event explaining it, or an event describing   *)
(* an outcome the job never reached, would each be worse than neither"     *)
(* (_finish): every run but the one that is running has ended with one     *)
(* event, and the last of them says what the job is, however the sweep,    *)
(* the handler and the late handler of an earlier run meet.                *)
EveryRunIsExplained ==
  /\ Cardinality(Endings) = job.run - IF job.status = "running" THEN 1 ELSE 0
  /\ job.status \in Ending =>
       \E n \in Endings : /\ \A m \in Endings : m <= n
                          /\ events[n].kind = job.status

Log == INSTANCE OrderedLog WITH log <- events

(* "The stream resumes from there - no duplicates, no gap"                 *)
(* (stream_job_events): numbers become visible in order, so what a client  *)
(* has when it resumes from its cursor is all there was before.            *)
ImplementsOrderedLog == Log!Spec

(* A running job whose deadline has passed, or that has none, is swept, or *)
(* somebody reports on it.                                                 *)
SilentJobIsSwept ==
  (job.status = "running" /\ job.lease # "live")
    ~> (job.status # "running" \/ job.lease = "live")

-----------------------------------------------------------------------------
(* The invariant the proofs use *)

(* Rows are numbered without gaps, ... *)
LogIsSequence == events \in Seq(Event)

RunsCounted == job.run \in 0 .. MaxRuns /\ (job.status = "running" => job.run > 0)

(* ... an uncommitted row has the next number, and is the only one; ...    *)
NextNumberHeldOnce ==
  /\ \A p \in Sessions :
       /\ On(p, "insert") => session[p].number \in 1 .. Len(events) + 1
       /\ HasEntry(p) => session[p].number = Len(events) + 1
  /\ \A p, q \in Sessions : HasEntry(p) /\ HasEntry(q) => p = q

(* ... one transaction has updated the job's row, which still says it runs *)
(* to the others; ...                                                      *)
RowHeldOnce ==
  /\ \A p \in Sessions : HoldsRow(p) => job.status = "running"
  /\ \A p, q \in Sessions : HoldsRow(p) /\ HoldsRow(q) => p = q

SessionsAreRuns ==
  \A p \in Sessions :
    /\ ~On(p, "idle") => session[p].run \in 1 .. MaxRuns
    /\ session[p].at \in Appending => session[p].kind \in Kind
    /\ On(p, "renew") \/ On(p, "renewed") => session[p].kind \in {"started", "progress"}

(* ... and a client has all up to its cursor.                              *)
ReadersHavePrefixes ==
  \A r \in Readers : cursor[r] <= Len(events) /\ received[r] = 1 .. cursor[r]

LogInv ==
  /\ TypeOK /\ LogIsSequence /\ RunsCounted
  /\ NextNumberHeldOnce /\ RowHeldOnce /\ SessionsAreRuns
  /\ ReadersHavePrefixes /\ EveryRunIsExplained

-----------------------------------------------------------------------------
(* What the detector need not break: *)

(* a transaction that waits for nobody, or that PostgreSQL will cancel ... *)
GoesOn(p) == session[p].at \in Appending /\ (WaitsFor(p) = {} \/ Deadlocked(p))

(* ... is at the end of every queue, behind two at most: no transactions   *)
(* wait for each other for ever, though none takes the locks - the index   *)
(* entry, the key-share, the row - in the order the others take them.      *)
QueuesEnd ==
  \A p \in Sessions : session[p].at \in Appending =>
    \/ GoesOn(p)
    \/ \E q \in WaitsFor(p) : GoesOn(q) \/ \E r \in WaitsFor(q) : GoesOn(r)
=============================================================================
