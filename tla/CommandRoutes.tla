--------------------------- MODULE CommandRoutes ----------------------------
(***************************************************************************)
(* submit_command(), redrive_job() and abandon_job() as PostgreSQL runs    *)
(* them: one statement at a time, at READ COMMITTED, several requests at   *)
(* once.  What a request has written and not committed is in its handler;  *)
(* others see of it only that the row is locked: an INSERT of a key        *)
(* waits for the transaction that inserted it, and an UPDATE of a job      *)
(* for the one that updated it.                                            *)
(*                                                                         *)
(* Requests refused before the key is looked at (429, 404, 403, 400) write *)
(* nothing to these tables and are left out.                               *)
(***************************************************************************)
EXTENDS RouteTables

CONSTANTS
  Handlers,     \* requests the API instances serve at one time
  MaxFailures   \* bound: the runs of a job fail no more often

ASSUME BoundAssumption == MaxFailures \in Nat

VARIABLES
  handler,   \* [Handlers -> the request a handler is working on]
  failures   \* [Jobs -> how often a run ended in a failure an operator may answer]

vars == <<job, outbox, idem, answers, handler, failures>>

Step == {"reserve", "create", "read", "park", "decide", "answer"}

Idle == [at |-> "idle"]

(* seen is the status _open_parking() read, generation what the answer     *)
(* will say.                                                               *)
Request ==
  [ at: Step, scope: Scope, note: Notes, job: Jobs,
    seen: JobState \union {"absent"}, generation: Generation ]

RoutesTypeOK ==
  /\ TablesTypeOK
  /\ handler \in [Handlers -> {Idle} \union Request]
  /\ failures \in [Jobs -> Nat]

Init ==
  /\ TablesInit
  /\ handler = [h \in Handlers |-> Idle]
  /\ failures = [j \in Jobs |-> 0]

-----------------------------------------------------------------------------
(* Locks *)

(* The handlers whose transaction has inserted the key of scope s. *)
KeyHolders(s) ==
  {h \in Handlers : handler[h].at \in {"create", "read", "park", "decide"} /\ handler[h].scope = s}

(* Mutant: an update that does not wait for the row's holder. *)
NoRowHolders(j) == {}

(* The handlers whose transaction has updated the row of job j. *)
RowHolders(j) == {h \in Handlers : handler[h].at = "decide" /\ handler[h].job = j}

GoTo(h, step) == handler' = [handler EXCEPT ![h].at = step]

Finish(h) == handler' = [handler EXCEPT ![h] = Idle]

(* A 409: the savepoint, or the whole transaction, is rolled back. *)
Refuse(h) == Finish(h) /\ UNCHANGED <<job, outbox, idem, answers, failures>>

-----------------------------------------------------------------------------
(* A submission mints the id of the job it may come to create. *)
Fresh(j) ==
  /\ job[j] = "absent"
  /\ \A h \in Handlers : handler[h] # Idle => handler[h].job # j

Receive(h, s, n, j) ==
  /\ handler[h] = Idle
  /\ IF s.command = "submit" THEN Fresh(j) ELSE job[j] # "absent"
  /\ handler' = [handler EXCEPT ![h] =
       [at |-> "reserve", scope |-> s, note |-> n, job |-> j,
        seen |-> "absent", generation |-> NoGeneration]]
  /\ UNCHANGED <<job, outbox, idem, answers, failures>>

(* Mutant: an insert that does not wait for the key's holder. *)
CanInsertWithoutWaiting(h) == handler[h].at = "reserve"

(* reserve(): the insert waits for a transaction that holds the key. *)
CanInsert(h) ==
  /\ handler[h].at = "reserve"
  /\ KeyHolders(handler[h].scope) = {}

ReserveKey(h) ==
  /\ CanInsert(h)
  /\ Recorded(handler[h].scope) = {}
  /\ GoTo(h, IF handler[h].scope.command = "submit" THEN "create" ELSE "read")
  /\ UNCHANGED <<job, outbox, idem, answers, failures>>

SameRequest(h, r) ==
  /\ r.note = handler[h].note
  /\ r.scope.command # "submit" => r.job = handler[h].job

(* Mutant (J14): a replay answers with the job's newest dispatch. *)
ReplayNewestDispatch(h) ==
  /\ CanInsert(h)
  /\ \E r \in Recorded(handler[h].scope) :
       /\ SameRequest(h, r)
       /\ handler' = [handler EXCEPT ![h].at = "answer", ![h].job = r.job,
            ![h].generation =
              IF r.generation = NoGeneration THEN NoGeneration ELSE NextGeneration(r.job) - 1]
  /\ UNCHANGED <<job, outbox, idem, answers, failures>>

(* A key that was accepted for this request: its record says the answer. *)
Replay(h) ==
  /\ CanInsert(h)
  /\ \E r \in Recorded(handler[h].scope) :
       /\ SameRequest(h, r)
       /\ handler' = [handler EXCEPT
            ![h].at = "answer", ![h].job = r.job, ![h].generation = r.generation]
  /\ UNCHANGED <<job, outbox, idem, answers, failures>>

(* IdempotencyConflictError: the key was accepted for another request. *)
RefuseKey(h) ==
  /\ CanInsert(h)
  /\ \E r \in Recorded(handler[h].scope) : ~SameRequest(h, r)
  /\ Refuse(h)

-----------------------------------------------------------------------------
(* The rest of submit_command(), to its commit. *)
Create(h) ==
  /\ handler[h].at = "create"
  /\ CreateJob(handler[h].scope, handler[h].note, handler[h].job)
  /\ GoTo(h, "answer")
  /\ UNCHANGED failures

(* _open_parking() reads the job without locking it, and refuses what the  *)
(* domain does not route into redrive_pending.  No transaction leaves a    *)
(* job parked, so none is found parked.                                    *)
Read(h) ==
  /\ handler[h].at = "read"
  /\ Parkable(handler[h].job)
  /\ handler' = [handler EXCEPT ![h].at = "park", ![h].seen = job[handler[h].job]]
  /\ UNCHANGED <<job, outbox, idem, answers, failures>>

RefuseState(h) ==
  /\ handler[h].at = "read"
  /\ ~Parkable(handler[h].job)
  /\ Refuse(h)

(* Mutant: the update is not conditional on what was read. *)
ParkUnconditionally(h) ==
  /\ handler[h].at = "park"
  /\ RowHolders(handler[h].job) = {}
  /\ GoTo(h, "decide")
  /\ UNCHANGED <<job, outbox, idem, answers, failures>>

(* transition(expected_from = parked_from): the update waits for the row,  *)
(* and then compares.                                                      *)
Park(h) ==
  /\ handler[h].at = "park"
  /\ RowHolders(handler[h].job) = {}
  /\ job[handler[h].job] = handler[h].seen
  /\ GoTo(h, "decide")
  /\ UNCHANGED <<job, outbox, idem, answers, failures>>

(* Mutant: a lost update is tried again, with what was read before. *)
RetryStale(h) ==
  /\ handler[h].at = "park"
  /\ RowHolders(handler[h].job) = {}
  /\ job[handler[h].job] # handler[h].seen
  /\ UNCHANGED vars

(* RedriveConflictError *)
RefuseMoved(h) ==
  /\ handler[h].at = "park"
  /\ RowHolders(handler[h].job) = {}
  /\ job[handler[h].job] # handler[h].seen
  /\ Refuse(h)

(* The rest of redrive() and record_result(), to the commit. *)
Redrive(h) ==
  /\ handler[h].at = "decide"
  /\ handler[h].scope.command = "redrive"
  /\ RequeueJob(handler[h].scope, handler[h].note, handler[h].job)
  /\ handler' = [handler EXCEPT
       ![h].at = "answer", ![h].generation = NextGeneration(handler[h].job)]
  /\ UNCHANGED failures

Abandon(h) ==
  /\ handler[h].at = "decide"
  /\ handler[h].scope.command = "abandon"
  /\ CloseJob(handler[h].scope, handler[h].note, handler[h].job)
  /\ GoTo(h, "answer")
  /\ UNCHANGED failures

-----------------------------------------------------------------------------
Send(h) ==
  /\ handler[h].at = "answer"
  /\ answers' = answers \union
       {[scope |-> handler[h].scope, job |-> handler[h].job, generation |-> handler[h].generation]}
  /\ Finish(h)
  /\ UNCHANGED <<job, outbox, idem, failures>>

(* A 500 or a dead instance: what was not committed is rolled back, what   *)
(* was committed stays, and the client learns nothing.                     *)
Fail(h) ==
  /\ handler[h] # Idle
  /\ Finish(h)
  /\ UNCHANGED <<job, outbox, idem, answers, failures>>

(* Other transactions move the job, when no handler holds its row. *)
JobMoves(j) ==
  /\ RowHolders(j) = {}
  /\ Work(j)
  /\ failures' = [failures EXCEPT ![j] =
       IF CanTransition(job'[j], "redrive_pending") THEN @ + 1 ELSE @]
  /\ failures'[j] <= MaxFailures
  /\ UNCHANGED handler

Serve(h) ==
  \/ ReserveKey(h) \/ Replay(h) \/ RefuseKey(h)
  \/ Create(h)
  \/ Read(h) \/ RefuseState(h)
  \/ Park(h) \/ RefuseMoved(h)
  \/ Redrive(h) \/ Abandon(h)
  \/ Send(h)

Next ==
  \/ \E h \in Handlers, s \in Scope, n \in Notes, j \in Jobs : Receive(h, s, n, j)
  \/ \E h \in Handlers : Serve(h) \/ Fail(h)
  \/ \E j \in Jobs : JobMoves(j)

Spec == Init /\ [][Next]_vars

-----------------------------------------------------------------------------
(* Properties *)

(* What the record of an accepted command says was done, was done, to that *)
(* job, and by that key.                                                   *)
Done(r) ==
  CASE r.scope.command = "submit"  -> Len(outbox[r.job]) >= 1 /\ outbox[r.job][1] = r.scope
    [] r.scope.command = "redrive" -> /\ r.generation \in 1 .. NextGeneration(r.job) - 1
                                      /\ outbox[r.job][r.generation + 1] = r.scope
    [] OTHER                       -> job[r.job] = "abandoned"

(* "A key names accepted work" (routers/redrive.py): however requests with *)
(* one key overlap, fail and are retried, the key has at most one record,  *)
(* what the record says was done, and no job, dispatch or abandonment      *)
(* exists that a record does not name: a refused or failed command leaves  *)
(* neither a key nor a write.                                              *)
KeyNamesAcceptedWork ==
  /\ \A s \in Scope : Cardinality(Recorded(s)) <= 1
  /\ \A r \in idem : Done(r)
  /\ \A j \in Jobs :
       /\ \A i \in 1 .. Len(outbox[j]) :
            \E r \in Recorded(outbox[j][i]) :
              r.job = j /\ r.generation = IF i = 1 THEN NoGeneration ELSE i - 1
       /\ job[j] = "abandoned" =>
            Cardinality({r \in idem : r.job = j /\ r.scope.command = "abandon"}) = 1

Repeats(a, r) == r.scope = a.scope /\ r.job = a.job /\ r.generation = a.generation

(* Every accepted answer to one key names the same job and the same        *)
(* dispatch, the one the key's own command made, whatever happened to the  *)
(* job between the command and the retry (J14), and none is given for work *)
(* that was not committed.                                                 *)
AnswersAgree ==
  /\ \A a, b \in answers : a.scope = b.scope => a = b
  /\ \A a \in answers : \E r \in idem : Repeats(a, r)

Decisions(j) == {r \in idem : r.job = j /\ r.scope.command \in {"redrive", "abandon"}}

(* Two people pressing the button, with keys of their own: each failure is *)
(* answered by one decision at most, and a job nobody has decided about    *)
(* since it failed is still there to decide about.                         *)
OneDecisionPerFailure ==
  \A j \in Jobs :
    failures[j] = Cardinality(Decisions(j)) + IF Parkable(j) THEN 1 ELSE 0

Atomic == INSTANCE AtomicRoutes

(* The statements of concurrent requests add up to indivisible commands.   *)
ImplementsAtomicRoutes == Atomic!Spec

(* Keys are locked before jobs, and by every route: while requests are in  *)
(* progress one of them at least can take its next step, so no circle of   *)
(* them waits for each other's keys and jobs.                              *)
RequestsProceed ==
  (\E h \in Handlers : handler[h] # Idle)
    => \E h \in Handlers : handler[h] # Idle /\ ENABLED <<Serve(h)>>_vars

-----------------------------------------------------------------------------
(* The invariant the proofs rest on: what a handler established under a    *)
(* lock stays true until its transaction ends.                             *)
Deciding == {"read", "park", "decide"}

(* A key is inserted once, by one transaction. *)
KeysHeld ==
  /\ \A h \in Handlers : handler[h].at \in {"create"} \union Deciding =>
       /\ Recorded(handler[h].scope) = {}
       /\ KeyHolders(handler[h].scope) = {h}
  /\ \A r, q \in idem : r.scope = q.scope => r = q

(* A row is updated by one transaction, from a status that may be parked. *)
RowsHeld ==
  /\ \A h \in Handlers : handler[h].at = "park" =>
       handler[h].seen # "absent" /\ CanTransition(handler[h].seen, "redrive_pending")
  /\ \A h \in Handlers : handler[h].at = "decide" =>
       Parkable(handler[h].job) /\ RowHolders(handler[h].job) = {h}

(* The id a submission minted is nobody else's, and a job with a record or *)
(* a decision to make about it exists.                                     *)
JobsKnown ==
  /\ \A h \in Handlers :
       handler[h].at \in {"reserve", "create"} /\ handler[h].scope.command = "submit" =>
         /\ job[handler[h].job] = "absent"
         /\ \A g \in Handlers \ {h} : handler[g] # Idle => handler[g].job # handler[h].job
  /\ \A h \in Handlers : handler[h].at \in Deciding => handler[h].scope.command # "submit"
  /\ \A h \in Handlers : handler[h].at = "create" => handler[h].scope.command = "submit"
  /\ \A h \in Handlers : handler[h] # Idle /\ handler[h].scope.command # "submit" =>
       job[handler[h].job] # "absent"
  /\ \A r \in idem : job[r.job] # "absent"

(* What is answered, or about to be, is on record. *)
AnswersRecorded ==
  /\ \A h \in Handlers : handler[h].at \in Step \ {"answer"} =>
       handler[h].generation = NoGeneration
  /\ \A h \in Handlers : handler[h].at = "answer" => \E r \in idem : Repeats(handler[h], r)
  /\ \A a \in answers : \E r \in idem : Repeats(a, r)

RoutesInv == RoutesTypeOK /\ KeysHeld /\ RowsHeld /\ JobsKnown /\ AnswersRecorded
=============================================================================
