------------------------- MODULE CommandPathProofs --------------------------
(***************************************************************************)
(* Proofs about the command path, for any jobs, processes and bounds:      *)
(* first types and the coherence of jobs and outbox, the invariant that    *)
(* all else stands on; then what the path promises of attempts, tasks,     *)
(* runs, effects and decisions; and that it implements its contract.       *)
(***************************************************************************)
EXTENDS CommandRefinement, FiniteSetTheorems, SequenceTheorems, TLAPS

-----------------------------------------------------------------------------
(* The outbox as a sequence *)

(* A row id is an index of the outbox, and the row at it is a row. *)
LEMMA RowsTyped ==
  ASSUME StoreTypeOK
  PROVE  /\ Len(outbox) \in Nat
         /\ RowIds = 1 .. Len(outbox)
         /\ \A i \in RowIds : outbox[i] \in OutboxRow
  BY DEF StoreTypeOK, RowIds

(* Rewriting rows in place gives an outbox with the same ids. *)
LEMMA Rewritten ==
  ASSUME StoreTypeOK, NEW t \in [RowIds -> OutboxRow]
  PROVE  t \in Seq(OutboxRow) /\ DOMAIN t = RowIds
  BY RowsTyped

(* One row is rewritten. *)
LEMMA RewrittenAt ==
  ASSUME StoreTypeOK, NEW i \in RowIds, NEW r \in OutboxRow, outbox' = [outbox EXCEPT ![i] = r]
  PROVE  /\ outbox' \in Seq(OutboxRow)
         /\ RowIds' = RowIds
         /\ \A k \in RowIds : outbox'[k] = IF k = i THEN r ELSE outbox[k]
  <1>1. outbox' \in [RowIds -> OutboxRow]
    BY RowsTyped DEF RowIds
  <1>2. \A k \in RowIds : outbox'[k] = IF k = i THEN r ELSE outbox[k]
    BY RowsTyped DEF RowIds
  <1> QED
    BY <1>1, <1>2, Rewritten DEF RowIds

(* The rows of a set are rewritten. *)
LEMMA RewrittenIn ==
  ASSUME StoreTypeOK, NEW S, NEW t,
         \A i \in RowIds : t[i] \in OutboxRow,
         outbox' = [i \in RowIds |-> IF i \in S THEN t[i] ELSE outbox[i]]
  PROVE  /\ outbox' \in Seq(OutboxRow)
         /\ RowIds' = RowIds
         /\ \A i \in RowIds : outbox'[i] = IF i \in S THEN t[i] ELSE outbox[i]
  <1>1. outbox' \in [RowIds -> OutboxRow]
    BY RowsTyped
  <1> QED
    BY <1>1, Rewritten DEF RowIds

(* Appending a row keeps every row and adds one id. *)
LEMMA Appending ==
  ASSUME StoreTypeOK, NEW r \in OutboxRow
  PROVE  LET t == Append(outbox, r) IN
         /\ t \in Seq(OutboxRow)
         /\ DOMAIN t = RowIds \union {Len(outbox) + 1}
         /\ Len(outbox) + 1 \notin RowIds
         /\ \A i \in RowIds : t[i] = outbox[i]
         /\ t[Len(outbox) + 1] = r
  <1>1. outbox \in Seq(OutboxRow)
    BY DEF StoreTypeOK
  <1>2. Append(outbox, r) \in Seq(OutboxRow) /\ Len(Append(outbox, r)) = Len(outbox) + 1
    BY <1>1
  <1> QED
    BY <1>1, <1>2, RowsTyped

(* The number of a job's rows is a number, and not 0 when it has one. *)
LEMMA RowCount ==
  ASSUME StoreTypeOK, NEW j \in Jobs
  PROVE  /\ NextGeneration(j) \in Nat
         /\ RowsOf(j) # {} => NextGeneration(j) \in Nat \ {0}
  <1>1. IsFiniteSet(RowIds)
    BY RowsTyped, FS_Interval
  <1>2. IsFiniteSet(RowsOf(j))
    BY <1>1, FS_Subset DEF RowsOf
  <1> QED
    BY <1>2, FS_CardinalityType, FS_EmptySet DEF NextGeneration

-----------------------------------------------------------------------------
(* An empty database, an empty queue and idle processes satisfy it. *)
THEOREM InitIndInv == Init => IndInv
  <1> SUFFICES ASSUME Init PROVE IndInv
    OBVIOUS
  <1> USE DEF Init, StoreInit, DispatcherInit, ExecutorInit, RedriveInit
  <1>1. StoreTypeOK
    BY FaultsAssumption DEF StoreTypeOK, JobRow, Lease, JobState, TaskState
  <1>2. DispatcherTypeOK
    BY DEF DispatcherTypeOK, PassStep, RowIds
  <1>3. ExecutorTypeOK
    BY DEF ExecutorTypeOK, DeliveryStep, Idle
  <1>4. RedriveTypeOK
    BY DEF RedriveTypeOK
  <1>5. SubmittedHasRow /\ OutboxCarriesQueue /\ RunningHasLease
    BY DEF SubmittedHasRow, OutboxCarriesQueue, QueuedHasLiveRow, LiveRowIsQueued,
           OneLiveRow, RunningHasLease, RowIds, Running
  <1> QED
    BY <1>1, <1>2, <1>3, <1>4, <1>5 DEF IndInv, TypeOK

-----------------------------------------------------------------------------
(* How each kind of change to the jobs and the outbox keeps them coherent *)

Coherent == SubmittedHasRow /\ OutboxCarriesQueue /\ RunningHasLease

(* Neither the jobs nor the outbox change. *)
LEMMA CoherentSame ==
  ASSUME Coherent, UNCHANGED <<job, outbox>>
  PROVE  Coherent'
  BY DEF Coherent, SubmittedHasRow, OutboxCarriesQueue, QueuedHasLiveRow, LiveRowIsQueued,
         OneLiveRow, RunningHasLease, Running, RowIds, RowsOf, Live

(* Jobs that are past 'queued' move on, and hold a lease exactly while     *)
(* they run.                                                               *)
LEMMA CoherentJobs ==
  ASSUME Coherent, UNCHANGED outbox,
         \A j \in Jobs : \/ job'[j] = job[j]
                         \/ /\ job[j].status \notin {"absent", "queued"}
                            /\ job'[j].status # "queued"
                            /\ job'[j].status = "running" <=> job'[j].lease # "none",
         StoreTypeOK
  PROVE  Coherent'
  <1> USE DEF Coherent, RowIds, RowsOf, Live, Running
  <1>1. SubmittedHasRow'
    BY DEF SubmittedHasRow
  <1>2. QueuedHasLiveRow'
    BY DEF OutboxCarriesQueue, QueuedHasLiveRow
  <1>3. LiveRowIsQueued'
    <2> SUFFICES ASSUME NEW i \in RowIds, Live(i)
                 PROVE  job'[outbox[i].job].status = "queued"
      BY DEF LiveRowIsQueued
    <2>1. outbox[i].job \in Jobs
      BY RowsTyped DEF OutboxRow
    <2>2. job[outbox[i].job].status = "queued"
      BY DEF OutboxCarriesQueue, LiveRowIsQueued
    <2> QED
      BY <2>1, <2>2
  <1>4. OneLiveRow'
    BY DEF OutboxCarriesQueue, OneLiveRow
  <1>5. RunningHasLease'
    BY DEF RunningHasLease
  <1> QED
    BY <1>1, <1>2, <1>3, <1>4, <1>5 DEF OutboxCarriesQueue

(* Rows are rewritten but stay live or settled as they were. *)
LEMMA CoherentRows ==
  ASSUME Coherent, UNCHANGED job, RowIds' = RowIds,
         \A i \in RowIds : outbox'[i].job = outbox[i].job /\ (Live(i)' <=> Live(i))
  PROVE  Coherent'
  BY DEF Coherent, SubmittedHasRow, OutboxCarriesQueue, QueuedHasLiveRow, LiveRowIsQueued,
         OneLiveRow, RunningHasLease, Running, RowsOf

(* Live rows are settled, and each takes its queued job with it. *)
Settling(S, moved) ==
  /\ S \in SUBSET RowIds
  /\ \A i \in S : Live(i)
  /\ moved.status \notin {"queued", "running"}
  /\ moved.lease = "none"
  /\ RowIds' = RowIds
  /\ \A i \in RowIds : /\ outbox'[i].job = outbox[i].job
                       /\ Live(i)' <=> Live(i) /\ i \notin S
  /\ \A j \in Jobs : job'[j] = IF \E i \in S : outbox[i].job = j THEN moved ELSE job[j]

(* The rows of S settle and their jobs move on, together. *)
LEMMA CoherentSettled ==
  ASSUME Coherent, StoreTypeOK, NEW S, NEW moved, Settling(S, moved)
  PROVE  Coherent'
  <1> USE DEF Coherent, Settling
  <1>1. \A i \in RowIds : outbox[i].job \in Jobs
    BY RowsTyped DEF OutboxRow
  <1>2. \A i \in S : job[outbox[i].job].status = "queued"
    BY DEF OutboxCarriesQueue, LiveRowIsQueued
  <1>3. SubmittedHasRow'
    <2> SUFFICES ASSUME NEW j \in Jobs, job'[j].status # "absent" PROVE RowsOf(j) # {}
      BY DEF SubmittedHasRow, RowsOf
    <2> QED
      BY <1>2 DEF SubmittedHasRow, RowsOf
  <1>4. QueuedHasLiveRow'
    <2> SUFFICES ASSUME NEW j \in Jobs, job'[j].status = "queued"
                 PROVE  \E i \in RowIds : outbox[i].job = j /\ Live(i) /\ i \notin S
      BY DEF QueuedHasLiveRow
    <2> QED
      BY DEF OutboxCarriesQueue, QueuedHasLiveRow
  <1>5. LiveRowIsQueued'
    <2> SUFFICES ASSUME NEW i \in RowIds, Live(i), i \notin S
                 PROVE  job'[outbox[i].job].status = "queued"
      BY DEF LiveRowIsQueued
    <2>1. ~ \E k \in S : outbox[k].job = outbox[i].job
      BY DEF OutboxCarriesQueue, OneLiveRow
    <2> QED
      BY <1>1, <2>1 DEF OutboxCarriesQueue, LiveRowIsQueued
  <1>6. OneLiveRow'
    BY DEF OutboxCarriesQueue, OneLiveRow
  <1>7. RunningHasLease'
    BY DEF RunningHasLease, Running
  <1> QED
    BY <1>3, <1>4, <1>5, <1>6, <1>7 DEF OutboxCarriesQueue

(* A job with no live row is queued with a new one. *)
LEMMA CoherentRequested ==
  ASSUME Coherent, StoreTypeOK, NEW j \in Jobs, NEW g \in Nat,
         job[j].status # "queued",
         job' = [job EXCEPT ![j] = [status |-> "queued", lease |-> "none"]],
         EnqueueRow(j, g)
  PROVE  Coherent' /\ outbox' \in Seq(OutboxRow) /\ RowIds \subseteq RowIds'
  <1>0. PICK n : n = Len(outbox) + 1
    OBVIOUS
  <1>1. NewRow(j, g) \in OutboxRow
    BY DEF NewRow, OutboxRow, OutboxStatus, Lease, NoToken
  <1>2. /\ outbox' \in Seq(OutboxRow)
        /\ RowIds' = RowIds \union {n}
        /\ n \notin RowIds
        /\ \A i \in RowIds : outbox'[i] = outbox[i]
        /\ outbox'[n] = NewRow(j, g)
    BY <1>0, <1>1, Appending DEF EnqueueRow, RowIds
  <1>3. \A i \in RowIds : outbox[i].job \in Jobs /\ (outbox[i].job = j => ~Live(i))
    BY RowsTyped DEF OutboxRow, Coherent, OutboxCarriesQueue, LiveRowIsQueued
  <1>4. /\ \A i \in RowIds : Live(i)' <=> Live(i)
        /\ Live(n)'
        /\ outbox'[n].job = j
    BY <1>2 DEF Live, NewRow
  <1>5. /\ job'[j] = [status |-> "queued", lease |-> "none"]
        /\ \A k \in Jobs : k # j => job'[k] = job[k]
    BY DEF StoreTypeOK
  <1>6. SubmittedHasRow'
    BY <1>2, <1>4, <1>5 DEF Coherent, SubmittedHasRow, RowsOf
  <1>7. QueuedHasLiveRow'
    BY <1>2, <1>4, <1>5 DEF Coherent, OutboxCarriesQueue, QueuedHasLiveRow
  <1>8. LiveRowIsQueued'
    BY <1>2, <1>3, <1>4, <1>5 DEF Coherent, OutboxCarriesQueue, LiveRowIsQueued
  <1>9. OneLiveRow'
    BY <1>2, <1>3, <1>4 DEF Coherent, OutboxCarriesQueue, OneLiveRow
  <1>10. RunningHasLease'
    BY <1>5 DEF Coherent, RunningHasLease, Running
  <1> QED
    BY <1>2, <1>6, <1>7, <1>8, <1>9, <1>10 DEF Coherent, OutboxCarriesQueue

-----------------------------------------------------------------------------
(* Typing of the processes *)

RowSteps == {"enqueue", "record", "fail"}

(* A sequence is empty when its length is 0. *)
LEMMA EmptyIff ==
  ASSUME NEW S, NEW s \in Seq(S)
  PROVE  s = <<>> <=> Len(s) = 0
  BY EmptySeq

(* A dispatcher at work on a row holds a claim, of a row that exists. *)
LEMMA CurrentTyped ==
  ASSUME DispatcherTypeOK, NEW d \in Dispatchers, disp[d].pc \in RowSteps
  PROVE  /\ Len(disp[d].claims) \in Nat \ {0}
         /\ Current(d) \in ClaimRecord
         /\ Current(d).row \in RowIds
  <1>1. disp[d] \in [pc: PassStep, claims: Seq(ClaimRecord)] /\ disp[d].claims # <<>>
    BY DEF DispatcherTypeOK, RowSteps, PassStep
  <1>2. 1 \in DOMAIN disp[d].claims /\ Current(d) = disp[d].claims[1]
    BY <1>1 DEF Current
  <1> QED
    BY <1>1, <1>2 DEF DispatcherTypeOK

(* The dispatcher state stays typed when one dispatcher changes to a typed *)
(* state over rows that exist.                                             *)
LEMMA DispatcherUpdate ==
  ASSUME DispatcherTypeOK, NEW d \in Dispatchers,
         NEW new \in [pc: PassStep, claims: Seq(ClaimRecord)],
         disp' = [disp EXCEPT ![d] = new],
         RowIds \subseteq RowIds',
         \A k \in DOMAIN new.claims : new.claims[k].row \in RowIds,
         new.claims = <<>> <=> new.pc \in {"sweep", "reclaim", "claim"}
  PROVE  DispatcherTypeOK'
  BY DEF DispatcherTypeOK

(* No dispatcher moves; rows may be added. *)
LEMMA DispatcherSame ==
  ASSUME DispatcherTypeOK, UNCHANGED disp, RowIds \subseteq RowIds'
  PROVE  DispatcherTypeOK'
  BY DEF DispatcherTypeOK

(* A step from one part of a pass to another. *)
LEMMA DispatcherGoTo ==
  ASSUME DispatcherTypeOK, NEW d \in Dispatchers, NEW step \in PassStep, GoTo(d, step),
         RowIds \subseteq RowIds',
         disp[d].pc \in RowSteps <=> step \in RowSteps
  PROVE  DispatcherTypeOK'
  <1> DEFINE new == [disp[d] EXCEPT !.pc = step]
  <1>1. new \in [pc: PassStep, claims: Seq(ClaimRecord)] /\ new.pc = step
        /\ new.claims = disp[d].claims
    BY DEF DispatcherTypeOK
  <1>2. disp' = [disp EXCEPT ![d] = new]
    BY DEF GoTo, DispatcherTypeOK
  <1>3. new.claims = <<>> <=> step \in {"sweep", "reclaim", "claim"}
    BY <1>1 DEF DispatcherTypeOK, RowSteps, PassStep
  <1>4. \A k \in DOMAIN new.claims : new.claims[k].row \in RowIds
    BY <1>1 DEF DispatcherTypeOK
  <1> HIDE DEF new
  <1> QED
    BY <1>1, <1>2, <1>3, <1>4, DispatcherUpdate

(* A pass ends, or its process does, and its claims are forgotten. *)
LEMMA DispatcherEndPass ==
  ASSUME DispatcherTypeOK, NEW d \in Dispatchers, EndPass(d), RowIds \subseteq RowIds'
  PROVE  DispatcherTypeOK'
  <1> DEFINE new == [pc |-> "sweep", claims |-> <<>>]
  <1>1. new \in [pc: PassStep, claims: Seq(ClaimRecord)]
    BY DEF PassStep
  <1>2. new.claims = <<>> <=> new.pc \in {"sweep", "reclaim", "claim"}
    OBVIOUS
  <1>3. \A k \in DOMAIN new.claims : new.claims[k].row \in RowIds
    OBVIOUS
  <1>4. disp' = [disp EXCEPT ![d] = new]
    BY DEF EndPass
  <1> HIDE DEF new
  <1> QED
    BY <1>1, <1>2, <1>3, <1>4, DispatcherUpdate

(* A dispatcher goes on to the next row it claimed, or ends its pass. *)
LEMMA DispatcherNextRow ==
  ASSUME DispatcherTypeOK, NEW d \in Dispatchers, disp[d].pc \in RowSteps, NextRow(d),
         RowIds \subseteq RowIds'
  PROVE  DispatcherTypeOK'
  <1> DEFINE old == disp[d].claims
             new == [pc |-> IF Len(old) = 1 THEN "sweep" ELSE "enqueue", claims |-> Tail(old)]
  <1>1. old \in Seq(ClaimRecord) /\ Len(old) \in Nat \ {0}
        /\ \A k \in 1 .. Len(old) : old[k].row \in RowIds
    BY CurrentTyped DEF DispatcherTypeOK
  <1>2. disp' = [disp EXCEPT ![d] = new]
    BY DEF NextRow, DispatcherTypeOK
  <1>3. /\ Tail(old) \in Seq(ClaimRecord)
        /\ Len(Tail(old)) = Len(old) - 1
        /\ \A k \in 1 .. Len(old) - 1 : Tail(old)[k] = old[k + 1]
    BY <1>1
  <1>4. new \in [pc: PassStep, claims: Seq(ClaimRecord)]
    BY <1>3 DEF PassStep
  <1>5. \A k \in DOMAIN new.claims : new.claims[k].row \in RowIds
    BY <1>1, <1>3
  <1>6. new.claims = <<>> <=> new.pc \in {"sweep", "reclaim", "claim"}
    <2>1. Tail(old) = <<>> <=> Len(Tail(old)) = 0
      <3> HIDE DEF old
      <3> QED
        BY <1>3, EmptyIff
    <2>2. Len(Tail(old)) = 0 <=> Len(old) = 1
      BY <1>1, <1>3
    <2>3. Tail(old) = <<>> <=> Len(old) = 1
      BY <2>1, <2>2
    <2> HIDE DEF old
    <2> QED
      BY <2>3
  <1> HIDE DEF new
  <1> QED
    BY <1>2, <1>4, <1>5, <1>6, DispatcherUpdate

(* A worker at work on a delivery names a job. *)
LEMMA JobOfTyped ==
  ASSUME ExecutorTypeOK, NEW w \in Workers, worker[w].pc # "idle"
  PROVE  worker[w].task \in TaskNames /\ JobOf(w) \in Jobs
  BY DEF ExecutorTypeOK, TaskNames, JobOf

(* A delivery is answered or lost. *)
LEMMA WorkerIdle ==
  ASSUME ExecutorTypeOK, NEW w \in Workers, worker' = [worker EXCEPT ![w] = Idle]
  PROVE  ExecutorTypeOK'
  BY DEF ExecutorTypeOK, Idle, DeliveryStep

(* A delivery goes on with the task it has. *)
LEMMA WorkerStep ==
  ASSUME ExecutorTypeOK, NEW w \in Workers, worker[w].pc # "idle",
         NEW step \in DeliveryStep \ {"idle"}, Step(w, step)
  PROVE  ExecutorTypeOK'
  BY DEF ExecutorTypeOK, Step

(* One more fault is within the bound. *)
LEMMA FaultTyped ==
  ASSUME StoreTypeOK, Fault
  PROVE  faults' \in 0 .. MaxFaults
  BY FaultsAssumption DEF StoreTypeOK, Fault

(* A job row written by a transition is a job row. *)
LEMMA TransitionTyped ==
  ASSUME StoreTypeOK, NEW j \in Jobs, NEW from, NEW to \in JobState, NEW lease \in Lease,
         job' = Transition(job, j, from, to, lease)
  PROVE  /\ job' \in [Jobs -> JobRow]
         /\ \A k \in Jobs :
              job'[k] =
                IF k = j /\ job[j].status = from THEN [status |-> to, lease |-> lease] ELSE job[k]
  BY DEF StoreTypeOK, Transition, JobRow

-----------------------------------------------------------------------------
(* The inductive invariant is kept by each process *)

(* Every step of a scheduled pass keeps the invariant. *)
LEMMA PassKeeps ==
  ASSUME IndInv, NEW d \in Dispatchers, ScheduledPassStep(d)
  PROVE  IndInv'
  <1> SUFFICES StoreTypeOK' /\ DispatcherTypeOK' /\ Coherent'
    BY DEF IndInv, TypeOK, Coherent, ScheduledPassStep, ExecutorTypeOK, RedriveTypeOK
  <1> USE DEF IndInv, TypeOK
  <1>0. Coherent
    BY DEF Coherent
  <1>1. ASSUME UNCHANGED <<job, outbox, log, runs>>, faults' \in 0 .. MaxFaults,
               task' \in [TaskNames -> TaskState]
        PROVE  StoreTypeOK' /\ Coherent' /\ RowIds' = RowIds
    BY <1>0, <1>1, CoherentSame DEF StoreTypeOK, RowIds
  <1>2. faults \in 0 .. MaxFaults /\ task \in [TaskNames -> TaskState]
    BY DEF StoreTypeOK
  <1>3. CASE Sweep(d)
    <2> USE <1>3 DEF Sweep
    <2>1. PICK S \in Batches(ExpiredJobs) :
            /\ job' = [j \in Jobs |->
                         IF j \in S THEN [status |-> "timed_out", lease |-> "none"] ELSE job[j]]
            /\ log' = [j \in Jobs |->
                         IF j \in S
                           THEN log[j] \union {[kind |-> "timed_out", run |-> runs[j]]}
                           ELSE log[j]]
      OBVIOUS
    <2>2. \A j \in S : Running(j)
      BY DEF Batches, ExpiredJobs
    <2>3. job' \in [Jobs -> JobRow] /\ log' \in [Jobs -> SUBSET Event]
      BY <2>1 DEF StoreTypeOK, JobRow, JobState, Lease, Event, EventKind
    <2>4. StoreTypeOK'
      BY <2>3 DEF StoreTypeOK
    <2>5. Coherent'
      BY <1>0, <2>1, <2>2, CoherentJobs DEF Running
    <2>6. DispatcherTypeOK'
      BY DispatcherGoTo DEF At, RowSteps, PassStep, RowIds
    <2> QED
      BY <2>4, <2>5, <2>6
  <1>4. CASE Reclaim(d)
    <2> USE <1>4 DEF Reclaim
    <2> DEFINE S == Oldest({i \in RowIds : Stranded(i)})
               moved == [status |-> "failed_provider", lease |-> "none"]
    <2>1. /\ S \in SUBSET RowIds
          /\ \A i \in S : Live(i) /\ job[outbox[i].job].status = "queued"
      BY <1>0 DEF Oldest, Stranded, LeaseOver, Live, Coherent, OutboxCarriesQueue, LiveRowIsQueued
    <2>2. /\ outbox' = [i \in RowIds |->
                          IF i \in S THEN Finished(outbox[i], "failed") ELSE outbox[i]]
          /\ job' = [j \in Jobs |->
                       IF (\E i \in S : outbox[i].job = j) /\ job[j].status = "queued"
                         THEN moved ELSE job[j]]
      OBVIOUS
    <2>3. moved \in JobRow
      BY DEF JobRow, JobState, Lease
    <2>4. /\ job' \in [Jobs -> JobRow]
          /\ \A j \in Jobs : job'[j] = IF \E i \in S : outbox[i].job = j THEN moved ELSE job[j]
      BY <2>1, <2>2, <2>3 DEF StoreTypeOK
    <2>5. \A i \in RowIds : Finished(outbox[i], "failed") \in OutboxRow
      BY RowsTyped DEF Finished, OutboxRow, OutboxStatus, Lease, NoToken
    <2> HIDE DEF S
    <2>7. /\ outbox' \in Seq(OutboxRow)
          /\ RowIds' = RowIds
          /\ \A i \in RowIds :
               outbox'[i] = IF i \in S THEN Finished(outbox[i], "failed") ELSE outbox[i]
      <3> DEFINE t == [i \in RowIds |-> Finished(outbox[i], "failed")]
      <3>1. \A i \in RowIds : t[i] \in OutboxRow /\ t[i] = Finished(outbox[i], "failed")
        BY <2>5
      <3>2. outbox' = [i \in RowIds |-> IF i \in S THEN t[i] ELSE outbox[i]]
        BY <2>2
      <3> HIDE DEF t
      <3> QED
        BY <3>1, <3>2, RewrittenIn
    <2>8. \A i \in RowIds : /\ outbox'[i].job = outbox[i].job
                            /\ Live(i)' <=> Live(i) /\ i \notin S
      BY <2>7, RowsTyped DEF Live, Finished, OutboxRow
    <2>9. Coherent'
      <3>1. Settling(S, moved)
        BY <2>1, <2>4, <2>7, <2>8 DEF Settling
      <3> QED
        BY <1>0, <3>1, CoherentSettled
    <2>10. StoreTypeOK'
      BY <2>4, <2>7 DEF StoreTypeOK
    <2>11. DispatcherTypeOK'
      BY <2>7, DispatcherGoTo DEF At, RowSteps, PassStep
    <2> QED
      BY <2>9, <2>10, <2>11
  <1>5. CASE ClaimBatch(d)
    <2> DEFINE S == Oldest({i \in RowIds : Claimable(i)})
    <2>1. PICK q \in InOrder(S) :
            /\ outbox' = [i \in RowIds |-> IF i \in S THEN Leased(outbox[i]) ELSE outbox[i]]
            /\ disp' = [disp EXCEPT ![d] =
                          [pc |-> IF S = {} THEN "sweep" ELSE "enqueue",
                           claims |-> [k \in DOMAIN q |-> ClaimOf(q[k])]]]
      BY <1>5 DEF ClaimBatch
    <2>2. S \in SUBSET RowIds /\ \A i \in S : Live(i)
      BY DEF Oldest, Claimable, LeaseOver, Live
    <2>3. ASSUME NEW i \in RowIds PROVE Leased(outbox[i]) \in OutboxRow
      <3>1. outbox[i] \in OutboxRow /\ outbox[i].attempts + 1 \in Nat
        BY RowsTyped DEF OutboxRow
      <3> QED
        BY <3>1 DEF Leased, OutboxRow, OutboxStatus, Lease
    <2>4. S \in SUBSET RowIds
      BY <2>2
    <2>5. /\ outbox' \in Seq(OutboxRow)
          /\ RowIds' = RowIds
          /\ \A i \in RowIds : outbox'[i] = IF i \in S THEN Leased(outbox[i]) ELSE outbox[i]
      <3> DEFINE t == [i \in RowIds |-> Leased(outbox[i])]
      <3> HIDE DEF S
      <3>1. \A i \in RowIds : t[i] \in OutboxRow /\ t[i] = Leased(outbox[i])
        BY <2>3
      <3>2. outbox' = [i \in RowIds |-> IF i \in S THEN t[i] ELSE outbox[i]]
        BY <2>1
      <3> HIDE DEF t
      <3> QED
        BY <3>1, <3>2, RewrittenIn
    <2>6. \A i \in RowIds : outbox'[i].job = outbox[i].job /\ (Live(i)' <=> Live(i))
      <3> HIDE DEF S
      <3> QED
        BY <2>2, <2>5, RowsTyped DEF Live, Leased, OutboxRow
    <2>7. UNCHANGED <<job, log, task, runs, faults>>
      BY <1>5 DEF ClaimBatch
    <2>8. Coherent' /\ StoreTypeOK'
      BY <1>0, <2>5, <2>6, <2>7, CoherentRows DEF StoreTypeOK
    <2>9. DispatcherTypeOK'
      <3> DEFINE n == Cardinality(S)
                 new == [pc |-> IF S = {} THEN "sweep" ELSE "enqueue",
                         claims |-> [k \in DOMAIN q |-> ClaimOf(q[k])]]
      <3>1. IsFiniteSet(RowIds)
        BY RowsTyped, FS_Interval
      <3>2. n \in Nat /\ (n = 0 <=> S = {})
        BY <2>4, <3>1, FS_Subset, FS_CardinalityType, FS_EmptySet
      <3>3. q \in [1 .. n -> S]
        BY DEF InOrder
      <3>4. \A i \in S : ClaimOf(i) \in ClaimRecord /\ ClaimOf(i).row = i
        BY <2>4, RowsTyped DEF ClaimOf, ClaimRecord, OutboxRow
      <3> HIDE DEF S, n
      <3>5. new.claims \in [1 .. n -> ClaimRecord]
        BY <3>3, <3>4
      <3>6. new.claims \in Seq(ClaimRecord) /\ Len(new.claims) = n
        BY <3>2, <3>5
      <3>7. \A k \in DOMAIN new.claims : new.claims[k].row \in RowIds
        BY <2>4, <3>3, <3>4
      <3>8. new.pc = (IF S = {} THEN "sweep" ELSE "enqueue")
        OBVIOUS
      <3>9. new.claims = <<>> <=> S = {}
        <4> HIDE DEF new
        <4> QED
          BY <3>2, <3>6, EmptyIff
      <3>10. new \in [pc: PassStep, claims: Seq(ClaimRecord)]
        BY <3>6 DEF PassStep
      <3>11. disp' = [disp EXCEPT ![d] = new]
        BY <2>1
      <3> HIDE DEF new
      <3> QED
        BY <2>5, <3>7, <3>8, <3>9, <3>10, <3>11, DispatcherUpdate
    <2> QED
      BY <2>8, <2>9
  <1>6. CASE Enqueue(d) \/ EnqueueFails(d)
    <2>1. Created(d) => task' \in [TaskNames -> TaskState]
      BY <1>2 DEF Created, TaskState
    <2>2. /\ UNCHANGED <<job, outbox, log, runs>>
          /\ task' \in [TaskNames -> TaskState]
          /\ faults' \in 0 .. MaxFaults
      BY <1>2, <1>6, <2>1, FaultTyped DEF Enqueue, EnqueueFails
    <2>3. StoreTypeOK' /\ Coherent' /\ RowIds' = RowIds
      BY <1>1, <2>2
    <2>4. DispatcherTypeOK'
      BY <1>6, <2>3, DispatcherGoTo DEF Enqueue, EnqueueFails, At, RowSteps, PassStep
    <2> QED
      BY <2>3, <2>4
  <1>7. CASE RecordDispatched(d) \/ RecordDispatchedFails(d) \/ RecordFailure(d)
    <2> DEFINE c == Current(d)
               j == CurrentRow(d).job
               Settles(status, to) ==
                 /\ HeldBy(c)
                 /\ outbox' = [outbox EXCEPT ![c.row] = Finished(@, status)]
                 /\ job' = Transition(job, j, "queued", to, "none")
               Retries ==
                 /\ HeldBy(c)
                 /\ outbox' = [outbox EXCEPT ![c.row].lease = "live"]
                 /\ job' = job
    <2>1. /\ disp[d].pc \in RowSteps
          /\ c.row \in RowIds
      BY <1>7, CurrentTyped DEF RecordDispatched, RecordDispatchedFails, RecordFailure, At, RowSteps
    <2>2. \/ Settles("dispatched", "dispatched")
          \/ Settles("failed", "failed_provider")
          \/ Retries
          \/ UNCHANGED <<job, outbox>>
      BY <1>7 DEF RecordDispatched, RecordDispatchedFails, RecordFailure, MarkDispatched, MarkFailed
    <2>3. UNCHANGED <<log, task, runs>> /\ faults' \in 0 .. MaxFaults
      BY <1>2, <1>7, FaultTyped DEF RecordDispatched, RecordDispatchedFails, RecordFailure
    <2>4. /\ outbox[c.row] \in OutboxRow
          /\ j = outbox[c.row].job
          /\ j \in Jobs
      BY <2>1, RowsTyped DEF CurrentRow, OutboxRow
    <2> HIDE DEF c, j
    <2>5. ASSUME NEW status \in {"dispatched", "failed"},
                 NEW to \in {"dispatched", "failed_provider"},
                 Settles(status, to)
          PROVE  /\ outbox' \in Seq(OutboxRow)
                 /\ RowIds' = RowIds
                 /\ job' \in [Jobs -> JobRow]
                 /\ Coherent'
      <3> DEFINE moved == [status |-> to, lease |-> "none"]
      <3>1. to \in JobState /\ moved \in JobRow /\ moved.status = to /\ moved.lease = "none"
        BY DEF JobState, JobRow, Lease
      <3>2. Live(c.row) /\ job[j].status = "queued"
        BY <1>0, <2>1, <2>4, <2>5 DEF HeldBy, Live, Coherent, OutboxCarriesQueue, LiveRowIsQueued
      <3>3. /\ job' \in [Jobs -> JobRow]
            /\ \A k \in Jobs : job'[k] = IF k = j THEN moved ELSE job[k]
        <4>1. "none" \in Lease
          BY DEF Lease
        <4>2. job' = Transition(job, j, "queued", to, "none")
          BY <2>5
        <4> QED
          BY <2>4, <3>1, <3>2, <4>1, <4>2, TransitionTyped
      <3>4. Finished(outbox[c.row], status) \in OutboxRow
        BY <2>4 DEF Finished, OutboxRow, OutboxStatus, Lease, NoToken
      <3>5. outbox' = [outbox EXCEPT ![c.row] = Finished(outbox[c.row], status)]
        BY <2>5
      <3>6. /\ outbox' \in Seq(OutboxRow)
            /\ RowIds' = RowIds
            /\ \A i \in RowIds :
                 outbox'[i] = IF i = c.row THEN Finished(outbox[c.row], status) ELSE outbox[i]
        BY <2>1, <3>4, <3>5, RewrittenAt
      <3>7. \A i \in RowIds : /\ outbox'[i].job = outbox[i].job
                              /\ Live(i)' <=> Live(i) /\ i \notin {c.row}
        <4> DEFINE f == Finished(outbox[c.row], status)
        <4>1. outbox[c.row] \in OutboxRow
          BY <2>1, <2>4, RowsTyped
        <4>2. f.job = outbox[c.row].job /\ f.status \notin {"pending", "leased"}
          BY <4>1 DEF Finished, OutboxRow
        <4> HIDE DEF f
        <4> QED
          BY <3>6, <4>2 DEF Live, f
      <3>8. \A k \in Jobs :
              job'[k] = IF \E i \in {c.row} : outbox[i].job = k THEN moved ELSE job[k]
        BY <2>4, <3>3
      <3>9. Coherent'
        <4> HIDE DEF moved
        <4>1. Settling({c.row}, moved)
          BY <2>1, <3>1, <3>2, <3>6, <3>7, <3>8 DEF Settling
        <4> QED
          BY <1>0, <4>1, CoherentSettled
      <3> QED
        BY <3>3, <3>6, <3>9
    <2>6. ASSUME Retries
          PROVE  outbox' \in Seq(OutboxRow) /\ RowIds' = RowIds /\ Coherent'
      <3> DEFINE r == [outbox[c.row] EXCEPT !.lease = "live"]
      <3>1. r \in OutboxRow /\ r.job = outbox[c.row].job /\ r.status = outbox[c.row].status
        BY <2>4 DEF OutboxRow, Lease
      <3>2. outbox' = [outbox EXCEPT ![c.row] = r]
        BY <2>6
      <3> HIDE DEF r
      <3>3. /\ outbox' \in Seq(OutboxRow)
            /\ RowIds' = RowIds
            /\ \A i \in RowIds : outbox'[i] = IF i = c.row THEN r ELSE outbox[i]
        BY <2>1, <3>1, <3>2, RewrittenAt
      <3>4. \A i \in RowIds : /\ outbox'[i].job = outbox[i].job
                              /\ outbox'[i].status = outbox[i].status
        BY <3>1, <3>3
      <3> QED
        BY <1>0, <2>6, <3>3, <3>4, CoherentRows DEF Live
    <2>7. /\ outbox' \in Seq(OutboxRow)
          /\ RowIds' = RowIds
          /\ job' \in [Jobs -> JobRow]
          /\ Coherent'
      <3>1. CASE UNCHANGED <<job, outbox>>
        BY <1>0, <3>1, CoherentSame DEF StoreTypeOK, RowIds
      <3>2. CASE Retries
        BY <2>6, <3>2 DEF StoreTypeOK
      <3> HIDE DEF Settles, Retries
      <3> QED
        BY <2>2, <2>5, <3>1, <3>2
    <2>8. StoreTypeOK'
      BY <2>3, <2>7 DEF StoreTypeOK
    <2>9. DispatcherTypeOK'
      <3>1. CASE RecordDispatchedFails(d)
        BY <2>7, <3>1, DispatcherGoTo DEF RecordDispatchedFails, At, RowSteps, PassStep
      <3>2. CASE RecordDispatched(d) \/ RecordFailure(d)
        BY <2>1, <2>7, <3>2, DispatcherNextRow DEF RecordDispatched, RecordFailure
      <3> QED
        BY <1>7, <3>1, <3>2
    <2> QED
      BY <2>7, <2>8, <2>9
  <1>8. CASE SweepFails(d) \/ ReclaimFails(d)
    <2>1. StoreTypeOK' /\ Coherent' /\ RowIds' = RowIds
      BY <1>1, <1>2, <1>8, FaultTyped DEF SweepFails, ReclaimFails
    <2>2. DispatcherTypeOK'
      BY <1>8, <2>1, DispatcherGoTo DEF SweepFails, ReclaimFails, At, RowSteps, PassStep
    <2> QED
      BY <2>1, <2>2
  <1>9. CASE ClaimFails(d) \/ DispatcherCrash(d)
    <2>1. StoreTypeOK' /\ Coherent' /\ RowIds' = RowIds
      BY <1>1, <1>2, <1>9, FaultTyped DEF ClaimFails, DispatcherCrash
    <2>2. DispatcherTypeOK'
      BY <1>9, <2>1, DispatcherEndPass DEF ClaimFails, DispatcherCrash
    <2> QED
      BY <2>1, <2>2
  <1>10. CASE RecordFailureFails(d)
    <2>1. StoreTypeOK' /\ Coherent' /\ RowIds' = RowIds
      BY <1>1, <1>2, <1>10, FaultTyped DEF RecordFailureFails
    <2>2. DispatcherTypeOK'
      BY <1>10, <2>1, DispatcherNextRow DEF RecordFailureFails, At, RowSteps
    <2> QED
      BY <2>1, <2>2
  <1> QED
    BY <1>3, <1>4, <1>5, <1>6, <1>7, <1>8, <1>9, <1>10
    DEF ScheduledPassStep, PassProgress, PassFault

(* Every step of a delivery keeps the invariant. *)
LEMMA DeliveryKeeps ==
  ASSUME IndInv, NEW w \in Workers, DeliveryOf(w)
  PROVE  IndInv'
  <1> SUFFICES StoreTypeOK' /\ ExecutorTypeOK' /\ Coherent'
    <2>1. UNCHANGED <<outbox, disp, records>>
      BY DEF DeliveryOf, DeliveryProgress, Deliver, ClaimJob, EarlyDelivery, DuplicateDelivery,
             Start, Progress, Finish, Acknowledge, DeliveryFails, storeVars
    <2> QED
      BY <2>1 DEF IndInv, TypeOK, Coherent, DispatcherTypeOK, RedriveTypeOK, RowIds
  <1> USE DEF IndInv, TypeOK
  <1>0. Coherent
    BY DEF Coherent
  <1>1. CASE \E n \in TaskNames : Deliver(w, n)
    <2>1. StoreTypeOK' /\ Coherent'
      BY <1>0, <1>1, CoherentSame DEF Deliver, storeVars, StoreTypeOK
    <2>2. ExecutorTypeOK'
      <3>1. PICK n \in TaskNames : Deliver(w, n)
        BY <1>1
      <3> QED
        BY <3>1 DEF Deliver, ExecutorTypeOK, DeliveryStep
    <2> QED
      BY <2>1, <2>2
  <1>2. CASE EarlyDelivery(w) \/ DuplicateDelivery(w)
    <2>1. StoreTypeOK' /\ Coherent'
      BY <1>0, <1>2, CoherentSame DEF EarlyDelivery, DuplicateDelivery, storeVars, StoreTypeOK
    <2>2. ExecutorTypeOK'
      BY <1>2, WorkerIdle, WorkerStep DEF EarlyDelivery, DuplicateDelivery, On, DeliveryStep
    <2> QED
      BY <2>1, <2>2
  <1>3. CASE ClaimJob(w)
    <2> DEFINE j == JobOf(w)
    <2>1. worker[w].pc # "idle" /\ j \in Jobs
      BY <1>3, JobOfTyped DEF ClaimJob, On
    <2>2. UNCHANGED <<outbox, log, task, faults>>
      BY <1>3 DEF ClaimJob
    <2>3. CASE job[j].status = "dispatched"
      <3>1. /\ job' = Transition(job, j, "dispatched", "running", "live")
            /\ runs' = [runs EXCEPT ![j] = @ + 1]
            /\ worker' = [worker EXCEPT ![w] =
                            [pc |-> "claimed", task |-> worker[w].task, run |-> runs[j] + 1]]
        BY <1>3, <2>3 DEF ClaimJob, ExecutorTypeOK
      <3>2. "running" \in JobState /\ "live" \in Lease
        BY DEF JobState, Lease
      <3>3. /\ job' \in [Jobs -> JobRow]
            /\ \A k \in Jobs :
                 job'[k] = IF k = j THEN [status |-> "running", lease |-> "live"] ELSE job[k]
        BY <2>1, <2>3, <3>1, <3>2, TransitionTyped
      <3>4. StoreTypeOK'
        BY <2>1, <2>2, <3>1, <3>3 DEF StoreTypeOK
      <3>5. Coherent'
        BY <1>0, <2>2, <2>3, <3>3, CoherentJobs
      <3>6. ExecutorTypeOK'
        <4> DEFINE r == [pc |-> "claimed", task |-> worker[w].task, run |-> runs[j] + 1]
        <4>1. /\ r \in [pc: DeliveryStep, task: TaskNames \union {NoTask}, run: Nat]
              /\ r.task \in TaskNames
          BY <2>1, JobOfTyped DEF StoreTypeOK, DeliveryStep
        <4>2. worker' = [worker EXCEPT ![w] = r]
          BY <3>1
        <4> HIDE DEF r
        <4> QED
          BY <4>1, <4>2 DEF ExecutorTypeOK
      <3> QED
        BY <3>4, <3>5, <3>6
    <2>4. CASE job[j].status # "dispatched"
      <3>1. Step(w, "refused") /\ UNCHANGED <<job, runs>>
        BY <1>3, <2>4 DEF ClaimJob
      <3> QED
        BY <1>0, <2>1, <2>2, <3>1, CoherentSame, WorkerStep DEF StoreTypeOK, DeliveryStep
    <2> QED
      BY <2>3, <2>4
  <1>4. CASE Start(w) \/ Progress(w)
    <2> DEFINE j == JobOf(w)
    <2>1. worker[w].pc # "idle" /\ j \in Jobs
      BY <1>4, JobOfTyped DEF Start, Progress, On
    <2>2. UNCHANGED <<outbox, task, runs, faults>> /\ RenewLease(j)
      BY <1>4 DEF Start, Progress
    <2>3. log' \in [Jobs -> SUBSET Event]
      <3>1. CASE Progress(w)
        BY <3>1 DEF Progress, StoreTypeOK
      <3>2. CASE Start(w)
        <4>1. log' = Appended(j, "started", worker[w].run)
          BY <3>2 DEF Start
        <4>2. worker[w].run \in Nat
          BY DEF ExecutorTypeOK
        <4>3. [kind |-> "started", run |-> worker[w].run] \in Event
          BY <4>2 DEF Event, EventKind
        <4> QED
          BY <2>1, <4>1, <4>3 DEF Appended, StoreTypeOK
      <3> QED
        BY <1>4, <3>1, <3>2
    <2>4. /\ job' \in [Jobs -> JobRow]
          /\ \A k \in Jobs :
               job'[k] = IF k = j /\ Running(j) THEN [status |-> "running", lease |-> "live"]
                         ELSE job[k]
      BY <2>1, <2>2 DEF RenewLease, Running, StoreTypeOK, JobRow, Lease, JobState
    <2>5. StoreTypeOK'
      BY <2>2, <2>3, <2>4 DEF StoreTypeOK
    <2>6. Coherent'
      BY <1>0, <2>2, <2>4, CoherentJobs DEF Running
    <2>7. ExecutorTypeOK'
      <3>1. CASE Start(w)
        BY <2>1, <3>1, WorkerStep DEF Start, DeliveryStep
      <3>2. CASE Progress(w)
        BY <3>2 DEF Progress, ExecutorTypeOK
      <3> QED
        BY <1>4, <3>1, <3>2
    <2> QED
      BY <2>5, <2>6, <2>7
  <1>5. CASE \E state \in ResultState \union FailureState : Finish(w, state)
    <2>1. PICK state \in ResultState \union FailureState : Finish(w, state)
      BY <1>5
    <2> DEFINE j == JobOf(w)
    <2>2. worker[w].pc # "idle" /\ j \in Jobs
      BY <2>1, JobOfTyped DEF Finish, On
    <2>3. /\ job' = Transition(job, j, "running", state, "none")
          /\ UNCHANGED <<outbox, task, runs, faults>>
          /\ Step(w, "ack")
      BY <2>1 DEF Finish
    <2>4. log' \in [Jobs -> SUBSET Event]
      <3>1. \E kind \in EventKind : log' = Appended(j, kind, worker[w].run)
        BY <2>1 DEF Finish, EventKind
      <3> QED
        BY <2>2, <3>1 DEF Appended, StoreTypeOK, ExecutorTypeOK, Event
    <2>5. state \in JobState \ {"queued", "running"} /\ "none" \in Lease
      BY DEF ResultState, FailureState, JobState, Lease
    <2>6. /\ job' \in [Jobs -> JobRow]
          /\ \A k \in Jobs :
               job'[k] = IF k = j /\ job[j].status = "running"
                           THEN [status |-> state, lease |-> "none"] ELSE job[k]
      BY <2>2, <2>3, <2>5, TransitionTyped
    <2>7. StoreTypeOK'
      BY <2>3, <2>4, <2>6 DEF StoreTypeOK
    <2>8. Coherent'
      BY <1>0, <2>3, <2>5, <2>6, CoherentJobs
    <2>9. ExecutorTypeOK'
      BY <2>2, <2>3, WorkerStep DEF DeliveryStep
    <2> QED
      BY <2>7, <2>8, <2>9
  <1>6. CASE Acknowledge(w)
    <2>1. UNCHANGED <<job, outbox, log, runs, faults>>
          /\ task' \in [TaskNames -> TaskState]
      BY <1>6 DEF Acknowledge, StoreTypeOK, TaskState
    <2>2. StoreTypeOK' /\ Coherent'
      BY <1>0, <2>1, CoherentSame DEF StoreTypeOK
    <2>3. ExecutorTypeOK'
      BY <1>6, WorkerIdle DEF Acknowledge
    <2> QED
      BY <2>2, <2>3
  <1>7. CASE DeliveryFails(w)
    <2>1. StoreTypeOK' /\ Coherent'
      BY <1>0, <1>7, CoherentSame, FaultTyped DEF DeliveryFails, StoreTypeOK
    <2>2. ExecutorTypeOK'
      BY <1>7, WorkerIdle DEF DeliveryFails
    <2> QED
      BY <2>1, <2>2
  <1> QED
    BY <1>1, <1>2, <1>3, <1>4, <1>5, <1>6, <1>7 DEF DeliveryOf, DeliveryProgress

(* What clients and operators ask for keeps the invariant. *)
LEMMA DecisionKeeps ==
  ASSUME IndInv, NEW j \in Jobs, Decision(j)
  PROVE  IndInv'
  <1> USE DEF IndInv, TypeOK
  <1>0. Coherent
    BY DEF Coherent
  <1>1. UNCHANGED <<log, task, runs, faults, disp, worker>>
    BY DEF Decision, Submit, RedriveJob, AbandonJob
  <1>2. ExecutorTypeOK'
    BY <1>1 DEF ExecutorTypeOK
  <1>3. SUFFICES StoreTypeOK' /\ RowIds \subseteq RowIds' /\ Coherent' /\ RedriveTypeOK'
    BY <1>1, <1>2, DispatcherSame DEF Coherent
  <1>4. ASSUME NEW to \in JobState, NEW lease \in Lease,
               job' = [job EXCEPT ![j] = [status |-> to, lease |-> lease]]
        PROVE  job' \in [Jobs -> JobRow]
    BY <1>4 DEF StoreTypeOK, JobRow
  <1>5. ASSUME NEW decision \in Entry, NEW redriven \in BOOLEAN, Parkable(j),
               Decided(j, decision, redriven)
        PROVE  RedriveTypeOK'
    <2>1. RowsOf(j) # {} /\ job[j].status \in JobState
      BY <1>0, <1>5 DEF Coherent, SubmittedHasRow, Parkable, StoreTypeOK, JobRow
    <2>2. NextGeneration(j) - 1 \in Nat
      BY <2>1, RowCount
    <2>3. Carried(j) \subseteq Entry
      <3>1. records[j] \in Seq(RedriveRecord)
        BY DEF RedriveTypeOK
      <3>2. records[j] # <<>> => records[j][Len(records[j])] \in RedriveRecord
        BY <3>1, EmptyIff
      <3> QED
        BY <3>2 DEF Carried, RedriveRecord
    <2>4. AttemptEntries(j) \subseteq Entry
      BY RowsTyped DEF AttemptEntries, RowsOf, Entry, OutboxRow
    <2> DEFINE new == [history |-> Carried(j) \union AttemptEntries(j) \union
                         {[event |-> "parked", gen |-> NextGeneration(j) - 1,
                           detail |-> job[j].status], decision},
                       redriven |-> redriven]
    <2>5. new \in RedriveRecord
      BY <2>1, <2>2, <2>3, <2>4 DEF RedriveRecord, Entry
    <2>6. records' = [records EXCEPT ![j] = Append(@, new)]
      BY <1>5 DEF Decided
    <2> HIDE DEF new
    <2> QED
      BY <2>5, <2>6 DEF RedriveTypeOK
  <1>6. CASE Submit(j)
    <2>1. /\ job' = [job EXCEPT ![j] = [status |-> "queued", lease |-> "none"]]
          /\ EnqueueRow(j, 0)
          /\ job[j].status # "queued"
          /\ UNCHANGED records
      BY <1>6 DEF Submit
    <2>2. job' \in [Jobs -> JobRow]
      BY <1>4, <2>1 DEF JobState, Lease
    <2>3. Coherent' /\ outbox' \in Seq(OutboxRow) /\ RowIds \subseteq RowIds'
      BY <1>0, <2>1, CoherentRequested
    <2> QED
      BY <1>1, <2>1, <2>2, <2>3 DEF StoreTypeOK, RedriveTypeOK
  <1>7. CASE RedriveJob(j)
    <2> DEFINE g == NextGeneration(j)
               decision == [event |-> "redriven", gen |-> g, detail |-> "queued"]
    <2>1. /\ Parkable(j)
          /\ g \in Nat
          /\ job' = [job EXCEPT ![j] = [status |-> "queued", lease |-> "none"]]
          /\ EnqueueRow(j, g)
          /\ Decided(j, decision, TRUE)
      BY <1>7, RowCount DEF RedriveJob
    <2> HIDE DEF g
    <2>2. job[j].status # "queued"
      BY <2>1 DEF Parkable, CanTransition, TRANSITIONS, JobState
    <2>3. job' \in [Jobs -> JobRow]
      BY <1>4, <2>1 DEF JobState, Lease
    <2>4. Coherent' /\ outbox' \in Seq(OutboxRow) /\ RowIds \subseteq RowIds'
      BY <1>0, <2>1, <2>2, CoherentRequested
    <2>5. decision \in Entry
      BY <2>1 DEF Entry, JobState
    <2>6. RedriveTypeOK'
      BY <1>5, <2>1, <2>5
    <2> QED
      BY <1>1, <2>3, <2>4, <2>6 DEF StoreTypeOK
  <1>8. CASE AbandonJob(j)
    <2> DEFINE decision == [event |-> "abandoned", gen |-> NextGeneration(j) - 1,
                            detail |-> "abandoned"]
    <2>1. /\ Parkable(j)
          /\ job' = [job EXCEPT ![j] = [status |-> "abandoned", lease |-> "none"]]
          /\ UNCHANGED outbox
          /\ Decided(j, decision, FALSE)
      BY <1>8 DEF AbandonJob
    <2>2. /\ job[j].status \notin {"absent", "queued"}
          /\ RowsOf(j) # {}
      BY <1>0, <2>1
      DEF Parkable, CanTransition, TRANSITIONS, JobState, Coherent, SubmittedHasRow
    <2>3. job' \in [Jobs -> JobRow]
      BY <1>4, <2>1 DEF JobState, Lease
    <2>4. Coherent'
      BY <1>0, <2>1, <2>2, <2>3, CoherentJobs DEF StoreTypeOK
    <2>5. decision \in Entry
      BY <2>2, RowCount DEF Entry, JobState
    <2>6. RedriveTypeOK'
      BY <1>5, <2>1, <2>5
    <2> QED
      BY <1>1, <2>1, <2>3, <2>4, <2>6 DEF StoreTypeOK, RowIds
  <1> QED
    BY <1>6, <1>7, <1>8 DEF Decision

(* So does the passage of time. *)
LEMMA TickKeeps ==
  ASSUME IndInv, Tick
  PROVE  IndInv'
  <1> USE DEF IndInv, TypeOK
  <1>0. Coherent
    BY DEF Coherent
  <1>1. UNCHANGED <<log, task, runs, faults, disp, worker, records>>
    BY DEF Tick, LeaseExpires, JobLeaseExpires
  <1>2. ExecutorTypeOK' /\ RedriveTypeOK'
    BY <1>1 DEF ExecutorTypeOK, RedriveTypeOK
  <1>3. SUFFICES StoreTypeOK' /\ RowIds' = RowIds /\ Coherent'
    BY <1>1, <1>2, DispatcherSame DEF Coherent
  <1>4. CASE \E i \in RowIds : LeaseExpires(i)
    <2>1. PICK i \in RowIds : LeaseExpires(i)
      BY <1>4
    <2> DEFINE r == [outbox[i] EXCEPT !.lease = "expired"]
    <2>2. r \in OutboxRow /\ r.job = outbox[i].job /\ r.status = outbox[i].status
      BY RowsTyped DEF OutboxRow, Lease
    <2>3. outbox' = [outbox EXCEPT ![i] = r] /\ UNCHANGED job
      BY <2>1 DEF LeaseExpires
    <2> HIDE DEF r
    <2>4. /\ outbox' \in Seq(OutboxRow)
          /\ RowIds' = RowIds
          /\ \A k \in RowIds : outbox'[k] = IF k = i THEN r ELSE outbox[k]
      BY <2>2, <2>3, RewrittenAt
    <2>5. \A k \in RowIds : outbox'[k].job = outbox[k].job /\ outbox'[k].status = outbox[k].status
      BY <2>2, <2>4
    <2>6. Coherent'
      BY <1>0, <2>3, <2>4, <2>5, CoherentRows DEF Live
    <2> QED
      BY <1>1, <2>3, <2>4, <2>6 DEF StoreTypeOK
  <1>5. CASE \E j \in Jobs : JobLeaseExpires(j)
    <2>1. PICK j \in Jobs : JobLeaseExpires(j)
      BY <1>5
    <2>2. job[j].lease = "live" /\ job[j].status = "running"
      BY <1>0, <2>1 DEF JobLeaseExpires, Coherent, RunningHasLease, Running
    <2>3. UNCHANGED outbox /\ job' = [job EXCEPT ![j].lease = "expired"]
      BY <2>1 DEF JobLeaseExpires
    <2>4. /\ job' \in [Jobs -> JobRow]
          /\ \A k \in Jobs :
               job'[k] = IF k = j THEN [status |-> "running", lease |-> "expired"] ELSE job[k]
      BY <2>2, <2>3 DEF StoreTypeOK, JobRow, Lease
    <2>5. Coherent'
      BY <1>0, <2>2, <2>3, <2>4, CoherentJobs
    <2> QED
      BY <1>1, <2>3, <2>4, <2>5 DEF StoreTypeOK, RowIds
  <1> QED
    BY <1>4, <1>5 DEF Tick

(* No step of any process, fault or passage of time breaks the invariant. *)
THEOREM NextIndInv == IndInv /\ [Next]_vars => IndInv'
  <1> SUFFICES ASSUME IndInv, [Next]_vars PROVE IndInv'
    OBVIOUS
  <1>1. CASE Next
    BY <1>1, PassKeeps, DeliveryKeeps, DecisionKeeps, TickKeeps DEF Next
  <1>2. CASE UNCHANGED vars
    BY <1>2
    DEF vars, IndInv, TypeOK, StoreTypeOK, DispatcherTypeOK, ExecutorTypeOK, RedriveTypeOK,
        SubmittedHasRow, OutboxCarriesQueue, QueuedHasLiveRow, LiveRowIsQueued, OneLiveRow,
        RunningHasLease, Running, RowIds, RowsOf, Live
  <1> QED
    BY <1>1, <1>2

-----------------------------------------------------------------------------
(* The theorems *)

(* Types, row coherence and leases hold together in every reachable state. *)
THEOREM IndInvHolds == Spec => []IndInv
  <1> QED
    BY InitIndInv, NextIndInv, PTL DEF Spec

(* The command path is type correct. *)
THEOREM TypeCorrect == Spec => []TypeOK
  <1>1. IndInv => TypeOK
    BY DEF IndInv
  <1> QED
    BY <1>1, IndInvHolds, PTL

(* A queued job and exactly one live outbox row of its own go together,    *)
(* whatever passes, crashes, late writes and re-drives interleave.         *)
THEOREM OutboxCoherent == Spec => []OutboxCarriesQueue
  <1>1. IndInv => OutboxCarriesQueue
    BY DEF IndInv
  <1> QED
    BY <1>1, IndInvHolds, PTL

(* A job runs under a lease, and only a running job has one: the sweep     *)
(* finds every job whose worker fell silent, and no other.                 *)
THEOREM LeaseCoherent == Spec => []RunningHasLease
  <1>1. IndInv => RunningHasLease
    BY DEF IndInv
  <1> QED
    BY <1>1, IndInvHolds, PTL


-----------------------------------------------------------------------------
(* What a step may do to an outbox row *)

HeldRow(d, i) == i = Current(d).row /\ HeldBy(Current(d))

(* A row is let again, claimed, written off, given up, or dispatched. *)
RowStep(i) ==
  \/ outbox'[i] = outbox[i]
  \/ \E l \in Lease : outbox'[i] = [outbox[i] EXCEPT !.lease = l]
  \/ Claimable(i) /\ outbox'[i] = Leased(outbox[i])
  \/ Stranded(i) /\ outbox'[i] = Finished(outbox[i], "failed")
  \/ \E d \in Dispatchers :
       /\ At(d, "fail") /\ HeldRow(d, i)
       /\ Current(d).attempts >= MaxDispatchAttempts
       /\ outbox'[i] = Finished(outbox[i], "failed")
  \/ \E d \in Dispatchers :
       /\ At(d, "record") /\ HeldRow(d, i)
       /\ outbox'[i] = Finished(outbox[i], "dispatched")

InPlace == RowIds' = RowIds /\ \A i \in RowIds : RowStep(i)

(* A submission or a re-drive adds a row. *)
Requested(j, g) ==
  /\ EnqueueRow(j, g)
  /\ (Submit(j) /\ g = 0) \/ (RedriveJob(j) /\ g = NextGeneration(j))

(* One row of a typed outbox is rewritten. *)
LEMMA OneRow ==
  ASSUME StoreTypeOK, NEW i \in RowIds, NEW r, outbox' = [outbox EXCEPT ![i] = r]
  PROVE  RowIds' = RowIds /\ outbox'[i] = r /\ \A k \in RowIds \ {i} : outbox'[k] = outbox[k]
  BY DEF StoreTypeOK, RowIds

(* What a pass does to the rows. *)
LEMMA PassRows ==
  ASSUME IndInv, NEW d \in Dispatchers, PassProgress(d) \/ PassFault(d)
  PROVE  InPlace
  <1>1. StoreTypeOK /\ DispatcherTypeOK
    BY DEF IndInv, TypeOK
  <1>2. CASE UNCHANGED outbox
    BY <1>2 DEF InPlace, RowStep, RowIds
  <1>3. CASE Reclaim(d)
    <2> DEFINE S == Oldest({i \in RowIds : Stranded(i)})
    <2>1. \A i \in S : Stranded(i)
      BY DEF Oldest
    <2>2. outbox' = [i \in RowIds |-> IF i \in S THEN Finished(outbox[i], "failed") ELSE outbox[i]]
      BY <1>3 DEF Reclaim
    <2> HIDE DEF S
    <2> QED
      BY <2>1, <2>2 DEF InPlace, RowStep, RowIds
  <1>4. CASE ClaimBatch(d)
    <2> DEFINE S == Oldest({i \in RowIds : Claimable(i)})
    <2>1. \A i \in S : Claimable(i)
      BY DEF Oldest
    <2>2. outbox' = [i \in RowIds |-> IF i \in S THEN Leased(outbox[i]) ELSE outbox[i]]
      BY <1>4 DEF ClaimBatch
    <2> HIDE DEF S
    <2> QED
      BY <2>1, <2>2 DEF InPlace, RowStep, RowIds
  <1>5. CASE (At(d, "record") /\ MarkDispatched(d)) \/ (At(d, "fail") /\ MarkFailed(d))
    <2> DEFINE c == Current(d)
    <2>1. c.row \in RowIds
      BY <1>1, <1>5, CurrentTyped DEF At, RowSteps
    <2>2. CASE UNCHANGED outbox
      BY <1>2, <2>2
    <2>3. CASE /\ At(d, "record") /\ HeldBy(c)
               /\ outbox' = [outbox EXCEPT ![c.row] = Finished(@, "dispatched")]
      <3>1. /\ outbox' = [outbox EXCEPT ![c.row] = Finished(outbox[c.row], "dispatched")]
            /\ HeldRow(d, c.row)
        BY <2>3 DEF HeldRow
      <3>2. /\ RowIds' = RowIds
            /\ outbox'[c.row] = Finished(outbox[c.row], "dispatched")
            /\ \A k \in RowIds \ {c.row} : outbox'[k] = outbox[k]
        BY <1>1, <2>1, <3>1, OneRow
      <3>3. RowStep(c.row)
        BY <2>3, <3>1, <3>2 DEF RowStep
      <3>4. \A k \in RowIds \ {c.row} : RowStep(k)
        BY <3>2 DEF RowStep
      <3> QED
        BY <3>2, <3>3, <3>4 DEF InPlace
    <2>4. CASE /\ At(d, "fail") /\ HeldBy(c) /\ c.attempts >= MaxDispatchAttempts
               /\ outbox' = [outbox EXCEPT ![c.row] = Finished(@, "failed")]
      <3>1. /\ outbox' = [outbox EXCEPT ![c.row] = Finished(outbox[c.row], "failed")]
            /\ HeldRow(d, c.row)
        BY <2>4 DEF HeldRow
      <3>2. /\ RowIds' = RowIds
            /\ outbox'[c.row] = Finished(outbox[c.row], "failed")
            /\ \A k \in RowIds \ {c.row} : outbox'[k] = outbox[k]
        BY <1>1, <2>1, <3>1, OneRow
      <3>3. RowStep(c.row)
        BY <2>4, <3>1, <3>2 DEF RowStep
      <3>4. \A k \in RowIds \ {c.row} : RowStep(k)
        BY <3>2 DEF RowStep
      <3> QED
        BY <3>2, <3>3, <3>4 DEF InPlace
    <2>5. CASE outbox' = [outbox EXCEPT ![c.row].lease = "live"]
      <3>1. outbox' = [outbox EXCEPT ![c.row] = [outbox[c.row] EXCEPT !.lease = "live"]]
        BY <2>5
      <3>2. /\ RowIds' = RowIds
            /\ outbox'[c.row] = [outbox[c.row] EXCEPT !.lease = "live"]
            /\ \A k \in RowIds \ {c.row} : outbox'[k] = outbox[k]
        BY <1>1, <2>1, <3>1, OneRow
      <3>3. RowStep(c.row)
        BY <3>2 DEF RowStep, Lease
      <3>4. \A k \in RowIds \ {c.row} : RowStep(k)
        BY <3>2 DEF RowStep
      <3> QED
        BY <3>2, <3>3, <3>4 DEF InPlace
    <2> QED
      BY <1>5, <2>2, <2>3, <2>4, <2>5 DEF MarkDispatched, MarkFailed
  <1> QED
    BY <1>2, <1>3, <1>4, <1>5
    DEF PassProgress, PassFault, Sweep, Enqueue, RecordDispatched, RecordFailure, SweepFails,
        ReclaimFails, ClaimFails, EnqueueFails, RecordDispatchedFails, RecordFailureFails,
        DispatcherCrash

(* Every step of the system rewrites rows in place, or adds one. *)
LEMMA RowsOnlyStep ==
  ASSUME IndInv, [Next]_vars
  PROVE  InPlace \/ \E j \in Jobs, g \in Generations : Requested(j, g)
  <1>1. StoreTypeOK
    BY DEF IndInv, TypeOK
  <1>2. CASE UNCHANGED outbox
    BY <1>2 DEF InPlace, RowStep, RowIds
  <1>3. ASSUME NEW d \in Dispatchers, ScheduledPassStep(d)
        PROVE  InPlace
    BY <1>3, PassRows DEF ScheduledPassStep
  <1>4. ASSUME NEW w \in Workers, DeliveryOf(w)
        PROVE  UNCHANGED outbox
    BY <1>4
    DEF DeliveryOf, DeliveryProgress, Deliver, ClaimJob, EarlyDelivery, DuplicateDelivery,
        Start, Progress, Finish, Acknowledge, DeliveryFails, storeVars
  <1>5. ASSUME NEW j \in Jobs, Decision(j)
        PROVE  UNCHANGED outbox \/ \E g \in Generations : Requested(j, g)
    <2>1. CASE Submit(j)
      BY <2>1, GenerationAssumption DEF Submit, Requested, Generations
    <2>2. CASE RedriveJob(j)
      BY <2>2 DEF RedriveJob, Requested
    <2>3. CASE AbandonJob(j)
      BY <2>3 DEF AbandonJob
    <2> QED
      BY <1>5, <2>1, <2>2, <2>3 DEF Decision
  <1>6. ASSUME NEW i \in RowIds, LeaseExpires(i)
        PROVE  InPlace
    <2>1. outbox' = [outbox EXCEPT ![i] = [outbox[i] EXCEPT !.lease = "expired"]]
      BY <1>6 DEF LeaseExpires
    <2>2. /\ RowIds' = RowIds
          /\ outbox'[i] = [outbox[i] EXCEPT !.lease = "expired"]
          /\ \A k \in RowIds \ {i} : outbox'[k] = outbox[k]
      BY <1>1, <2>1, OneRow
    <2>3. RowStep(i)
      BY <2>2 DEF RowStep, Lease
    <2>4. \A k \in RowIds \ {i} : RowStep(k)
      BY <2>2 DEF RowStep
    <2> QED
      BY <2>2, <2>3, <2>4 DEF InPlace
  <1>7. CASE Tick
    BY <1>2, <1>6, <1>7 DEF Tick, JobLeaseExpires
  <1> QED
    BY <1>2, <1>3, <1>4, <1>5, <1>7 DEF Next, vars

(* What a rewritten row keeps, and how it may change. *)
LEMMA RowKeeps ==
  ASSUME StoreTypeOK, InPlace, NEW i \in RowIds
  PROVE  /\ outbox'[i].job = outbox[i].job
         /\ outbox'[i].gen = outbox[i].gen
         /\ Live(i)' => Live(i)
         /\ outbox[i].status = "dispatched" => outbox'[i].status = "dispatched"
  <1>1. outbox[i] \in OutboxRow /\ RowStep(i)
    BY RowsTyped DEF InPlace
  <1> QED
    BY <1>1 DEF RowStep, OutboxRow, Leased, Finished, Claimable, Stranded, LeaseOver, Live,
                HeldRow, HeldBy

(* What is there after a row was added. *)
LEMMA RowAdded ==
  ASSUME StoreTypeOK, NEW j \in Jobs, NEW g \in Generations, EnqueueRow(j, g)
  PROVE  /\ RowIds' = RowIds \union {Len(outbox) + 1}
         /\ Len(outbox) + 1 \notin RowIds
         /\ \A i \in RowIds : outbox'[i] = outbox[i]
         /\ outbox'[Len(outbox) + 1] = NewRow(j, g)
         /\ outbox'[Len(outbox) + 1].job = j
         /\ outbox'[Len(outbox) + 1].gen = g
         /\ ~NameTaken(TaskName(j, g))
  <1>1. NewRow(j, g) \in OutboxRow
    BY GenerationAssumption DEF NewRow, OutboxRow, OutboxStatus, Lease, NoToken, Generations
  <1>2. outbox' = Append(outbox, NewRow(j, g)) /\ ~NameTaken(TaskName(j, g))
    BY DEF EnqueueRow
  <1>3. /\ RowIds' = RowIds \union {Len(outbox) + 1}
        /\ Len(outbox) + 1 \notin RowIds
        /\ \A i \in RowIds : outbox'[i] = outbox[i]
        /\ outbox'[Len(outbox) + 1] = NewRow(j, g)
    BY <1>1, <1>2, Appending DEF RowIds
  <1>4. NewRow(j, g).job = j /\ NewRow(j, g).gen = g
    BY DEF NewRow
  <1> QED
    BY <1>2, <1>3, <1>4

-----------------------------------------------------------------------------
(* What a step may do to the jobs, their runs and their effects *)

Others(j) == \A k \in Jobs \ {j} : job'[k].status = job[k].status

EffectsStay == \A k \in Jobs : Completions(k)' = Completions(k)

Still ==
  InPlace /\ UNCHANGED runs /\ EffectsStay /\ \A k \in Jobs : job'[k].status = job[k].status

Asked(j) ==
  /\ \E g \in Generations : Requested(j, g)
  /\ job[j].status \in {"absent", "failed_provider", "timed_out"}
  /\ job'[j].status = "queued"
  /\ Others(j) /\ UNCHANGED runs /\ EffectsStay

Sent(j) ==
  /\ InPlace
  /\ job[j].status = "queued" /\ job'[j].status = "dispatched"
  /\ \E i \in RowIds : /\ outbox[i].job = j /\ outbox[i].status # "dispatched"
                       /\ outbox'[i].status = "dispatched"
  /\ Others(j) /\ UNCHANGED runs /\ EffectsStay

Began(j) ==
  /\ InPlace
  /\ job[j].status = "dispatched" /\ job'[j].status = "running"
  /\ runs' = [runs EXCEPT ![j] = @ + 1]
  /\ Others(j) /\ EffectsStay

Ended(j, state) ==
  /\ InPlace
  /\ job[j].status = "running" /\ job'[j].status = state
  /\ Others(j) /\ UNCHANGED runs
  /\ \A k \in Jobs \ {j} : Completions(k)' = Completions(k)
  /\ IF state \in ResultState THEN \E e : Completions(j)' = Completions(j) \union {e}
                              ELSE Completions(j)' = Completions(j)

Closed(j) ==
  /\ InPlace
  /\ job[j].status \in {"failed_provider", "timed_out"} /\ job'[j].status = "abandoned"
  /\ Others(j) /\ UNCHANGED runs /\ EffectsStay

Parked(S, from, to) ==
  /\ InPlace
  /\ \A j \in S : job[j].status = from
  /\ \A j \in Jobs : job'[j].status = IF j \in S THEN to ELSE job[j].status
  /\ UNCHANGED runs /\ EffectsStay

WorkStep ==
  \/ Still
  \/ \E j \in Jobs : Sent(j) \/ Began(j)
  \/ \E j \in Jobs, state \in ResultState \union FailureState : Ended(j, state)
  \/ \E S \in SUBSET Jobs : Parked(S, "queued", "failed_provider")
  \/ \E S \in SUBSET Jobs : Parked(S, "running", "timed_out")

JobsStep == WorkStep \/ \E j \in Jobs : Asked(j) \/ Closed(j)

(* An event that is not a completion leaves the effects alone. *)
LEMMA OtherEvent ==
  ASSUME StoreTypeOK, NEW j \in Jobs, NEW kind, NEW run, kind # "completed",
         log' = Appended(j, kind, run)
  PROVE  EffectsStay
  BY DEF StoreTypeOK, Appended, EffectsStay, Completions

(* A log that is not written keeps its completions. *)
LEMMA SameLog ==
  ASSUME UNCHANGED log
  PROVE  EffectsStay
  BY DEF EffectsStay, Completions

(* What a pass does to the jobs. *)
LEMMA PassJobs ==
  ASSUME IndInv, NEW d \in Dispatchers, PassProgress(d) \/ PassFault(d)
  PROVE  WorkStep
  <1>1. /\ StoreTypeOK /\ DispatcherTypeOK /\ LiveRowIsQueued /\ OneLiveRow
        /\ InPlace
    BY PassRows DEF IndInv, TypeOK, OutboxCarriesQueue
  <1>2. CASE UNCHANGED <<job, runs, log>>
    BY <1>1, <1>2, SameLog DEF WorkStep, Still
  <1>3. CASE Sweep(d)
    <2>1. PICK S \in Batches(ExpiredJobs) :
            /\ job' = [j \in Jobs |->
                         IF j \in S THEN [status |-> "timed_out", lease |-> "none"] ELSE job[j]]
            /\ log' = [j \in Jobs |->
                         IF j \in S
                           THEN log[j] \union {[kind |-> "timed_out", run |-> runs[j]]}
                           ELSE log[j]]
      BY <1>3 DEF Sweep
    <2>2. S \in SUBSET Jobs /\ \A j \in S : job[j].status = "running"
      BY DEF Batches, ExpiredJobs, Running
    <2>3. EffectsStay
      BY <2>1 DEF EffectsStay, Completions
    <2>4. UNCHANGED runs
      BY <1>3 DEF Sweep
    <2>5. Parked(S, "running", "timed_out")
      BY <1>1, <2>1, <2>2, <2>3, <2>4 DEF Parked
    <2> QED
      BY <2>2, <2>5 DEF WorkStep
  <1>4. CASE Reclaim(d)
    <2> DEFINE T == Oldest({i \in RowIds : Stranded(i)})
               S == {j \in Jobs : j \in {outbox[i].job : i \in T} /\ job[j].status = "queued"}
    <2>1. job' = [j \in Jobs |->
                    IF j \in {outbox[i].job : i \in T} /\ job[j].status = "queued"
                      THEN [status |-> "failed_provider", lease |-> "none"]
                      ELSE job[j]]
      BY <1>4 DEF Reclaim
    <2>2. UNCHANGED <<runs, log>>
      BY <1>4 DEF Reclaim
    <2> HIDE DEF T
    <2>3. Parked(S, "queued", "failed_provider")
      BY <1>1, <2>1, <2>2, SameLog DEF Parked
    <2> QED
      BY <2>3 DEF WorkStep
  <1>5. CASE (At(d, "record") /\ MarkDispatched(d)) \/ (At(d, "fail") /\ MarkFailed(d))
    <2> DEFINE c == Current(d)
               j == CurrentRow(d).job
    <2>0. c.row \in RowIds /\ j = outbox[c.row].job /\ j \in Jobs
      BY <1>1, <1>5, CurrentTyped, RowsTyped DEF At, RowSteps, CurrentRow, OutboxRow
    <2>1. UNCHANGED <<runs, log>>
      BY <1>5
      DEF PassProgress, PassFault, Sweep, Reclaim, ClaimBatch, Enqueue, RecordDispatched,
          RecordFailure, SweepFails, ReclaimFails, ClaimFails, EnqueueFails,
          RecordDispatchedFails, RecordFailureFails, DispatcherCrash, At
    <2>2. CASE UNCHANGED job
      BY <1>2, <2>1, <2>2
    <2>3. ASSUME HeldBy(c) PROVE job[j].status = "queued"
      BY <1>1, <2>0, <2>3 DEF HeldBy, LiveRowIsQueued, Live
    <2>4. CASE /\ HeldBy(c)
               /\ outbox' = [outbox EXCEPT ![c.row] = Finished(@, "dispatched")]
               /\ job' = Transition(job, j, "queued", "dispatched", "none")
      <3>1. outbox' = [outbox EXCEPT ![c.row] = Finished(outbox[c.row], "dispatched")]
        BY <2>4
      <3>2. outbox'[c.row] = Finished(outbox[c.row], "dispatched")
        BY <1>1, <2>0, <3>1, OneRow
      <3>3. outbox[c.row].status = "leased" /\ outbox[c.row] \in OutboxRow
        BY <1>1, <2>0, <2>4, RowsTyped DEF HeldBy
      <3>4. outbox'[c.row].status = "dispatched"
        BY <3>2, <3>3 DEF Finished, OutboxRow
      <3>5. job'[j].status = "dispatched" /\ Others(j)
        BY <1>1, <2>0, <2>3, <2>4 DEF Transition, StoreTypeOK, Others
      <3>6. Sent(j)
        BY <1>1, <2>0, <2>1, <2>3, <2>4, <3>3, <3>4, <3>5, SameLog DEF Sent
      <3> QED
        BY <2>0, <3>6 DEF WorkStep
    <2>5. CASE HeldBy(c) /\ job' = Transition(job, j, "queued", "failed_provider", "none")
      <3>1. \A k \in Jobs :
              job'[k].status = IF k \in {j} THEN "failed_provider" ELSE job[k].status
        BY <1>1, <2>0, <2>3, <2>5 DEF Transition, StoreTypeOK
      <3>2. Parked({j}, "queued", "failed_provider")
        BY <1>1, <2>1, <2>3, <2>5, <3>1, SameLog DEF Parked
      <3> QED
        BY <2>0, <3>2 DEF WorkStep
    <2> QED
      BY <1>5, <2>2, <2>4, <2>5 DEF MarkDispatched, MarkFailed
  <1> QED
    BY <1>2, <1>3, <1>4, <1>5
    DEF PassProgress, PassFault, ClaimBatch, Enqueue, RecordDispatched, RecordFailure, SweepFails,
        ReclaimFails, ClaimFails, EnqueueFails, RecordDispatchedFails, RecordFailureFails,
        DispatcherCrash

(* What a delivery does to its job. *)
LEMMA DeliveryJobs ==
  ASSUME IndInv, NEW w \in Workers, DeliveryOf(w)
  PROVE  WorkStep
  <1>1. StoreTypeOK /\ ExecutorTypeOK
    BY DEF IndInv, TypeOK
  <1>2. InPlace
    <2>1. UNCHANGED outbox
      BY DEF DeliveryOf, DeliveryProgress, Deliver, ClaimJob, EarlyDelivery, DuplicateDelivery,
             Start, Progress, Finish, Acknowledge, DeliveryFails, storeVars
    <2> QED
      BY <2>1 DEF InPlace, RowStep, RowIds
  <1>3. CASE UNCHANGED <<job, runs, log>>
    BY <1>2, <1>3, SameLog DEF WorkStep, Still
  <1>4. CASE ClaimJob(w)
    <2> DEFINE j == JobOf(w)
    <2>1. j \in Jobs /\ UNCHANGED log
      BY <1>1, <1>4, JobOfTyped DEF ClaimJob, On
    <2>2. CASE job[j].status = "dispatched"
      <3>1. /\ job' = Transition(job, j, "dispatched", "running", "live")
            /\ runs' = [runs EXCEPT ![j] = @ + 1]
        BY <1>4, <2>2 DEF ClaimJob
      <3>2. job'[j].status = "running" /\ Others(j)
        BY <1>1, <2>1, <2>2, <3>1 DEF Transition, StoreTypeOK, Others
      <3>3. Began(j)
        BY <1>2, <2>1, <2>2, <3>1, <3>2, SameLog DEF Began
      <3> QED
        BY <2>1, <3>3 DEF WorkStep
    <2>3. CASE job[j].status # "dispatched"
      BY <1>3, <1>4, <2>1, <2>3 DEF ClaimJob
    <2> QED
      BY <2>2, <2>3
  <1>5. CASE Start(w) \/ Progress(w)
    <2> DEFINE j == JobOf(w)
    <2>1. j \in Jobs /\ UNCHANGED runs /\ RenewLease(j)
      BY <1>1, <1>5, JobOfTyped DEF Start, Progress, On
    <2>2. EffectsStay
      BY <1>1, <1>5, <2>1, SameLog, OtherEvent DEF Start, Progress
    <2>3. \A k \in Jobs : job'[k].status = job[k].status
      BY <1>1, <2>1 DEF RenewLease, StoreTypeOK, JobRow
    <2> QED
      BY <1>2, <2>1, <2>2, <2>3 DEF WorkStep, Still
  <1>6. ASSUME NEW state \in ResultState \union FailureState, Finish(w, state)
        PROVE  WorkStep
    <2>0. PICK j \in Jobs : j = JobOf(w)
      BY <1>1, <1>6, JobOfTyped DEF Finish, On
    <2>1. UNCHANGED runs /\ job' = Transition(job, j, "running", state, "none")
      BY <1>6, <2>0 DEF Finish
    <2>2. CASE Running(j)
      <3>1. job[j].status = "running" /\ job'[j].status = state /\ Others(j)
        BY <1>1, <2>1, <2>2 DEF Transition, StoreTypeOK, Others, Running
      <3>2. CASE state \in ResultState
        <4>1. log' = Appended(j, "completed", worker[w].run)
          BY <1>6, <2>0, <2>2, <3>2 DEF Finish
        <4>2. PICK e : /\ e.kind = "completed"
                       /\ log'[j] = log[j] \union {e}
                       /\ \A k \in Jobs \ {j} : log'[k] = log[k]
          <5> DEFINE e == [kind |-> "completed", run |-> worker[w].run]
          <5>1. log' = [log EXCEPT ![j] = @ \union {e}] /\ e.kind = "completed"
            BY <4>1 DEF Appended
          <5> HIDE DEF e
          <5> QED
            BY <1>1, <2>1, <5>1 DEF StoreTypeOK
        <4>3. Completions(j)' = Completions(j) \union {e}
          BY <4>2 DEF Completions
        <4>4. \A k \in Jobs \ {j} : Completions(k)' = Completions(k)
          BY <4>2 DEF Completions
        <4>5. Ended(j, state)
          BY <1>2, <2>1, <3>1, <3>2, <4>3, <4>4 DEF Ended
        <4> QED
          BY <2>1, <4>5 DEF WorkStep
      <3>3. CASE state \notin ResultState
        <4>1. log' = Appended(j, "failed", worker[w].run)
          BY <1>6, <2>0, <2>2, <3>3 DEF Finish
        <4>2. EffectsStay
          BY <1>1, <2>1, <4>1, OtherEvent
        <4>3. /\ Completions(j)' = Completions(j)
              /\ \A k \in Jobs \ {j} : Completions(k)' = Completions(k)
          BY <2>1, <4>2 DEF EffectsStay
        <4>4. Ended(j, state)
          BY <1>2, <2>1, <3>1, <3>3, <4>3 DEF Ended
        <4> QED
          BY <2>1, <4>4 DEF WorkStep
      <3> QED
        BY <3>2, <3>3
    <2>3. CASE ~Running(j)
      <3>1. UNCHANGED job /\ log' = Appended(j, "outcome_discarded", worker[w].run)
        BY <1>6, <2>0, <2>1, <2>3 DEF Finish, Transition, Running
      <3>2. EffectsStay
        BY <1>1, <2>1, <3>1, OtherEvent
      <3> QED
        BY <1>2, <2>1, <3>1, <3>2 DEF WorkStep, Still
    <2> QED
      BY <2>2, <2>3
  <1> QED
    BY <1>3, <1>4, <1>5, <1>6
    DEF DeliveryOf, DeliveryProgress, Deliver, EarlyDelivery, DuplicateDelivery, Acknowledge,
        DeliveryFails, storeVars

(* What clients and operators do to a job. *)
LEMMA DecisionJobs ==
  ASSUME IndInv, NEW j \in Jobs, Decision(j)
  PROVE  JobsStep
  <1>1. StoreTypeOK /\ UNCHANGED <<runs, log>>
    BY DEF IndInv, TypeOK, Decision, Submit, RedriveJob, AbandonJob
  <1>2. CASE Submit(j) \/ RedriveJob(j)
    <2>1. \E g \in Generations : Requested(j, g)
      <3>1. CASE Submit(j)
        <4>1. Requested(j, 0) /\ 0 \in Generations
          BY <3>1, GenerationAssumption DEF Submit, Requested, Generations
        <4> QED
          BY <4>1
      <3>2. CASE RedriveJob(j)
        <4>1. Requested(j, NextGeneration(j)) /\ NextGeneration(j) \in Generations
          BY <3>2 DEF RedriveJob, Requested
        <4> QED
          BY <4>1
      <3> QED
        BY <1>2, <3>1, <3>2
    <2>2. job' = [job EXCEPT ![j] = [status |-> "queued", lease |-> "none"]]
      BY <1>2 DEF Submit, RedriveJob
    <2>3. job'[j].status = "queued" /\ Others(j)
      BY <1>1, <2>2 DEF StoreTypeOK, Others
    <2>4. job[j].status \in {"absent", "failed_provider", "timed_out"}
      BY <1>1, <1>2
      DEF Submit, RedriveJob, Parkable, CanTransition, TRANSITIONS, JobState, StoreTypeOK, JobRow
    <2>5. Asked(j)
      BY <1>1, <2>1, <2>3, <2>4, SameLog DEF Asked
    <2> QED
      BY <2>5 DEF JobsStep
  <1>3. CASE AbandonJob(j)
    <2>1. job' = [job EXCEPT ![j] = [status |-> "abandoned", lease |-> "none"]] /\ UNCHANGED outbox
      BY <1>3 DEF AbandonJob
    <2>2. job'[j].status = "abandoned" /\ Others(j)
      BY <1>1, <2>1 DEF StoreTypeOK, Others
    <2>3. job[j].status \in {"failed_provider", "timed_out"}
      BY <1>1, <1>3
      DEF AbandonJob, Parkable, CanTransition, TRANSITIONS, JobState, StoreTypeOK, JobRow
    <2>4. InPlace
      BY <2>1 DEF InPlace, RowStep, RowIds
    <2>5. Closed(j)
      BY <1>1, <2>2, <2>3, <2>4, SameLog DEF Closed
    <2> QED
      BY <2>5 DEF JobsStep
  <1> QED
    BY <1>2, <1>3 DEF Decision

(* Whatever is not a decision neither asks for a run nor closes a job. *)
LEMMA WorkOnly ==
  ASSUME IndInv, [Next]_vars, ~ \E j \in Jobs : Decision(j)
  PROVE  WorkStep /\ UNCHANGED records
  <1>1. StoreTypeOK
    BY DEF IndInv, TypeOK
  <1>2. ASSUME Tick \/ UNCHANGED vars
        PROVE  WorkStep
    <2>1. UNCHANGED <<runs, log>>
      BY <1>2 DEF Tick, LeaseExpires, JobLeaseExpires, vars
    <2>2. \A k \in Jobs : job'[k].status = job[k].status
      <3>1. CASE UNCHANGED job
        BY <3>1
      <3>2. ASSUME NEW j \in Jobs, JobLeaseExpires(j)
            PROVE  \A k \in Jobs : job'[k].status = job[k].status
        BY <1>1, <3>2 DEF JobLeaseExpires, StoreTypeOK, JobRow
      <3> QED
        BY <1>2, <3>1, <3>2 DEF Tick, LeaseExpires, vars
    <2>3. InPlace
      <3>1. ~ \E j \in Jobs, g \in Generations : Requested(j, g)
        <4> SUFFICES ASSUME NEW j \in Jobs, NEW g \in Generations, Requested(j, g) PROVE FALSE
          OBVIOUS
        <4>1. CASE Submit(j)
          BY <1>1, <2>2, <4>1 DEF Submit, StoreTypeOK
        <4>2. CASE RedriveJob(j)
          BY <1>1, <2>2, <4>2
          DEF RedriveJob, StoreTypeOK, Parkable, CanTransition, TRANSITIONS, JobState
        <4> QED
          BY <4>1, <4>2 DEF Requested
      <3> QED
        BY <3>1, RowsOnlyStep
    <2> QED
      BY <2>1, <2>2, <2>3, SameLog DEF WorkStep, Still
  <1>3. UNCHANGED records
    BY DEF Next, ScheduledPassStep, DeliveryOf, Tick, vars
  <1> QED
    BY <1>2, <1>3, PassJobs, DeliveryJobs DEF Next, ScheduledPassStep

(* Every step of the system asks for a run, sends, begins or ends one,     *)
(* parks or closes jobs, or does none of these.                            *)
LEMMA JobsOnlyStep ==
  ASSUME IndInv, [Next]_vars
  PROVE  JobsStep
  BY WorkOnly, DecisionJobs DEF JobsStep

-----------------------------------------------------------------------------
(* Which rows a job has *)

Dispatches(j) == {i \in RowsOf(j) : outbox[i].status = "dispatched"}

(* They are finitely many. *)
LEMMA RowsFinite ==
  ASSUME StoreTypeOK, NEW j \in Jobs
  PROVE  /\ IsFiniteSet(RowsOf(j)) /\ Cardinality(RowsOf(j)) \in Nat
         /\ IsFiniteSet(Dispatches(j)) /\ Cardinality(Dispatches(j)) \in Nat
         /\ Cardinality(Dispatches(j)) <= Cardinality(RowsOf(j))
  <1>1. IsFiniteSet(RowIds)
    BY RowsTyped, FS_Interval
  <1>2. IsFiniteSet(RowsOf(j))
    BY <1>1, FS_Subset DEF RowsOf
  <1>3. Dispatches(j) \subseteq RowsOf(j)
    BY DEF Dispatches
  <1> QED
    BY <1>2, <1>3, FS_Subset, FS_CardinalityType

(* A rewritten row stays its job's, dispatched if it was. *)
LEMMA RowsInPlace ==
  ASSUME StoreTypeOK, InPlace, NEW j \in Jobs
  PROVE  RowsOf(j)' = RowsOf(j) /\ Dispatches(j) \subseteq Dispatches(j)'
  <1>1. RowIds' = RowIds
    BY DEF InPlace
  <1> QED
    BY <1>1, RowKeeps DEF RowsOf, Dispatches

(* A request adds one row, to its own job, and not a dispatched one. *)
LEMMA RowsRequested ==
  ASSUME StoreTypeOK, NEW j \in Jobs, NEW g \in Generations, EnqueueRow(j, g)
  PROVE  /\ \A k \in Jobs \ {j} : RowsOf(k)' = RowsOf(k)
         /\ RowsOf(j)' = RowsOf(j) \union {Len(outbox) + 1}
         /\ NextGeneration(j)' = NextGeneration(j) + 1
         /\ \A k \in Jobs : Dispatches(k) \subseteq Dispatches(k)'
  <1>1. PICK n : n = Len(outbox) + 1
    OBVIOUS
  <1>2. /\ RowIds' = RowIds \union {n}
        /\ n \notin RowIds
        /\ \A i \in RowIds : outbox'[i] = outbox[i]
        /\ outbox'[n].job = j
    BY <1>1, RowAdded
  <1>3. /\ \A k \in Jobs \ {j} : RowsOf(k)' = RowsOf(k)
        /\ RowsOf(j)' = RowsOf(j) \union {n}
        /\ n \notin RowsOf(j)
    BY <1>2 DEF RowsOf
  <1>4. NextGeneration(j)' = NextGeneration(j) + 1
    BY <1>3, RowsFinite, FS_AddElement DEF NextGeneration
  <1>5. \A k \in Jobs : Dispatches(k) \subseteq Dispatches(k)'
    BY <1>2 DEF Dispatches, RowsOf
  <1> QED
    BY <1>1, <1>3, <1>4, <1>5

(* A job never loses a dispatch. *)
LEMMA DispatchesGrow ==
  ASSUME IndInv, [Next]_vars, NEW j \in Jobs
  PROVE  /\ Cardinality(Dispatches(j)) <= Cardinality(Dispatches(j)')
         /\ Cardinality(Dispatches(j)) \in Nat
         /\ Cardinality(Dispatches(j)') \in Nat
         /\ Dispatches(j) \subseteq Dispatches(j)'
         /\ IsFiniteSet(Dispatches(j)')
  <1>1. StoreTypeOK /\ StoreTypeOK'
    BY NextIndInv DEF IndInv, TypeOK
  <1>2. Dispatches(j) \subseteq Dispatches(j)'
    BY <1>1, RowsOnlyStep, RowsInPlace, RowsRequested DEF Requested
  <1>3. IsFiniteSet(Dispatches(j)) /\ Cardinality(Dispatches(j)) \in Nat
    BY <1>1, RowsFinite
  <1>4. (IsFiniteSet(Dispatches(j)) /\ Cardinality(Dispatches(j)) \in Nat)'
    <2>1. RowIds' = 1 .. Len(outbox') /\ Len(outbox') \in Nat
      BY <1>1 DEF StoreTypeOK, RowIds
    <2>2. IsFiniteSet(RowIds')
      BY <2>1, FS_Interval
    <2>3. Dispatches(j)' \subseteq RowIds'
      BY DEF Dispatches, RowsOf
    <2> QED
      BY <2>2, <2>3, FS_Subset, FS_CardinalityType
  <1> QED
    BY <1>2, <1>3, <1>4, FS_Subset

-----------------------------------------------------------------------------
(* Runs and effects *)

(* A dispatched job has a dispatch no run has used. *)
ClaimsFit ==
  \A j \in Jobs :
    runs[j] + (IF job[j].status = "dispatched" THEN 1 ELSE 0) <= Cardinality(Dispatches(j))

EffectTrue ==
  \A j \in Jobs :
    \/ Completions(j) = {} /\ job[j].status \notin ResultState
    \/ (\E e : Completions(j) = {e}) /\ job[j].status \in ResultState

(* A run uses up a dispatch, and only a dispatch makes a job claimable. *)
LEMMA ClaimsFitKept ==
  ASSUME IndInv, ClaimsFit, [Next]_vars
  PROVE  ClaimsFit'
  <1>1. StoreTypeOK /\ JobsStep
    BY JobsOnlyStep DEF IndInv, TypeOK
  <1> SUFFICES ASSUME NEW k \in Jobs
               PROVE  runs'[k] + (IF job'[k].status = "dispatched" THEN 1 ELSE 0)
                        <= Cardinality(Dispatches(k)')
    BY DEF ClaimsFit
  <1>2. /\ Cardinality(Dispatches(k)) <= Cardinality(Dispatches(k)')
        /\ Cardinality(Dispatches(k)) \in Nat
        /\ Cardinality(Dispatches(k)') \in Nat
        /\ runs[k] \in Nat
    BY <1>1, DispatchesGrow DEF StoreTypeOK
  <1>3. runs[k] + (IF job[k].status = "dispatched" THEN 1 ELSE 0) <= Cardinality(Dispatches(k))
    BY DEF ClaimsFit
  <1>4. CASE runs'[k] = runs[k] /\ (job'[k].status = "dispatched" => job[k].status = "dispatched")
    BY <1>2, <1>3, <1>4
  <1>5. CASE Began(k)
    BY <1>1, <1>2, <1>3, <1>5 DEF Began, StoreTypeOK
  <1>6. CASE Sent(k)
    <2>1. PICK i \in RowIds : /\ outbox[i].job = k /\ outbox[i].status # "dispatched"
                              /\ outbox'[i].status = "dispatched"
      BY <1>6 DEF Sent
    <2>2. i \notin Dispatches(k) /\ i \in Dispatches(k)'
      BY <1>1, <1>6, <2>1, RowsInPlace DEF Sent, Dispatches, RowsOf
    <2>3. Dispatches(k) \subseteq Dispatches(k)' /\ IsFiniteSet(Dispatches(k)')
      BY DispatchesGrow
    <2>4. Dispatches(k) \union {i} \subseteq Dispatches(k)'
      BY <2>2, <2>3
    <2>5. Cardinality(Dispatches(k) \union {i}) = Cardinality(Dispatches(k)) + 1
      BY <1>1, <2>2, RowsFinite, FS_AddElement
    <2>6. Cardinality(Dispatches(k)) + 1 <= Cardinality(Dispatches(k)')
      BY <2>3, <2>4, <2>5, FS_Subset
    <2>7. runs'[k] = runs[k] /\ job[k].status # "dispatched"
      BY <1>6 DEF Sent
    <2> QED
      BY <1>2, <1>3, <2>6, <2>7
  <1>7. CASE \E j \in Jobs \ {k} : Sent(j) \/ Began(j)
    <2>1. runs'[k] = runs[k] /\ job'[k].status = job[k].status
      BY <1>1, <1>7 DEF Sent, Began, Others, StoreTypeOK
    <2> QED
      BY <1>4, <2>1
  <1>8. ASSUME NEW j \in Jobs, Asked(j) \/ Closed(j)
        PROVE  runs'[k] = runs[k] /\ (job'[k].status = "dispatched" => job[k].status = "dispatched")
    BY <1>8 DEF Asked, Closed, Others
  <1>9. ASSUME NEW j \in Jobs, NEW state \in ResultState \union FailureState, Ended(j, state)
        PROVE  runs'[k] = runs[k] /\ (job'[k].status = "dispatched" => job[k].status = "dispatched")
    BY <1>9 DEF Ended, Others, ResultState, FailureState
  <1>10. CASE \/ Still
              \/ \E S \in SUBSET Jobs : Parked(S, "queued", "failed_provider")
              \/ \E S \in SUBSET Jobs : Parked(S, "running", "timed_out")
    <2>1. runs'[k] = runs[k] /\ (job'[k].status = "dispatched" => job[k].status = "dispatched")
      BY <1>10 DEF Still, Parked
    <2> QED
      BY <1>4, <2>1
  <1> QED
    BY <1>1, <1>4, <1>5, <1>6, <1>7, <1>8, <1>9, <1>10 DEF JobsStep, WorkStep

(* An effect is committed by the step that ends a job well, and that is an *)
(* end no step leaves.                                                     *)
LEMMA EffectTrueKept ==
  ASSUME IndInv, EffectTrue, [Next]_vars
  PROVE  EffectTrue'
  <1>1. StoreTypeOK /\ JobsStep
    BY JobsOnlyStep DEF IndInv, TypeOK
  <1> SUFFICES ASSUME NEW k \in Jobs
               PROVE  \/ Completions(k)' = {} /\ job'[k].status \notin ResultState
                      \/ (\E e : Completions(k)' = {e}) /\ job'[k].status \in ResultState
    BY DEF EffectTrue
  <1>2. \/ Completions(k) = {} /\ job[k].status \notin ResultState
        \/ (\E e : Completions(k) = {e}) /\ job[k].status \in ResultState
    BY DEF EffectTrue
  <1>3. CASE /\ Completions(k)' = Completions(k)
             /\ job'[k].status \in ResultState <=> job[k].status \in ResultState
    BY <1>2, <1>3
  <1>4. ASSUME NEW j \in Jobs, Asked(j) \/ Sent(j) \/ Began(j) \/ Closed(j)
        PROVE  /\ Completions(k)' = Completions(k)
               /\ job'[k].status \in ResultState <=> job[k].status \in ResultState
    BY <1>4 DEF Asked, Sent, Began, Closed, Others, EffectsStay, ResultState
  <1>5. CASE \/ Still
             \/ \E S \in SUBSET Jobs : Parked(S, "queued", "failed_provider")
             \/ \E S \in SUBSET Jobs : Parked(S, "running", "timed_out")
    <2>1. /\ Completions(k)' = Completions(k)
          /\ job'[k].status \in ResultState <=> job[k].status \in ResultState
      BY <1>5 DEF Still, Parked, EffectsStay, ResultState
    <2> QED
      BY <1>3, <2>1
  <1>6. ASSUME NEW j \in Jobs, NEW state \in ResultState \union FailureState, Ended(j, state)
        PROVE  \/ Completions(k)' = {} /\ job'[k].status \notin ResultState
               \/ (\E e : Completions(k)' = {e}) /\ job'[k].status \in ResultState
    <2>1. CASE k # j
      BY <1>3, <1>6, <2>1 DEF Ended, Others
    <2>2. CASE k = j
      <3>1. Completions(k) = {} /\ job'[k].status = state
        BY <1>2, <1>6, <2>2 DEF Ended, ResultState
      <3>2. CASE state \in ResultState
        BY <1>6, <2>2, <3>1, <3>2 DEF Ended
      <3>3. CASE state \notin ResultState
        BY <1>6, <2>2, <3>1, <3>3 DEF Ended
      <3> QED
        BY <3>2, <3>3
    <2> QED
      BY <2>1, <2>2
  <1> QED
    BY <1>1, <1>3, <1>4, <1>5, <1>6 DEF JobsStep, WorkStep

RunsInv == IndInv /\ ClaimsFit /\ EffectTrue

(* Runs and effects are as the invariant says in every reachable state. *)
THEOREM RunsInvHolds == Spec => []RunsInv
  <1>1. Init => RunsInv
    <2> SUFFICES ASSUME Init PROVE RunsInv
      OBVIOUS
    <2>1. IndInv /\ StoreTypeOK
      BY InitIndInv DEF IndInv, TypeOK
    <2>2. ClaimsFit
      <3> SUFFICES ASSUME NEW j \in Jobs
                   PROVE  runs[j] + (IF job[j].status = "dispatched" THEN 1 ELSE 0)
                            <= Cardinality(Dispatches(j))
        BY DEF ClaimsFit
      <3>1. Cardinality(Dispatches(j)) \in Nat
        BY <2>1, RowsFinite
      <3>2. runs[j] = 0 /\ job[j].status = "absent"
        BY DEF Init, StoreInit
      <3> QED
        BY <3>1, <3>2
    <2>3. EffectTrue
      BY DEF EffectTrue, Completions, Init, StoreInit, ResultState
    <2> QED
      BY <2>1, <2>2, <2>3 DEF RunsInv
  <1>2. RunsInv /\ [Next]_vars => RunsInv'
    BY NextIndInv, ClaimsFitKept, EffectTrueKept DEF RunsInv
  <1> QED
    BY <1>1, <1>2, PTL DEF Spec

(* Duplicate, early and late deliveries never make a job run more often    *)
(* than it was dispatched.                                                 *)
THEOREM ClaimsCounted == Spec => []OneClaimPerDispatch
  <1>1. RunsInv => OneClaimPerDispatch
    <2> SUFFICES ASSUME RunsInv, NEW j \in Jobs
                 PROVE  runs[j] <= Cardinality(Dispatches(j))
      BY DEF OneClaimPerDispatch, Dispatches
    <2>1. StoreTypeOK
      BY DEF RunsInv, IndInv, TypeOK
    <2>2. runs[j] \in Nat /\ Cardinality(Dispatches(j)) \in Nat
      BY <2>1, RowsFinite DEF StoreTypeOK
    <2>3. runs[j] + (IF job[j].status = "dispatched" THEN 1 ELSE 0) <= Cardinality(Dispatches(j))
      BY DEF RunsInv, ClaimsFit
    <2> QED
      BY <2>2, <2>3
  <1> QED
    BY <1>1, RunsInvHolds, PTL

(* A job's effect is committed once at most, and exactly when it is done. *)
THEOREM EffectCommittedOnce == Spec => []EffectOnce
  <1>1. RunsInv => EffectOnce
    <2> SUFFICES ASSUME RunsInv, NEW j \in Jobs
                 PROVE  /\ Cardinality(Completions(j)) <= 1
                        /\ Completions(j) # {} <=> job[j].status \in ResultState
      BY DEF EffectOnce
    <2>1. CASE Completions(j) = {} /\ job[j].status \notin ResultState
      BY <2>1, FS_EmptySet
    <2>2. ASSUME NEW e, Completions(j) = {e}, job[j].status \in ResultState
          PROVE  /\ Cardinality(Completions(j)) <= 1
                 /\ Completions(j) # {} <=> job[j].status \in ResultState
      <3>1. Cardinality({e}) = 1
        BY FS_Singleton
      <3> QED
        BY <2>2, <3>1
    <2> QED
      BY <2>1, <2>2 DEF RunsInv, EffectTrue
  <1> QED
    BY <1>1, RunsInvHolds, PTL

-----------------------------------------------------------------------------
(* The command path implements its contract *)

(* The phase of each status the path gives a job. *)
LEMMA Phases ==
  /\ PhaseOf("absent") = "absent"
  /\ PhaseOf("queued") = "waiting" /\ PhaseOf("dispatched") = "waiting"
  /\ PhaseOf("running") = "running"
  /\ \A s \in ResultState : PhaseOf(s) = "done"
  /\ PhaseOf("failed_budget") = "refused" /\ PhaseOf("failed_policy") = "refused"
  /\ PhaseOf("failed_provider") = "parked" /\ PhaseOf("timed_out") = "parked"
  /\ PhaseOf("abandoned") = "abandoned"
  BY DEF PhaseOf, ResultState

(* What the contract sees of the state. *)
phases   == [j \in Jobs |-> PhaseOf(job[j].status)]
requests == [j \in Jobs |-> NextGeneration(j)]
effects  == [j \in Jobs |-> Completions(j) # {}]

(* Rows rewritten in place ask for nothing. *)
LEMMA NothingAsked ==
  ASSUME StoreTypeOK, InPlace
  PROVE  UNCHANGED requests
  <1>1. \A j \in Jobs : NextGeneration(j)' = NextGeneration(j)
    BY RowsInPlace DEF NextGeneration
  <1> QED
    BY <1>1 DEF requests

(* Completions that stay leave the effects alone. *)
LEMMA NoEffect ==
  ASSUME EffectsStay
  PROVE  UNCHANGED effects
  BY DEF EffectsStay, effects

(* One job moves to another phase. *)
LEMMA PhaseMoves ==
  ASSUME NEW j \in Jobs, Others(j)
  PROVE  phases' = [phases EXCEPT ![j] = PhaseOf(job'[j].status)]
  BY DEF phases, Others

(* A step is a step of the contract, or one it does not see. *)
LEMMA StepKeepsContract ==
  ASSUME RunsInv, [Next]_vars
  PROVE  [Contract!Next]_(Contract!vars)
  <1>1. StoreTypeOK /\ JobsStep /\ ClaimsFit /\ EffectTrue
    BY JobsOnlyStep DEF RunsInv, IndInv, TypeOK
  <1> USE DEF Contract!vars, Contract!Next
  <1>2. ASSUME InPlace, UNCHANGED runs, EffectsStay
        PROVE  UNCHANGED <<requests, runs, effects>>
    BY <1>1, <1>2, NothingAsked, NoEffect
  <1>3. CASE Still
    <2>1. UNCHANGED phases
      BY <1>3 DEF Still, phases
    <2> QED
      BY <1>2, <1>3, <2>1 DEF Still, phases, requests, effects
  <1>4. ASSUME NEW j \in Jobs, Asked(j)
        PROVE  Contract!Next
    <2>1. phases[j] \in {"absent", "parked"} /\ phases' = [phases EXCEPT ![j] = "waiting"]
      BY <1>4, Phases, PhaseMoves DEF Asked, phases
    <2>2. requests' = [requests EXCEPT ![j] = @ + 1]
      <3>1. PICK g \in Generations : EnqueueRow(j, g)
        BY <1>4 DEF Asked, Requested
      <3>2. /\ NextGeneration(j)' = NextGeneration(j) + 1
            /\ \A k \in Jobs \ {j} : NextGeneration(k)' = NextGeneration(k)
        BY <1>1, <3>1, RowsRequested DEF NextGeneration
      <3> QED
        BY <3>2 DEF requests
    <2>3. UNCHANGED <<runs, effects>>
      BY <1>4, NoEffect DEF Asked
    <2>4. Contract!Request(j)
      BY <2>1, <2>2, <2>3 DEF Contract!Request, Contract!Move, phases, requests, effects
    <2> QED
      BY <2>4
  <1>5. ASSUME NEW j \in Jobs, Sent(j)
        PROVE  UNCHANGED Contract!vars
    <2>1. UNCHANGED phases
      BY <1>5, Phases DEF Sent, Others, phases
    <2> QED
      BY <1>2, <1>5, <2>1 DEF Sent, phases, requests, effects
  <1>6. ASSUME NEW j \in Jobs, Began(j)
        PROVE  Contract!Next
    <2>1. phases[j] = "waiting" /\ phases' = [phases EXCEPT ![j] = "running"]
      BY <1>6, Phases, PhaseMoves DEF Began, phases
    <2>2. runs[j] < requests[j]
      <3>1. runs[j] + 1 <= Cardinality(Dispatches(j)) /\ runs[j] \in Nat
        BY <1>1, <1>6 DEF ClaimsFit, Began, StoreTypeOK
      <3>2. /\ Cardinality(Dispatches(j)) <= Cardinality(RowsOf(j))
            /\ Cardinality(Dispatches(j)) \in Nat
            /\ Cardinality(RowsOf(j)) \in Nat
        BY <1>1, RowsFinite
      <3> QED
        BY <3>1, <3>2 DEF requests, NextGeneration
    <2>3. UNCHANGED <<requests, effects>> /\ runs' = [runs EXCEPT ![j] = @ + 1]
      BY <1>1, <1>6, NothingAsked, NoEffect DEF Began
    <2>4. Contract!Start(j)
      BY <2>1, <2>2, <2>3 DEF Contract!Start, Contract!Move, phases, requests, effects
    <2> QED
      BY <2>4
  <1>7. ASSUME NEW j \in Jobs, Closed(j)
        PROVE  Contract!Next
    <2>1. phases[j] = "parked" /\ phases' = [phases EXCEPT ![j] = "abandoned"]
      BY <1>7, Phases, PhaseMoves DEF Closed, phases
    <2>2. UNCHANGED <<requests, runs, effects>>
      BY <1>2, <1>7 DEF Closed
    <2>3. Contract!Abandon(j)
      BY <2>1, <2>2 DEF Contract!Abandon, Contract!Move, phases, requests, effects
    <2> QED
      BY <2>3
  <1>8. ASSUME NEW j \in Jobs, NEW state \in ResultState \union FailureState, Ended(j, state)
        PROVE  Contract!Next
    <2>1. phases[j] = "running" /\ phases' = [phases EXCEPT ![j] = PhaseOf(state)]
      BY <1>8, Phases, PhaseMoves DEF Ended, phases
    <2>2. UNCHANGED <<requests, runs>>
      BY <1>1, <1>8, NothingAsked DEF Ended
    <2>3. CASE state \in ResultState
      <3>1. Completions(j) = {}
        BY <1>1, <1>8 DEF EffectTrue, Ended, ResultState
      <3>2. Completions(j)' # {} /\ \A k \in Jobs \ {j} : Completions(k)' = Completions(k)
        BY <1>8, <2>3 DEF Ended
      <3>3. ~effects[j] /\ effects' = [effects EXCEPT ![j] = TRUE]
        BY <3>1, <3>2 DEF effects
      <3>4. Contract!Complete(j)
        BY <2>1, <2>2, <2>3, <3>3, Phases
        DEF Contract!Complete, Contract!Move, phases, requests, effects
      <3> QED
        BY <3>4
    <2>4. CASE state \notin ResultState
      <3>1. UNCHANGED effects
        BY <1>8, <2>4 DEF Ended, effects
      <3>2. CASE state \in {"failed_budget", "failed_policy"}
        <4>1. Contract!Refuse(j)
          BY <2>1, <2>2, <3>1, <3>2, Phases
          DEF Contract!Refuse, Contract!Move, phases, requests, effects
        <4> QED
          BY <4>1
      <3>3. CASE state = "failed_provider"
        <4>1. phases' = [k \in Jobs |-> IF k \in {j} THEN "parked" ELSE phases[k]]
          BY <2>1, <3>3, Phases DEF phases
        <4>2. {j} \in SUBSET {k \in Jobs : phases[k] = "running"}
          BY <2>1
        <4>3. Contract!Park("running")
          BY <2>2, <3>1, <4>1, <4>2 DEF Contract!Park, phases, requests, effects
        <4> QED
          BY <4>3
      <3> QED
        BY <2>4, <3>2, <3>3 DEF FailureState
    <2> QED
      BY <2>3, <2>4
  <1>9. ASSUME NEW S \in SUBSET Jobs, NEW from \in {"queued", "running"},
               NEW to \in {"failed_provider", "timed_out"}, Parked(S, from, to)
        PROVE  Contract!Next
    <2>1. phases' = [k \in Jobs |-> IF k \in S THEN "parked" ELSE phases[k]]
      BY <1>9, Phases DEF Parked, phases
    <2>2. S \in SUBSET {k \in Jobs : phases[k] = PhaseOf(from)}
      BY <1>9 DEF Parked, phases
    <2>3. UNCHANGED <<requests, runs, effects>>
      BY <1>2, <1>9 DEF Parked
    <2>4. Contract!Park(PhaseOf(from))
      BY <2>1, <2>2, <2>3 DEF Contract!Park, phases, requests, effects
    <2> QED
      BY <2>4, Phases
  <1> QED
    BY <1>1, <1>3, <1>4, <1>5, <1>6, <1>7, <1>8, <1>9 DEF JobsStep, WorkStep

(* The path implements its contract: for each request a run at most, for   *)
(* each job a committed effect at most, whatever fails and interleaves.    *)
THEOREM PathKeepsContract == Spec => ImplementsContract
  <1>1. Init => Contract!Init
    <2> SUFFICES ASSUME Init PROVE Contract!Init
      OBVIOUS
    <2>1. \A j \in Jobs : /\ job[j].status = "absent" /\ Completions(j) = {}
                          /\ NextGeneration(j) = 0
      <3>1. \A j \in Jobs : RowsOf(j) = {}
        BY DEF Init, StoreInit, RowsOf, RowIds
      <3> QED
        BY <3>1, FS_EmptySet DEF Init, StoreInit, Completions, NextGeneration
    <2>2. runs = [j \in Jobs |-> 0]
      BY DEF Init, StoreInit
    <2> QED
      BY <2>1, <2>2, Phases DEF Contract!Init
  <1>2. RunsInv /\ [Next]_vars => [Contract!Next]_(Contract!vars)
    BY StepKeepsContract
  <1> QED
    BY <1>1, <1>2, RunsInvHolds, PTL DEF Spec, ImplementsContract, Contract!Spec

-----------------------------------------------------------------------------
(* Attempts *)

(* A claim is the attempt its token numbers. *)
ClaimsSound ==
  \A d \in Dispatchers : \A k \in DOMAIN disp[d].claims :
    disp[d].claims[k].attempts = disp[d].claims[k].token

(* A leased row carries the token of its last attempt. *)
RowsSound ==
  \A i \in RowIds :
    /\ outbox[i].attempts <= MaxDispatchAttempts
    /\ outbox[i].status = "failed" => outbox[i].attempts = MaxDispatchAttempts
    /\ outbox[i].status = "leased" => outbox[i].token = outbox[i].attempts

(* Every claim a dispatcher has after a step it had before, or made in it. *)
LEMMA ClaimsStep ==
  ASSUME IndInv, [Next]_vars, NEW e \in Dispatchers, NEW k \in DOMAIN disp'[e].claims
  PROVE  \/ \E m \in DOMAIN disp[e].claims : disp'[e].claims[k] = disp[e].claims[m]
         \/ \E i \in RowIds : disp'[e].claims[k] = ClaimOf(i)
  <1>1. DispatcherTypeOK /\ StoreTypeOK
    BY DEF IndInv, TypeOK
  <1>2. CASE disp'[e].claims = disp[e].claims
    BY <1>2
  <1>3. CASE UNCHANGED disp
    BY <1>2, <1>3
  <1>4. ASSUME NEW d \in Dispatchers, NEW step, GoTo(d, step)
        PROVE  disp'[e].claims = disp[e].claims
    BY <1>1, <1>4 DEF GoTo, DispatcherTypeOK
  <1>5. ASSUME NEW d \in Dispatchers, EndPass(d)
        PROVE  disp'[e].claims = disp[e].claims
    <2>1. CASE e = d
      BY <1>1, <1>5, <2>1 DEF EndPass, DispatcherTypeOK
    <2>2. CASE e # d
      BY <1>1, <1>5, <2>2 DEF EndPass, DispatcherTypeOK
    <2> QED
      BY <2>1, <2>2
  <1>6. ASSUME NEW d \in Dispatchers, disp[d].pc \in RowSteps, NextRow(d)
        PROVE  \E m \in DOMAIN disp[e].claims : disp'[e].claims[k] = disp[e].claims[m]
    <2>1. CASE e = d
      <3> DEFINE old == disp[d].claims
      <3>1. old \in Seq(ClaimRecord) /\ Len(old) \in Nat \ {0}
        BY <1>1, <1>6, CurrentTyped DEF DispatcherTypeOK
      <3>2. disp'[e].claims = Tail(old)
        BY <1>1, <1>6, <2>1 DEF NextRow, DispatcherTypeOK
      <3>3. k \in 1 .. Len(old) - 1 /\ Tail(old)[k] = old[k + 1]
        BY <3>1, <3>2
      <3>4. k + 1 \in DOMAIN old
        BY <3>1, <3>3
      <3> QED
        BY <2>1, <3>2, <3>3, <3>4
    <2>2. CASE e # d
      BY <1>1, <1>6, <2>2 DEF NextRow, DispatcherTypeOK
    <2> QED
      BY <2>1, <2>2
  <1>7. ASSUME NEW d \in Dispatchers, ClaimBatch(d)
        PROVE  \/ disp'[e].claims = disp[e].claims
               \/ \E i \in RowIds : disp'[e].claims[k] = ClaimOf(i)
    <2> DEFINE S == Oldest({i \in RowIds : Claimable(i)})
    <2>1. PICK q \in InOrder(S) :
            disp' = [disp EXCEPT ![d] =
                       [pc |-> IF S = {} THEN "sweep" ELSE "enqueue",
                        claims |-> [m \in DOMAIN q |-> ClaimOf(q[m])]]]
      BY <1>7 DEF ClaimBatch
    <2>2. \A m \in DOMAIN q : q[m] \in RowIds
      BY DEF InOrder, Oldest
    <2> HIDE DEF S
    <2>3. CASE e = d
      <3>1. disp'[e].claims = [m \in DOMAIN q |-> ClaimOf(q[m])]
        BY <1>1, <2>1, <2>3 DEF DispatcherTypeOK
      <3> QED
        BY <2>2, <3>1
    <2>4. CASE e # d
      BY <1>1, <2>1, <2>4 DEF DispatcherTypeOK
    <2> QED
      BY <2>3, <2>4
  <1>8. ASSUME NEW d \in Dispatchers, ScheduledPassStep(d)
        PROVE  \/ \E m \in DOMAIN disp[e].claims : disp'[e].claims[k] = disp[e].claims[m]
               \/ \E i \in RowIds : disp'[e].claims[k] = ClaimOf(i)
    <2>1. \/ \E step : GoTo(d, step)
          \/ EndPass(d)
          \/ disp[d].pc \in RowSteps /\ NextRow(d)
          \/ ClaimBatch(d)
      BY <1>8
      DEF ScheduledPassStep, PassProgress, PassFault, Sweep, Reclaim, Enqueue, RecordDispatched,
          RecordFailure, SweepFails, ReclaimFails, ClaimFails, EnqueueFails,
          RecordDispatchedFails, RecordFailureFails, DispatcherCrash, At, RowSteps
    <2> QED
      BY <1>2, <1>4, <1>5, <1>6, <1>7, <2>1
  <1>9. CASE ~ \E d \in Dispatchers : ScheduledPassStep(d)
    BY <1>3, <1>9 DEF Next, DeliveryOf, Decision, Tick, vars
  <1> QED
    BY <1>8, <1>9

(* A claim spends one attempt of a row that has one. *)
LEMMA SpentKept ==
  ASSUME IndInv, ClaimsSound, RowsSound, [Next]_vars
  PROVE  ClaimsSound' /\ RowsSound'
  <1>1. StoreTypeOK /\ DispatcherTypeOK
    BY DEF IndInv, TypeOK
  <1>2. ClaimsSound'
    <2> SUFFICES ASSUME NEW e \in Dispatchers, NEW k \in DOMAIN disp'[e].claims
                 PROVE  disp'[e].claims[k].attempts = disp'[e].claims[k].token
      BY DEF ClaimsSound
    <2>1. CASE \E m \in DOMAIN disp[e].claims : disp'[e].claims[k] = disp[e].claims[m]
      BY <2>1 DEF ClaimsSound
    <2>2. ASSUME NEW i \in RowIds, disp'[e].claims[k] = ClaimOf(i)
          PROVE  disp'[e].claims[k].attempts = disp'[e].claims[k].token
      BY <2>2 DEF ClaimOf
    <2> QED
      BY <2>1, <2>2, ClaimsStep
  <1>3. CASE InPlace
    <2> SUFFICES ASSUME NEW i \in RowIds
                 PROVE  /\ outbox'[i].attempts <= MaxDispatchAttempts
                        /\ outbox'[i].status = "failed" =>
                             outbox'[i].attempts = MaxDispatchAttempts
                        /\ outbox'[i].status = "leased" => outbox'[i].token = outbox'[i].attempts
      BY <1>2, <1>3 DEF InPlace, RowsSound
    <2>1. outbox[i] \in OutboxRow /\ RowStep(i)
      BY <1>1, <1>3, RowsTyped DEF InPlace
    <2>2. /\ outbox[i].attempts <= MaxDispatchAttempts
          /\ outbox[i].status = "failed" => outbox[i].attempts = MaxDispatchAttempts
          /\ outbox[i].status = "leased" => outbox[i].token = outbox[i].attempts
          /\ outbox[i].attempts \in Nat
      BY <2>1 DEF RowsSound, OutboxRow
    <2>3. CASE \/ outbox'[i] = outbox[i]
               \/ \E l \in Lease : outbox'[i] = [outbox[i] EXCEPT !.lease = l]
      BY <2>1, <2>2, <2>3 DEF OutboxRow
    <2>4. CASE Claimable(i) /\ outbox'[i] = Leased(outbox[i])
      <3>1. /\ outbox'[i].attempts = outbox[i].attempts + 1
            /\ outbox'[i].token = outbox[i].attempts + 1
            /\ outbox'[i].status = "leased"
        BY <2>1, <2>4 DEF Leased, OutboxRow
      <3> QED
        BY <2>2, <2>4, <3>1, AttemptsAssumption DEF Claimable, HasAttempts
    <2>5. CASE Stranded(i) /\ outbox'[i] = Finished(outbox[i], "failed")
      <3>1. outbox'[i].attempts = outbox[i].attempts /\ outbox'[i].status = "failed"
        BY <2>1, <2>5 DEF Finished, OutboxRow
      <3> QED
        BY <2>2, <2>5, <3>1, AttemptsAssumption DEF Stranded, HasAttempts
    <2>6. ASSUME NEW d \in Dispatchers, At(d, "fail"), HeldRow(d, i),
                 Current(d).attempts >= MaxDispatchAttempts,
                 outbox'[i] = Finished(outbox[i], "failed")
          PROVE  /\ outbox'[i].attempts = MaxDispatchAttempts
                 /\ outbox'[i].status = "failed"
      <3>1. outbox'[i].attempts = outbox[i].attempts /\ outbox'[i].status = "failed"
        BY <2>1, <2>6 DEF Finished, OutboxRow
      <3>2. Current(d).attempts = Current(d).token
        <4>1. Len(disp[d].claims) \in Nat \ {0} /\ disp[d].claims \in Seq(ClaimRecord)
          BY <1>1, <2>6, CurrentTyped DEF At, RowSteps, DispatcherTypeOK
        <4>2. 1 \in DOMAIN disp[d].claims /\ Current(d) = disp[d].claims[1]
          BY <4>1 DEF Current
        <4> QED
          BY <4>2 DEF ClaimsSound
      <3>3. outbox[i].attempts = Current(d).attempts
        BY <2>2, <2>6, <3>2 DEF HeldRow, HeldBy
      <3> QED
        BY <2>2, <2>6, <3>1, <3>3, AttemptsAssumption
    <2>7. CASE \E d \in Dispatchers : outbox'[i] = Finished(outbox[i], "dispatched")
      <3>1. outbox'[i].attempts = outbox[i].attempts /\ outbox'[i].status = "dispatched"
        BY <2>1, <2>7 DEF Finished, OutboxRow
      <3> QED
        BY <2>2, <3>1
    <2> QED
      BY <2>1, <2>3, <2>4, <2>5, <2>6, <2>7, AttemptsAssumption DEF RowStep
  <1>4. ASSUME NEW j \in Jobs, NEW g \in Generations, EnqueueRow(j, g)
        PROVE  RowsSound'
    <2>1. PICK n : n = Len(outbox) + 1
      OBVIOUS
    <2>2. /\ RowIds' = RowIds \union {n}
          /\ \A i \in RowIds : outbox'[i] = outbox[i]
          /\ outbox'[n] = NewRow(j, g)
      BY <1>1, <1>4, <2>1, RowAdded
    <2>3. outbox'[n].attempts = 0 /\ outbox'[n].status = "pending"
      BY <2>2 DEF NewRow
    <2> QED
      BY <2>2, <2>3, AttemptsAssumption DEF RowsSound
  <1> QED
    BY <1>2, <1>3, <1>4, RowsOnlyStep DEF Requested

(* A row is written off only when every attempt was spent, and no stale    *)
(* write makes it spend more than there are.                               *)
THEOREM AttemptsSpent == Spec => []WrittenOffIsSpent
  <1>1. Init => ClaimsSound /\ RowsSound
    BY DEF Init, StoreInit, DispatcherInit, ClaimsSound, RowsSound, RowIds
  <1>2. IndInv /\ ClaimsSound /\ RowsSound /\ [Next]_vars => ClaimsSound' /\ RowsSound'
    BY SpentKept
  <1>3. RowsSound => WrittenOffIsSpent
    BY DEF RowsSound, WrittenOffIsSpent
  <1> QED
    BY <1>1, <1>2, <1>3, IndInvHolds, PTL DEF Spec

-----------------------------------------------------------------------------
(* Generations *)

(* A job's rows are of generations it has counted. *)
GenerationsCounted == \A j \in Jobs : \A i \in RowsOf(j) : outbox[i].gen < NextGeneration(j)

(* A request adds the row of the next generation, and counts it. *)
LEMMA GenerationsKept ==
  ASSUME IndInv, GenerationsCounted, [Next]_vars
  PROVE  GenerationsCounted'
  <1>1. StoreTypeOK /\ \A j \in Jobs : NextGeneration(j) \in Nat
    BY RowCount DEF IndInv, TypeOK
  <1>2. \A i \in RowIds : outbox[i].gen \in Nat
    BY <1>1, RowsTyped DEF OutboxRow
  <1>3. CASE InPlace
    <2> SUFFICES ASSUME NEW j \in Jobs, NEW i \in RowsOf(j)'
                 PROVE  outbox'[i].gen < NextGeneration(j)'
      BY DEF GenerationsCounted
    <2>1. RowsOf(j)' = RowsOf(j) /\ NextGeneration(j)' = NextGeneration(j)
      BY <1>1, <1>3, RowsInPlace DEF NextGeneration
    <2>2. outbox'[i].gen = outbox[i].gen
      BY <1>1, <1>3, <2>1, RowKeeps DEF RowsOf
    <2> QED
      BY <2>1, <2>2 DEF GenerationsCounted
  <1>4. ASSUME NEW j \in Jobs, NEW g \in Generations, Requested(j, g)
        PROVE  GenerationsCounted'
    <2>1. PICK n : n = Len(outbox) + 1
      OBVIOUS
    <2>2. /\ \A i \in RowIds : outbox'[i] = outbox[i]
          /\ outbox'[n].gen = g
      BY <1>1, <1>4, <2>1, RowAdded DEF Requested
    <2>3. /\ NextGeneration(j)' = NextGeneration(j) + 1
          /\ RowsOf(j)' = RowsOf(j) \union {n}
          /\ \A k \in Jobs \ {j} : /\ RowsOf(k)' = RowsOf(k)
                                   /\ NextGeneration(k)' = NextGeneration(k)
      BY <1>1, <1>4, <2>1, RowsRequested DEF Requested, NextGeneration
    <2>4. g <= NextGeneration(j) /\ g \in Nat
      BY <1>1, <1>4 DEF Requested, Generations
    <2> SUFFICES ASSUME NEW k \in Jobs, NEW i \in RowsOf(k)'
                 PROVE  outbox'[i].gen < NextGeneration(k)'
      BY DEF GenerationsCounted
    <2>5. CASE i \in RowsOf(k)
      <3>1. i \in RowIds /\ outbox[i].gen < NextGeneration(k)
        BY <2>5 DEF GenerationsCounted, RowsOf
      <3>2. NextGeneration(k)' = NextGeneration(k) \/ NextGeneration(k)' = NextGeneration(k) + 1
        BY <2>3
      <3>3. outbox'[i].gen = outbox[i].gen
        BY <2>2, <3>1
      <3> QED
        BY <1>1, <1>2, <3>1, <3>2, <3>3
    <2>6. CASE i \notin RowsOf(k)
      <3>1. k = j /\ i = n
        BY <2>3, <2>6
      <3> QED
        BY <1>1, <2>2, <2>3, <2>4, <3>1
    <2> QED
      BY <2>5, <2>6
  <1> QED
    BY <1>3, <1>4, RowsOnlyStep

(* The name a re-drive would use is free: uq_outbox_task_name never        *)
(* refuses one.                                                            *)
THEOREM RedriveNameFree == Spec => []RedriveNotRefused
  <1>1. Init => GenerationsCounted
    BY DEF Init, StoreInit, GenerationsCounted, RowIds, RowsOf
  <1>2. IndInv /\ GenerationsCounted /\ [Next]_vars => GenerationsCounted'
    BY GenerationsKept
  <1>3. IndInv /\ GenerationsCounted => RedriveNotRefused
    <2> SUFFICES ASSUME IndInv, GenerationsCounted, NEW j \in Jobs,
                        NameTaken(TaskName(j, NextGeneration(j)))
                 PROVE  FALSE
      BY DEF RedriveNotRefused
    <2>1. StoreTypeOK
      BY DEF IndInv, TypeOK
    <2>2. PICK i \in RowIds : outbox[i].job = j /\ outbox[i].gen = NextGeneration(j)
      BY DEF NameTaken, TaskName
    <2>3. i \in RowsOf(j) /\ NextGeneration(j) \in Nat
      BY <2>1, <2>2, RowCount DEF RowsOf
    <2> QED
      BY <2>2, <2>3 DEF GenerationsCounted
  <1> QED
    BY <1>1, <1>2, <1>3, IndInvHolds, PTL DEF Spec

-----------------------------------------------------------------------------
(* Leases *)

(* A dispatcher's step moves no other dispatcher. *)
LEMMA PassIsItsOwn ==
  ASSUME DispatcherTypeOK, NEW d \in Dispatchers, NEW e \in Dispatchers, ScheduledPassStep(e),
         disp'[d] # disp[d]
  PROVE  d = e
  <1>1. ASSUME NEW step, GoTo(e, step) PROVE d = e
    BY <1>1 DEF GoTo, DispatcherTypeOK
  <1>2. ASSUME EndPass(e) \/ NextRow(e) PROVE d = e
    BY <1>2 DEF EndPass, NextRow, DispatcherTypeOK
  <1>3. ASSUME NEW v, disp' = [disp EXCEPT ![e] = v] PROVE d = e
    BY <1>3 DEF DispatcherTypeOK
  <1>4. ASSUME ClaimBatch(e) PROVE d = e
    BY <1>3, <1>4 DEF ClaimBatch
  <1> QED
    BY <1>1, <1>2, <1>4
    DEF ScheduledPassStep, PassProgress, PassFault, Sweep, Reclaim, Enqueue, RecordDispatched,
        RecordFailure, SweepFails, ReclaimFails, ClaimFails, EnqueueFails,
        RecordDispatchedFails, RecordFailureFails, DispatcherCrash

(* While a lease runs, only the dispatcher whose claim minted the row's    *)
(* token writes to the row (J17).                                          *)
THEOREM LeaseRespected == Spec => LiveLeaseRespected
  <1> DEFINE Respected ==
        \A d \in Dispatchers, i \in RowIds :
          /\ outbox[i].status = "leased"
          /\ outbox[i].lease = "live"
          /\ disp'[d] # disp[d]
          /\ outbox'[i] # outbox[i]
          => Holds(d, i)
  <1>1. IndInv /\ [Next]_vars => [Respected]_vars
    <2> SUFFICES ASSUME IndInv, Next, NEW d \in Dispatchers, NEW i \in RowIds,
                        outbox[i].status = "leased", outbox[i].lease = "live",
                        disp'[d] # disp[d], outbox'[i] # outbox[i]
                 PROVE  Holds(d, i)
      OBVIOUS
    <2>1. StoreTypeOK /\ DispatcherTypeOK
      BY DEF IndInv, TypeOK
    <2>2. ScheduledPassStep(d)
      <3>1. PICK e \in Dispatchers : ScheduledPassStep(e)
        BY DEF Next, DeliveryOf, Decision, Tick
      <3> QED
        BY <2>1, <3>1, PassIsItsOwn
    <2>3. ~Claimable(i) /\ ~Stranded(i)
      BY DEF Claimable, Stranded, LeaseOver
    <2>4. ~Reclaim(d)
      <3> DEFINE S == Oldest({k \in RowIds : Stranded(k)})
      <3>1. i \notin S
        BY <2>3 DEF Oldest
      <3>2. ASSUME Reclaim(d)
            PROVE  outbox' = [k \in RowIds |->
                                IF k \in S THEN Finished(outbox[k], "failed") ELSE outbox[k]]
        BY <3>2 DEF Reclaim
      <3> HIDE DEF S
      <3> QED
        BY <3>1, <3>2
    <2>5. ~ClaimBatch(d)
      <3> DEFINE S == Oldest({k \in RowIds : Claimable(k)})
      <3>1. i \notin S
        BY <2>3 DEF Oldest
      <3>2. ASSUME ClaimBatch(d)
            PROVE  outbox' = [k \in RowIds |-> IF k \in S THEN Leased(outbox[k]) ELSE outbox[k]]
        BY <3>2 DEF ClaimBatch
      <3> HIDE DEF S
      <3> QED
        BY <3>1, <3>2
    <2>6. (At(d, "record") /\ MarkDispatched(d)) \/ (At(d, "fail") /\ MarkFailed(d))
      BY <2>2, <2>4, <2>5
      DEF ScheduledPassStep, PassProgress, PassFault, Sweep, Enqueue, RecordDispatched,
          RecordFailure, SweepFails, ReclaimFails, ClaimFails, EnqueueFails,
          RecordDispatchedFails, RecordFailureFails, DispatcherCrash
    <2>7. Current(d).row \in RowIds /\ 1 \in DOMAIN disp[d].claims
          /\ Current(d) = disp[d].claims[1]
      <3>1. Len(disp[d].claims) \in Nat \ {0} /\ disp[d].claims \in Seq(ClaimRecord)
        BY <2>1, <2>6, CurrentTyped DEF At, RowSteps, DispatcherTypeOK
      <3> QED
        BY <2>1, <2>6, <3>1, CurrentTyped DEF At, RowSteps, Current
    <2>8. HeldBy(Current(d)) /\ \E r : outbox' = [outbox EXCEPT ![Current(d).row] = r]
      <3>1. HeldBy(Current(d))
        BY <2>6 DEF MarkDispatched, MarkFailed
      <3> DEFINE c == Current(d)
      <3>2. \/ outbox' = [outbox EXCEPT ![c.row] = Finished(outbox[c.row], "dispatched")]
            \/ outbox' = [outbox EXCEPT ![c.row] = Finished(outbox[c.row], "failed")]
            \/ outbox' = [outbox EXCEPT ![c.row] = [outbox[c.row] EXCEPT !.lease = "live"]]
        BY <2>6, <3>1 DEF MarkDispatched, MarkFailed
      <3> HIDE DEF c
      <3>3. \E r : outbox' = [outbox EXCEPT ![c.row] = r]
        BY <3>2
      <3> QED
        BY <3>1, <3>3 DEF c
    <2>9. i = Current(d).row
      BY <2>1, <2>7, <2>8, OneRow
    <2> QED
      BY <2>7, <2>8, <2>9 DEF Holds, HeldBy
  <1> QED
    BY <1>1, IndInvHolds, PTL DEF Spec, LiveLeaseRespected

-----------------------------------------------------------------------------
(* Tasks *)

NameOf(i) == TaskName(outbox[i].job, outbox[i].gen)

(* Nobody will send the task of that name again. *)
Settled(n) == \A i \in RowIds : NameOf(i) = n => ~Live(i)

TasksInv ==
  /\ \A i \in RowIds : NameOf(i) \in TaskNames
  /\ \A n \in TaskNames : task[n] # "none" => NameTaken(n)
  /\ \A n \in TaskNames : task[n] = "gone" => Settled(n)
  /\ \A i \in RowIds : outbox[i].status = "dispatched" => task[NameOf(i)] # "none"
  /\ \A d \in Dispatchers : At(d, "record") => task[NameOf(Current(d).row)] # "none"
  /\ \A w \in Workers : ~On(w, "idle") => NameTaken(worker[w].task)
  /\ \A w \in Workers :
       worker[w].pc \in {"claimed", "working", "ack"} => Settled(worker[w].task)

(* A name in use stays in use, and a settled one stays settled. *)
LEMMA NamesStay ==
  ASSUME IndInv, [Next]_vars, NEW n, NameTaken(n)
  PROVE  NameTaken(n)' /\ (Settled(n) => Settled(n)')
  <1>1. StoreTypeOK
    BY DEF IndInv, TypeOK
  <1>2. CASE InPlace
    <2>1. RowIds' = RowIds
      BY <1>2 DEF InPlace
    <2>2. \A i \in RowIds : /\ outbox'[i].job = outbox[i].job
                            /\ outbox'[i].gen = outbox[i].gen
                            /\ Live(i)' => Live(i)
      BY <1>1, <1>2, RowKeeps
    <2> QED
      BY <2>1, <2>2 DEF NameTaken, Settled, NameOf, TaskName
  <1>3. ASSUME NEW j \in Jobs, NEW g \in Generations, EnqueueRow(j, g)
        PROVE  NameTaken(n)' /\ (Settled(n) => Settled(n)')
    <2>1. PICK m : m = Len(outbox) + 1
      OBVIOUS
    <2>2. /\ RowIds' = RowIds \union {m}
          /\ \A i \in RowIds : outbox'[i] = outbox[i]
          /\ outbox'[m].job = j /\ outbox'[m].gen = g
          /\ ~NameTaken(TaskName(j, g))
      BY <1>1, <1>3, <2>1, RowAdded
    <2>3. n # TaskName(j, g)
      BY <2>2
    <2>4. \A i \in RowIds : NameOf(i)' = NameOf(i) /\ Live(i)' = Live(i)
      BY <2>2 DEF NameOf, Live
    <2>5. NameOf(m)' = TaskName(j, g)
      BY <2>2 DEF NameOf
    <2> QED
      BY <2>2, <2>3, <2>4, <2>5 DEF NameTaken, Settled, NameOf
  <1> QED
    BY <1>2, <1>3, RowsOnlyStep DEF Requested

(* Rows keep their names. *)
LEMMA NameOfKept ==
  ASSUME IndInv, [Next]_vars, NEW i \in RowIds
  PROVE  i \in RowIds' /\ NameOf(i)' = NameOf(i)
  <1>1. StoreTypeOK
    BY DEF IndInv, TypeOK
  <1>2. CASE InPlace
    BY <1>1, <1>2, RowKeeps DEF InPlace, NameOf
  <1>3. ASSUME NEW j \in Jobs, NEW g \in Generations, EnqueueRow(j, g)
        PROVE  i \in RowIds' /\ NameOf(i)' = NameOf(i)
    BY <1>1, <1>3, RowAdded DEF NameOf
  <1> QED
    BY <1>2, <1>3, RowsOnlyStep DEF Requested

(* The queue takes a task for a claimed row, and forgets an answered one. *)
LEMMA TaskStep ==
  ASSUME IndInv, [Next]_vars, NEW n \in TaskNames
  PROVE  \/ task'[n] = task[n]
         \/ /\ task[n] = "none" /\ task'[n] = "live"
            /\ \E d \in Dispatchers : At(d, "enqueue") /\ n = NameOf(Current(d).row)
         \/ /\ task'[n] = "gone"
            /\ \E w \in Workers : On(w, "ack") /\ worker[w].task = n
  <1>1. StoreTypeOK
    BY DEF IndInv, TypeOK
  <1>2. CASE UNCHANGED task
    BY <1>2
  <1>3. ASSUME NEW d \in Dispatchers, At(d, "enqueue"), Created(d)
        PROVE  \/ task'[n] = task[n]
               \/ /\ task[n] = "none" /\ task'[n] = "live"
                  /\ \E e \in Dispatchers : At(e, "enqueue") /\ n = NameOf(Current(e).row)
    <2>1. PICK m : m = NameOf(Current(d).row)
      OBVIOUS
    <2>2. task' = IF task[m] = "none" THEN [task EXCEPT ![m] = "live"] ELSE task
      BY <1>3, <2>1 DEF Created, CurrentRow, NameOf
    <2>3. CASE n = m
      BY <1>1, <1>3, <2>1, <2>2, <2>3 DEF StoreTypeOK
    <2>4. CASE n # m
      BY <1>1, <2>2, <2>4 DEF StoreTypeOK
    <2> QED
      BY <2>3, <2>4
  <1>4. ASSUME NEW d \in Dispatchers, ScheduledPassStep(d)
        PROVE  UNCHANGED task \/ (At(d, "enqueue") /\ Created(d))
    BY <1>4
    DEF ScheduledPassStep, PassProgress, PassFault, Sweep, Reclaim, ClaimBatch, Enqueue,
        RecordDispatched, RecordFailure, SweepFails, ReclaimFails, ClaimFails, EnqueueFails,
        RecordDispatchedFails, RecordFailureFails, DispatcherCrash
  <1>5. ASSUME NEW w \in Workers, Acknowledge(w)
        PROVE  \/ task'[n] = task[n]
               \/ task'[n] = "gone" /\ On(w, "ack") /\ worker[w].task = n
    BY <1>1, <1>5 DEF Acknowledge, StoreTypeOK
  <1>6. ASSUME NEW w \in Workers, DeliveryOf(w)
        PROVE  UNCHANGED task \/ Acknowledge(w)
    BY <1>6
    DEF DeliveryOf, DeliveryProgress, Deliver, ClaimJob, EarlyDelivery, DuplicateDelivery,
        Start, Progress, Finish, DeliveryFails, storeVars
  <1>7. ASSUME Tick \/ (\E j \in Jobs : Decision(j)) \/ UNCHANGED vars
        PROVE  UNCHANGED task
    BY <1>7
    DEF Tick, LeaseExpires, JobLeaseExpires, Decision, Submit, RedriveJob, AbandonJob, vars
  <1> QED
    BY <1>2, <1>3, <1>4, <1>5, <1>6, <1>7 DEF Next

(* A job past 'queued' has settled rows only. *)
LEMMA PastQueuedSettled ==
  ASSUME IndInv, NEW n \in TaskNames, job[n[1]].status # "queued"
  PROVE  Settled(n)
  <1> SUFFICES ASSUME NEW i \in RowIds, NameOf(i) = n, Live(i) PROVE FALSE
    BY DEF Settled
  <1>1. outbox[i].job = n[1]
    BY DEF NameOf, TaskName
  <1> QED
    BY <1>1 DEF IndInv, OutboxCarriesQueue, LiveRowIsQueued

(* What a step does to a worker. *)
LEMMA WorkersStep ==
  ASSUME IndInv, [Next]_vars, NEW w \in Workers
  PROVE  \/ worker'[w].pc = "idle"
         \/ worker'[w] = worker[w]
         \/ \E n \in TaskNames :
              task[n] = "live" /\ worker'[w].task = n /\ worker'[w].pc = "delivered"
         \/ /\ ~On(w, "idle") /\ worker'[w].task = worker[w].task
            /\ \/ worker'[w].pc = "refused"
               \/ job[JobOf(w)].status # "queued"
               \/ worker[w].pc \in {"claimed", "working"}
  <1>1. ExecutorTypeOK
    BY DEF IndInv, TypeOK
  <1>2. CASE UNCHANGED worker
    BY <1>2
  <1>3. ASSUME NEW v \in Workers, v # w, DeliveryOf(v)
        PROVE  worker'[w] = worker[w]
    BY <1>1, <1>3
    DEF DeliveryOf, DeliveryProgress, Deliver, ClaimJob, EarlyDelivery, DuplicateDelivery,
        Start, Progress, Finish, Acknowledge, DeliveryFails, storeVars, Step, ExecutorTypeOK
  <1>4. CASE \E n \in TaskNames : Deliver(w, n)
    BY <1>1, <1>4 DEF Deliver, ExecutorTypeOK
  <1>5. CASE ClaimJob(w)
    <2>1. CASE job[JobOf(w)].status = "dispatched"
      <3>1. worker' = [worker EXCEPT ![w] =
                         [pc |-> "claimed", task |-> worker[w].task, run |-> runs[JobOf(w)] + 1]]
        BY <1>1, <1>5, <2>1 DEF ClaimJob, ExecutorTypeOK
      <3> QED
        BY <1>1, <1>5, <2>1, <3>1 DEF ClaimJob, On, ExecutorTypeOK
    <2>2. CASE job[JobOf(w)].status # "dispatched"
      BY <1>1, <1>5, <2>2 DEF ClaimJob, On, Step, ExecutorTypeOK
    <2> QED
      BY <2>1, <2>2
  <1>6. CASE EarlyDelivery(w) \/ Acknowledge(w) \/ DeliveryFails(w)
    BY <1>1, <1>6 DEF EarlyDelivery, Acknowledge, DeliveryFails, ExecutorTypeOK, Idle
  <1>7. CASE DuplicateDelivery(w)
    BY <1>1, <1>7 DEF DuplicateDelivery, On, Step, ExecutorTypeOK
  <1>8. CASE Start(w)
    BY <1>1, <1>8 DEF Start, On, Step, ExecutorTypeOK
  <1>9. CASE Progress(w)
    BY <1>2, <1>9 DEF Progress
  <1>10. CASE \E state \in ResultState \union FailureState : Finish(w, state)
    BY <1>1, <1>10 DEF Finish, On, Step, ExecutorTypeOK
  <1>11. CASE DeliveryOf(w)
    BY <1>4, <1>5, <1>6, <1>7, <1>8, <1>9, <1>10, <1>11 DEF DeliveryOf, DeliveryProgress
  <1>12. CASE ~ \E v \in Workers : DeliveryOf(v)
    BY <1>2, <1>12 DEF Next, ScheduledPassStep, Decision, Tick, vars
  <1> QED
    BY <1>3, <1>11, <1>12

(* A dispatcher about to record has just had its task accepted. *)
LEMMA RecordStep ==
  ASSUME IndInv, [Next]_vars, NEW d \in Dispatchers, disp'[d].pc = "record"
  PROVE  \/ disp'[d] = disp[d]
         \/ /\ At(d, "enqueue") /\ Created(d)
            /\ disp'[d].claims = disp[d].claims
  <1>1. DispatcherTypeOK
    BY DEF IndInv, TypeOK
  <1>2. CASE ScheduledPassStep(d)
    <2>1. ASSUME NEW step, GoTo(d, step)
          PROVE  step = "record" /\ disp'[d].claims = disp[d].claims
      BY <1>1, <2>1 DEF GoTo, DispatcherTypeOK
    <2>2. ~EndPass(d) /\ ~NextRow(d)
      BY <1>1 DEF EndPass, NextRow, DispatcherTypeOK
    <2>3. ~ClaimBatch(d)
      <3> SUFFICES ASSUME ClaimBatch(d) PROVE FALSE
        OBVIOUS
      <3> DEFINE S == Oldest({i \in RowIds : Claimable(i)})
                 New(q) == [pc |-> IF S = {} THEN "sweep" ELSE "enqueue",
                            claims |-> [k \in DOMAIN q |-> ClaimOf(q[k])]]
      <3>1. PICK q : disp' = [disp EXCEPT ![d] = New(q)]
        BY DEF ClaimBatch
      <3>2. disp'[d] = New(q)
        BY <1>1, <3>1 DEF DispatcherTypeOK
      <3>3. New(q).pc \in {"sweep", "enqueue"}
        OBVIOUS
      <3> HIDE DEF New
      <3> QED
        BY <3>2, <3>3
    <2>4. CASE Enqueue(d)
      BY <2>1, <2>4 DEF Enqueue
    <2>5. ~ \E step \in PassStep \ {"record"} : GoTo(d, step)
      BY <2>1
    <2> QED
      BY <1>2, <2>2, <2>3, <2>4, <2>5
      DEF ScheduledPassStep, PassProgress, PassFault, Sweep, Reclaim, RecordDispatched,
          RecordFailure, SweepFails, ReclaimFails, ClaimFails, EnqueueFails,
          RecordDispatchedFails, RecordFailureFails, DispatcherCrash, PassStep
  <1>3. ASSUME NEW e \in Dispatchers, ScheduledPassStep(e), disp'[d] # disp[d]
        PROVE  d = e
    BY <1>1, <1>3, PassIsItsOwn
  <1>4. CASE ~ \E e \in Dispatchers : ScheduledPassStep(e)
    BY <1>4 DEF Next, DeliveryOf, Decision, Tick, vars
  <1> QED
    BY <1>2, <1>3, <1>4

(* No interleaving lets a task be forgotten before its row is settled, or  *)
(* a row leave the outbox without a task.                                  *)
LEMMA TasksKept ==
  ASSUME IndInv, TasksInv, [Next]_vars
  PROVE  TasksInv'
  <1>1. /\ StoreTypeOK /\ DispatcherTypeOK /\ ExecutorTypeOK
        /\ StoreTypeOK' /\ DispatcherTypeOK' /\ ExecutorTypeOK'
    BY NextIndInv DEF IndInv, TypeOK
  <1>2. \A i \in RowIds : i \in RowIds' /\ NameOf(i)' = NameOf(i)
    BY NameOfKept
  <1>3. \A n : NameTaken(n) => NameTaken(n)' /\ (Settled(n) => Settled(n)')
    BY NamesStay
  <1>4. \A n \in TaskNames : task[n] # "none" => task'[n] # "none"
    BY TaskStep
  <1>5. \A d \in Dispatchers : disp[d].pc \in RowSteps => Current(d).row \in RowIds
    BY <1>1, CurrentTyped
  <1>6. \A i \in RowIds' : NameOf(i)' \in TaskNames
    <2>1. CASE InPlace
      BY <1>2, <2>1 DEF InPlace, TasksInv
    <2>2. ASSUME NEW j \in Jobs, NEW g \in Generations, EnqueueRow(j, g)
          PROVE  \A i \in RowIds' : NameOf(i)' \in TaskNames
      <3>1. PICK m : m = Len(outbox) + 1
        OBVIOUS
      <3>2. /\ RowIds' = RowIds \union {m}
            /\ outbox'[m].job = j /\ outbox'[m].gen = g
        BY <1>1, <2>2, <3>1, RowAdded
      <3>3. NameOf(m)' \in TaskNames
        BY <3>2 DEF NameOf, TaskName, TaskNames
      <3> QED
        BY <1>2, <3>2, <3>3 DEF TasksInv
    <2> QED
      BY <2>1, <2>2, RowsOnlyStep DEF Requested
  <1>7. \A i \in RowIds : NameTaken(NameOf(i))
    BY DEF NameTaken, NameOf
  <1>8. ASSUME NEW n \in TaskNames, task'[n] # "none"
        PROVE  NameTaken(n)'
    <2>1. CASE task[n] # "none"
      BY <1>3, <2>1 DEF TasksInv
    <2>2. CASE task[n] = "none"
      <3>1. \/ \E d \in Dispatchers : At(d, "enqueue") /\ n = NameOf(Current(d).row)
            \/ \E w \in Workers : On(w, "ack") /\ worker[w].task = n
        BY <1>8, <2>2, TaskStep
      <3>2. NameTaken(n)
        BY <1>5, <1>7, <3>1 DEF At, RowSteps, On, TasksInv
      <3> QED
        BY <1>3, <3>2
    <2> QED
      BY <2>1, <2>2
  <1>9. ASSUME NEW n \in TaskNames, task'[n] = "gone"
        PROVE  Settled(n)'
    <2>1. CASE task[n] = "gone"
      BY <1>3, <2>1 DEF TasksInv
    <2>2. CASE task[n] # "gone"
      <3>1. PICK w \in Workers : On(w, "ack") /\ worker[w].task = n
        BY <1>9, <2>2, TaskStep
      <3>2. NameTaken(n) /\ Settled(n)
        BY <3>1 DEF On, TasksInv
      <3> QED
        BY <1>3, <3>2
    <2> QED
      BY <2>1, <2>2
  <1>10. ASSUME NEW i \in RowIds', outbox'[i].status = "dispatched"
         PROVE  task'[NameOf(i)'] # "none"
    <2>1. CASE InPlace
      <3>1. i \in RowIds /\ RowStep(i) /\ outbox[i] \in OutboxRow
        BY <1>1, <2>1, RowsTyped DEF InPlace
      <3>2. \/ outbox[i].status = "dispatched"
            \/ \E d \in Dispatchers : At(d, "record") /\ HeldRow(d, i)
        BY <1>10, <3>1 DEF RowStep, Leased, Finished, OutboxRow
      <3>3. task[NameOf(i)] # "none" /\ NameOf(i) \in TaskNames
        BY <3>1, <3>2 DEF HeldRow, TasksInv
      <3> QED
        BY <1>2, <1>4, <3>1, <3>3
    <2>2. ASSUME NEW j \in Jobs, NEW g \in Generations, EnqueueRow(j, g)
          PROVE  task'[NameOf(i)'] # "none"
      <3>1. PICK m : m = Len(outbox) + 1
        OBVIOUS
      <3>2. /\ RowIds' = RowIds \union {m}
            /\ \A k \in RowIds : outbox'[k] = outbox[k]
            /\ outbox'[m] = NewRow(j, g)
        BY <1>1, <2>2, <3>1, RowAdded
      <3>3. outbox'[m].status # "dispatched"
        BY <3>2 DEF NewRow
      <3>4. i \in RowIds /\ outbox[i].status = "dispatched"
        BY <1>10, <3>2, <3>3
      <3> QED
        BY <1>2, <1>4, <3>4 DEF TasksInv
    <2> QED
      BY <2>1, <2>2, RowsOnlyStep DEF Requested
  <1>11. ASSUME NEW d \in Dispatchers, disp'[d].pc = "record"
         PROVE  task'[NameOf(Current(d).row)'] # "none"
    <2>1. PICK i : i = Current(d).row
      OBVIOUS
    <2>2. /\ disp[d].pc \in RowSteps
          /\ disp'[d].claims = disp[d].claims
          /\ task'[NameOf(i)] # "none"
      <3>1. CASE disp'[d] = disp[d]
        <4>1. At(d, "record") /\ disp[d].pc \in RowSteps
          BY <1>11, <3>1 DEF At, RowSteps
        <4>2. i \in RowIds
          BY <1>5, <2>1, <4>1
        <4>3. task[NameOf(i)] # "none" /\ NameOf(i) \in TaskNames
          BY <2>1, <4>1, <4>2 DEF TasksInv
        <4> QED
          BY <1>4, <3>1, <4>1, <4>3
      <3>2. CASE At(d, "enqueue") /\ Created(d) /\ disp'[d].claims = disp[d].claims
        <4>1. disp[d].pc \in RowSteps
          BY <3>2 DEF At, RowSteps
        <4>2. i \in RowIds
          BY <1>5, <2>1, <4>1
        <4>3. NameOf(i) \in TaskNames
          BY <4>2 DEF TasksInv
        <4>4. task' = IF task[NameOf(i)] = "none" THEN [task EXCEPT ![NameOf(i)] = "live"] ELSE task
          BY <2>1, <3>2 DEF Created, CurrentRow, NameOf
        <4>5. task'[NameOf(i)] # "none"
          BY <1>1, <4>3, <4>4 DEF StoreTypeOK
        <4> QED
          BY <3>2, <4>1, <4>5
      <3> QED
        BY <1>11, <3>1, <3>2, RecordStep
    <2>3. Current(d)' = Current(d)
      BY <2>2 DEF Current
    <2>4. Current(d).row' = i
      BY <2>1, <2>3
    <2>5. i \in RowIds /\ NameOf(i)' = NameOf(i)
      BY <1>2, <1>5, <2>1, <2>2
    <2>6. NameOf(Current(d).row)' = NameOf(i)'
      BY <2>4 DEF NameOf
    <2> QED
      BY <2>2, <2>5, <2>6
  <1>12. ASSUME NEW w \in Workers, worker'[w].pc # "idle", NEW n, n = worker'[w].task
         PROVE  /\ NameTaken(n)'
                /\ worker'[w].pc \in {"claimed", "working", "ack"} => Settled(n)'
    <2>1. CASE worker'[w] = worker[w]
      <3>1. /\ NameTaken(n)
            /\ worker[w].pc \in {"claimed", "working", "ack"} => Settled(n)
        BY <1>12, <2>1 DEF TasksInv, On
      <3> QED
        BY <1>3, <2>1, <3>1
    <2>2. CASE \E m \in TaskNames :
                 task[m] = "live" /\ worker'[w].task = m /\ worker'[w].pc = "delivered"
      <3>1. NameTaken(n)
        BY <1>12, <2>2 DEF TasksInv
      <3> QED
        BY <1>3, <2>2, <3>1
    <2>3. CASE /\ ~On(w, "idle") /\ worker'[w].task = worker[w].task
               /\ \/ worker'[w].pc = "refused"
                  \/ job[JobOf(w)].status # "queued"
                  \/ worker[w].pc \in {"claimed", "working"}
      <3>1. n = worker[w].task /\ n \in TaskNames /\ NameTaken(n) /\ JobOf(w) = n[1]
        BY <1>1, <1>12, <2>3 DEF TasksInv, On, ExecutorTypeOK, JobOf
      <3>2. worker'[w].pc = "refused" \/ Settled(n)
        BY <2>3, <3>1, PastQueuedSettled DEF TasksInv
      <3> QED
        BY <1>3, <3>1, <3>2
    <2> QED
      BY <1>12, <2>1, <2>2, <2>3, WorkersStep
  <1> QED
    BY <1>6, <1>8, <1>9, <1>10, <1>11, <1>12 DEF TasksInv, At, On

(* A dispatched row has had a task created for it, and the row of a task   *)
(* that is gone is no longer live: no delivery that overtakes the record   *)
(* of its dispatch is lost.                                                *)
THEOREM TasksFollowRows == Spec => []TaskFollowsRow
  <1>1. Init => TasksInv
    BY DEF Init, StoreInit, DispatcherInit, ExecutorInit, TasksInv, RowIds, At, On, Idle
  <1>2. IndInv /\ TasksInv /\ [Next]_vars => TasksInv'
    BY TasksKept
  <1>3. TasksInv => TaskFollowsRow
    BY DEF TasksInv, TaskFollowsRow, Settled, NameOf
  <1> QED
    BY <1>1, <1>2, <1>3, IndInvHolds, PTL DEF Spec

-----------------------------------------------------------------------------
(* Decisions *)

Newest(j) == records[j][Len(records[j])].history

RedrivenIn(H) == {e.gen : e \in {f \in H : f.event = "redriven"}}

AbandonedIn(H) == \E e \in H : e.event = "abandoned"

(* The newest record has every decision, and an absent job has nothing. *)
DecisionsOn(j) ==
  /\ records[j] # <<>> => RedrivenIn(Newest(j)) = 1 .. NextGeneration(j) - 1
  /\ records[j] = <<>> => NextGeneration(j) <= 1
  /\ job[j].status = "abandoned" <=> records[j] # <<>> /\ AbandonedIn(Newest(j))
  /\ job[j].status = "absent" => RowsOf(j) = {} /\ records[j] = <<>>

DecisionsInv == \A j \in Jobs : DecisionsOn(j)

(* A job nobody touches keeps its decisions. *)
LEMMA Untouched ==
  ASSUME NEW j \in Jobs, DecisionsOn(j), records'[j] = records[j], RowsOf(j)' = RowsOf(j),
         job'[j].status = "abandoned" <=> job[j].status = "abandoned",
         job'[j].status = "absent" <=> job[j].status = "absent"
  PROVE  DecisionsOn(j)'
  BY DEF DecisionsOn, Newest, NextGeneration

(* The history parking writes: what was decided before, and the decision. *)
LEMMA HistoryGrows ==
  ASSUME RedriveTypeOK, NEW j \in Jobs, NEW decision \in Entry, NEW redriven \in BOOLEAN,
         Decided(j, decision, redriven), DecisionsOn(j), job[j].status # "abandoned"
  PROVE  /\ records'[j] # <<>>
         /\ \A k \in Jobs \ {j} : records'[k] = records[k]
         /\ RedrivenIn(Newest(j)') =
              (IF records[j] = <<>> THEN {} ELSE 1 .. NextGeneration(j) - 1)
                \union (IF decision.event = "redriven" THEN {decision.gen} ELSE {})
         /\ AbandonedIn(Newest(j)') <=> decision.event = "abandoned"
  <1> DEFINE parked == [event |-> "parked", gen |-> NextGeneration(j) - 1,
                        detail |-> job[j].status]
             new == [history |-> Carried(j) \union AttemptEntries(j) \union {parked, decision},
                     redriven |-> redriven]
  <1>1. records[j] \in Seq(RedriveRecord)
    BY DEF RedriveTypeOK
  <1>2. records' = [records EXCEPT ![j] = Append(@, new)]
    BY DEF Decided
  <1>3. new.history = Carried(j) \union AttemptEntries(j) \union {parked, decision}
    OBVIOUS
  <1>4. parked.event = "parked"
    OBVIOUS
  <1> HIDE DEF new, parked
  <1>5. /\ records'[j] = Append(records[j], new)
        /\ \A k \in Jobs \ {j} : records'[k] = records[k]
    BY <1>2 DEF RedriveTypeOK
  <1>6. records'[j] # <<>> /\ records'[j][Len(records'[j])] = new
    BY <1>1, <1>5
  <1>7. Newest(j)' = Carried(j) \union AttemptEntries(j) \union {parked, decision}
    BY <1>3, <1>6 DEF Newest
  <1>8. \A e \in AttemptEntries(j) : e.event = "attempt"
    BY DEF AttemptEntries
  <1>9. RedrivenIn(Carried(j)) = IF records[j] = <<>> THEN {} ELSE 1 .. NextGeneration(j) - 1
    <2>1. CASE records[j] = <<>>
      BY <2>1 DEF Carried, RedrivenIn
    <2>2. CASE records[j] # <<>>
      <3>1. Carried(j) = {e \in Newest(j) : e.event # "attempt"}
        BY <2>2 DEF Carried, Newest
      <3>2. RedrivenIn(Carried(j)) = RedrivenIn(Newest(j))
        BY <3>1 DEF RedrivenIn
      <3> QED
        BY <2>2, <3>2 DEF DecisionsOn
    <2> QED
      BY <2>1, <2>2
  <1>10. ~AbandonedIn(Carried(j))
    BY DEF Carried, AbandonedIn, DecisionsOn, Newest
  <1>11. RedrivenIn(Newest(j)') =
           RedrivenIn(Carried(j)) \union
             (IF decision.event = "redriven" THEN {decision.gen} ELSE {})
    BY <1>4, <1>7, <1>8 DEF RedrivenIn
  <1>12. AbandonedIn(Newest(j)') <=> decision.event = "abandoned"
    BY <1>4, <1>7, <1>8, <1>10 DEF AbandonedIn
  <1> QED
    BY <1>5, <1>6, <1>9, <1>11, <1>12

(* A re-drive counts the generation it writes down; an abandonment is the  *)
(* last decision of its job.                                               *)
LEMMA DecisionsInvKept ==
  ASSUME IndInv, DecisionsInv, [Next]_vars
  PROVE  DecisionsInv'
  <1>1. StoreTypeOK /\ RedriveTypeOK /\ SubmittedHasRow
    BY DEF IndInv, TypeOK
  <1>2. CASE ~ \E j \in Jobs : Decision(j)
    <2>1. WorkStep /\ UNCHANGED records
      BY <1>2, WorkOnly
    <2>2. InPlace
      BY <2>1 DEF WorkStep, Still, Sent, Began, Ended, Parked
    <2>3. \A k \in Jobs : RowsOf(k)' = RowsOf(k)
      BY <1>1, <2>2, RowsInPlace
    <2>4. ASSUME NEW k \in Jobs
          PROVE  /\ job'[k].status = "abandoned" <=> job[k].status = "abandoned"
                 /\ job'[k].status = "absent" <=> job[k].status = "absent"
      BY <2>1 DEF WorkStep, Still, Sent, Began, Ended, Parked, Others, ResultState, FailureState
    <2> QED
      BY <2>1, <2>3, <2>4, Untouched DEF DecisionsInv
  <1>3. ASSUME NEW j \in Jobs, Decision(j)
        PROVE  DecisionsInv'
    <2> DEFINE N == NextGeneration(j)
    <2>1. DecisionsOn(j) /\ N \in Nat
      BY <1>1, RowCount DEF DecisionsInv
    <2>2. CASE Submit(j)
      <3>1. /\ EnqueueRow(j, 0) /\ 0 \in Generations
            /\ job[j].status = "absent"
            /\ job' = [job EXCEPT ![j] = [status |-> "queued", lease |-> "none"]]
            /\ UNCHANGED records
        BY <2>2, GenerationAssumption DEF Submit, Generations
      <3>2. job'[j].status = "queued" /\ \A k \in Jobs \ {j} : job'[k] = job[k]
        BY <1>1, <3>1 DEF StoreTypeOK
      <3>3. /\ NextGeneration(j)' = N + 1
            /\ \A k \in Jobs \ {j} : RowsOf(k)' = RowsOf(k)
        BY <1>1, <3>1, RowsRequested
      <3>4. N = 0 /\ records[j] = <<>>
        BY <2>1, <3>1, FS_EmptySet DEF DecisionsOn, NextGeneration
      <3>5. DecisionsOn(j)'
        BY <3>1, <3>2, <3>3, <3>4 DEF DecisionsOn
      <3>6. \A k \in Jobs \ {j} : DecisionsOn(k)'
        BY <3>1, <3>2, <3>3, Untouched DEF DecisionsInv
      <3> QED
        BY <3>5, <3>6 DEF DecisionsInv
    <2>3. CASE RedriveJob(j)
      <3>1. PICK g \in Generations : g = N
        BY <2>3 DEF RedriveJob
      <3> DEFINE decision == [event |-> "redriven", gen |-> g, detail |-> "queued"]
      <3>2. /\ Parkable(j)
            /\ job' = [job EXCEPT ![j] = [status |-> "queued", lease |-> "none"]]
            /\ EnqueueRow(j, g)
            /\ Decided(j, decision, TRUE)
        BY <2>3, <3>1 DEF RedriveJob
      <3>3. job[j].status # "abandoned" /\ job[j].status # "absent"
        BY <3>2 DEF Parkable, CanTransition, TRANSITIONS, JobState
      <3>4. decision \in Entry /\ decision.event = "redriven" /\ decision.gen = g
        BY <3>1 DEF Entry, JobState, Generations
      <3> HIDE DEF decision
      <3>5. /\ records'[j] # <<>>
            /\ \A k \in Jobs \ {j} : records'[k] = records[k]
            /\ RedrivenIn(Newest(j)') = (IF records[j] = <<>> THEN {} ELSE 1 .. N - 1) \union {g}
            /\ ~AbandonedIn(Newest(j)')
        BY <1>1, <2>1, <3>2, <3>3, <3>4, HistoryGrows
      <3>6. N \in Nat \ {0} /\ (records[j] = <<>> => N = 1)
        BY <1>1, <2>1, <3>3, RowCount DEF SubmittedHasRow, DecisionsOn
      <3>7. RedrivenIn(Newest(j)') = 1 .. N
        <4> HIDE DEF N
        <4> QED
          BY <3>1, <3>5, <3>6
      <3>8. /\ NextGeneration(j)' = N + 1
            /\ \A k \in Jobs \ {j} : RowsOf(k)' = RowsOf(k)
        BY <1>1, <3>2, RowsRequested
      <3>9. job'[j].status = "queued" /\ \A k \in Jobs \ {j} : job'[k] = job[k]
        BY <1>1, <3>2 DEF StoreTypeOK
      <3>10. DecisionsOn(j)'
        <4>1. NextGeneration(j)' - 1 = N
          BY <2>1, <3>8
        <4>2. RedrivenIn(Newest(j))' = 1 .. NextGeneration(j)' - 1
          BY <3>7, <4>1 DEF RedrivenIn
        <4>3. ~AbandonedIn(Newest(j))'
          BY <3>5 DEF AbandonedIn
        <4> QED
          BY <3>5, <3>9, <4>2, <4>3 DEF DecisionsOn
      <3>11. \A k \in Jobs \ {j} : DecisionsOn(k)'
        BY <3>5, <3>8, <3>9, Untouched DEF DecisionsInv
      <3> QED
        BY <3>10, <3>11 DEF DecisionsInv
    <2>4. CASE AbandonJob(j)
      <3>1. Parkable(j) /\ UNCHANGED outbox
            /\ job' = [job EXCEPT ![j] = [status |-> "abandoned", lease |-> "none"]]
        BY <2>4 DEF AbandonJob
      <3>2. job[j].status # "abandoned" /\ job[j].status # "absent"
        BY <3>1 DEF Parkable, CanTransition, TRANSITIONS, JobState
      <3>3. N \in Nat \ {0} /\ (records[j] = <<>> => N = 1)
        BY <1>1, <2>1, <3>2, RowCount DEF SubmittedHasRow, DecisionsOn
      <3>4. PICK g \in Nat : g = N - 1
        BY <3>3
      <3> DEFINE decision == [event |-> "abandoned", gen |-> g, detail |-> "abandoned"]
      <3>5. Decided(j, decision, FALSE)
        BY <2>4, <3>4 DEF AbandonJob
      <3>6. decision \in Entry /\ decision.event = "abandoned"
        BY <3>4 DEF Entry, JobState
      <3> HIDE DEF decision
      <3>7. /\ records'[j] # <<>>
            /\ \A k \in Jobs \ {j} : records'[k] = records[k]
            /\ RedrivenIn(Newest(j)') = (IF records[j] = <<>> THEN {} ELSE 1 .. N - 1)
            /\ AbandonedIn(Newest(j)')
        BY <1>1, <2>1, <3>2, <3>5, <3>6, HistoryGrows
      <3>8. RedrivenIn(Newest(j)') = 1 .. N - 1
        <4> HIDE DEF N
        <4> QED
          BY <3>3, <3>7
      <3>9. \A k \in Jobs : RowsOf(k)' = RowsOf(k)
        BY <3>1 DEF RowsOf, RowIds
      <3>10. job'[j].status = "abandoned" /\ \A k \in Jobs \ {j} : job'[k] = job[k]
        BY <1>1, <3>1 DEF StoreTypeOK
      <3>11. DecisionsOn(j)'
        <4>1. NextGeneration(j)' = N
          BY <3>9 DEF NextGeneration
        <4>2. RedrivenIn(Newest(j))' = 1 .. NextGeneration(j)' - 1
          BY <3>8, <4>1 DEF RedrivenIn
        <4>3. AbandonedIn(Newest(j))'
          BY <3>7 DEF AbandonedIn
        <4> QED
          BY <3>7, <3>10, <4>2, <4>3 DEF DecisionsOn
      <3>12. \A k \in Jobs \ {j} : DecisionsOn(k)'
        BY <3>7, <3>9, <3>10, Untouched DEF DecisionsInv
      <3> QED
        BY <3>11, <3>12 DEF DecisionsInv
    <2> QED
      BY <1>3, <2>2, <2>3, <2>4 DEF Decision
  <1> QED
    BY <1>2, <1>3

(* The newest audit record of a job names every re-drive it ever had, and  *)
(* its abandonment: parking a job again loses no decision.                 *)
THEOREM DecisionsRecorded == Spec => []DecisionsKept
  <1>1. Init => DecisionsInv
    <2> SUFFICES ASSUME Init, NEW j \in Jobs PROVE DecisionsOn(j)
      BY DEF DecisionsInv
    <2>1. RowsOf(j) = {} /\ records[j] = <<>> /\ job[j].status = "absent"
      BY DEF Init, StoreInit, RedriveInit, RowsOf, RowIds
    <2>2. NextGeneration(j) = 0
      BY <2>1, FS_EmptySet DEF NextGeneration
    <2> QED
      BY <2>1, <2>2 DEF DecisionsOn
  <1>2. IndInv /\ DecisionsInv /\ [Next]_vars => DecisionsInv'
    BY DecisionsInvKept
  <1>3. DecisionsInv => DecisionsKept
    BY DEF DecisionsInv, DecisionsOn, DecisionsKept, Newest, RedrivenIn, AbandonedIn
  <1> QED
    BY <1>1, <1>2, <1>3, IndInvHolds, PTL DEF Spec
=============================================================================
