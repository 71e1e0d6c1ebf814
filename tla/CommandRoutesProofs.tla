------------------------ MODULE CommandRoutesProofs -------------------------
(***************************************************************************)
(* Proofs about the command routes, for any handlers, jobs, keys and       *)
(* notes, and any number of failures.                                      *)
(***************************************************************************)
EXTENDS CommandRoutes, FiniteSetTheorems, TLAPS

-----------------------------------------------------------------------------
(* How a step changes the handlers *)

(* A handler that is at a step works on a request. *)
LEMMA Working ==
  ASSUME RoutesTypeOK, NEW h \in Handlers, handler[h] # Idle
  PROVE  handler[h] \in Request /\ handler[h].at # "idle"
  BY DEF RoutesTypeOK, Request, Step, Idle

(* One at no step of a request is idle. *)
LEMMA AtStep ==
  ASSUME RoutesTypeOK, NEW h \in Handlers, handler[h].at \in Step
  PROVE  handler[h] # Idle /\ handler[h] \in Request
  BY DEF RoutesTypeOK, Request, Step, Idle

(* One handler is given a new state. *)
LEMMA HandlerSet ==
  ASSUME RoutesTypeOK, NEW h \in Handlers, NEW v \in {Idle} \union Request,
         handler' = [handler EXCEPT ![h] = v]
  PROVE  /\ handler' \in [Handlers -> {Idle} \union Request]
         /\ handler'[h] = v
         /\ \A g \in Handlers \ {h} : handler'[g] = handler[g]
  BY DEF RoutesTypeOK

(* One handler moves to another step of its request. *)
LEMMA HandlerMoved ==
  ASSUME RoutesTypeOK, NEW h \in Handlers, handler[h].at \in Step, NEW step \in Step, GoTo(h, step)
  PROVE  /\ handler' \in [Handlers -> {Idle} \union Request]
         /\ handler'[h] = [handler[h] EXCEPT !.at = step]
         /\ handler'[h] \in Request
         /\ handler'[h].at = step
         /\ handler'[h].scope = handler[h].scope
         /\ handler'[h].note = handler[h].note
         /\ handler'[h].job = handler[h].job
         /\ handler'[h].generation = handler[h].generation
         /\ \A g \in Handlers \ {h} : handler'[g] = handler[g]
  <1>1. handler[h] \in Request
    BY AtStep
  <1>2. [handler[h] EXCEPT !.at = step] \in Request
    BY <1>1 DEF Request
  <1>3. handler' = [handler EXCEPT ![h] = [handler[h] EXCEPT !.at = step]]
    BY DEF GoTo
  <1> QED
    BY <1>1, <1>2, <1>3, HandlerSet DEF Request

(* The held steps are steps, and an idle handler is at none of them. *)
LEMMA HeldSteps ==
  /\ {"create"} \union Deciding \subseteq Step
  /\ "idle" \notin Step
  BY DEF Deciding, Step

-----------------------------------------------------------------------------
(* Every action keeps the invariant *)

(* An empty database and idle handlers satisfy it. *)
THEOREM InitRoutesInv == Init => RoutesInv
  <1> SUFFICES ASSUME Init PROVE RoutesInv
    OBVIOUS
  <1>1. RoutesTypeOK
    BY DEF Init, TablesInit, RoutesTypeOK, TablesTypeOK
  <1>2. \A h \in Handlers : handler[h] = Idle
    BY DEF Init
  <1>3. KeysHeld /\ RowsHeld /\ JobsKnown /\ AnswersRecorded
    BY <1>2, HeldSteps
       DEF Init, TablesInit, KeysHeld, RowsHeld, JobsKnown, AnswersRecorded, Idle, Deciding
  <1> QED
    BY <1>1, <1>3 DEF RoutesInv

(* A handler that lets go of its request, the tables as they were, or with *)
(* the answer it was about to give.                                        *)
LEMMA FinishKeeps ==
  ASSUME RoutesInv, NEW h \in Handlers, handler[h] # Idle, Finish(h),
         UNCHANGED <<job, outbox, idem, failures>>,
         \/ UNCHANGED answers
         \/ Send(h)
  PROVE  RoutesInv'
  <1>1. RoutesTypeOK /\ KeysHeld /\ RowsHeld /\ JobsKnown /\ AnswersRecorded
    BY DEF RoutesInv
  <1>2. /\ handler' \in [Handlers -> {Idle} \union Request]
        /\ handler'[h] = Idle
        /\ \A g \in Handlers \ {h} : handler'[g] = handler[g]
    BY <1>1, HandlerSet DEF Finish
  <1>3. /\ answers' \in SUBSET Answer
        /\ \A a \in answers' : \E r \in idem : Repeats(a, r)
    <2>1. CASE UNCHANGED answers
      BY <1>1, <2>1 DEF RoutesTypeOK, TablesTypeOK, AnswersRecorded
    <2>2. CASE Send(h)
      <3>1. handler[h] \in Request /\ handler[h].at = "answer"
        BY <1>1, <2>2, Working DEF Send
      <3>2. PICK r \in idem : Repeats(handler[h], r)
        BY <1>1, <3>1 DEF AnswersRecorded
      <3> DEFINE a == [scope |-> handler[h].scope, job |-> handler[h].job,
                       generation |-> handler[h].generation]
      <3>3. a \in Answer /\ Repeats(a, r)
        BY <3>1, <3>2 DEF Request, Answer, Repeats
      <3>4. answers' = answers \union {a}
        BY <2>2 DEF Send
      <3> QED
        BY <1>1, <3>3, <3>4 DEF RoutesTypeOK, TablesTypeOK, AnswersRecorded
    <2> QED
      BY <2>1, <2>2
  <1>4. RoutesTypeOK'
    BY <1>1, <1>2, <1>3 DEF RoutesTypeOK, TablesTypeOK
  <1>5. Idle.at \notin Step
    BY DEF Idle, Step
  <1>6. KeysHeld'
    BY <1>1, <1>2, <1>5, HeldSteps DEF KeysHeld, KeyHolders, Recorded, Deciding
  <1>7. RowsHeld'
    BY <1>1, <1>2, <1>5 DEF RowsHeld, RowHolders, Parkable, Step
  <1>8. JobsKnown'
    BY <1>1, <1>2, <1>5, HeldSteps DEF JobsKnown, Step
  <1>9. AnswersRecorded'
    BY <1>1, <1>2, <1>3, <1>5 DEF AnswersRecorded, Step
  <1> QED
    BY <1>4, <1>6, <1>7, <1>8, <1>9 DEF RoutesInv

(* A request arrives. *)
LEMMA ReceiveKeeps ==
  ASSUME RoutesInv, NEW h \in Handlers, NEW s \in Scope, NEW n \in Notes, NEW j \in Jobs,
         Receive(h, s, n, j)
  PROVE  RoutesInv'
  <1>1. RoutesTypeOK /\ KeysHeld /\ RowsHeld /\ JobsKnown /\ AnswersRecorded
    BY DEF RoutesInv
  <1> DEFINE v == [at |-> "reserve", scope |-> s, note |-> n, job |-> j,
                   seen |-> "absent", generation |-> NoGeneration]
  <1>2. v \in Request
    BY DEF Request, Step, Generation
  <1>3. /\ handler[h] = Idle
        /\ handler' = [handler EXCEPT ![h] = v]
        /\ IF s.command = "submit" THEN Fresh(j) ELSE job[j] # "absent"
        /\ UNCHANGED <<job, outbox, idem, answers, failures>>
    BY DEF Receive
  <1>4. /\ handler' \in [Handlers -> {Idle} \union Request]
        /\ handler'[h] = v
        /\ \A g \in Handlers \ {h} : handler'[g] = handler[g]
    BY <1>1, <1>2, <1>3, HandlerSet
  <1>5. /\ v.at = "reserve" /\ v.scope = s /\ v.job = j /\ v # Idle /\ Idle.at = "idle"
        /\ v.generation = NoGeneration
    BY DEF Idle
  <1> HIDE DEF v
  <1>6. RoutesTypeOK'
    BY <1>1, <1>3, <1>4 DEF RoutesTypeOK, TablesTypeOK
  <1>7. KeysHeld'
    BY <1>1, <1>3, <1>4, <1>5 DEF KeysHeld, KeyHolders, Recorded, Deciding
  <1>8. RowsHeld'
    BY <1>1, <1>3, <1>4, <1>5 DEF RowsHeld, RowHolders, Parkable
  <1>9. JobsKnown'
    BY <1>1, <1>3, <1>4, <1>5 DEF JobsKnown, Fresh, Deciding
  <1>10. AnswersRecorded'
    BY <1>1, <1>3, <1>4, <1>5 DEF AnswersRecorded
  <1> QED
    BY <1>6, <1>7, <1>8, <1>9, <1>10 DEF RoutesInv

(* A fresh key is inserted. *)
LEMMA ReserveKeeps ==
  ASSUME RoutesInv, NEW h \in Handlers, ReserveKey(h)
  PROVE  RoutesInv'
  <1> DEFINE step == IF handler[h].scope.command = "submit" THEN "create" ELSE "read"
  <1>1. RoutesTypeOK /\ KeysHeld /\ RowsHeld /\ JobsKnown /\ AnswersRecorded
    BY DEF RoutesInv
  <1>2. /\ handler[h].at = "reserve"
        /\ KeyHolders(handler[h].scope) = {}
        /\ Recorded(handler[h].scope) = {}
        /\ GoTo(h, step)
        /\ UNCHANGED <<job, outbox, idem, answers, failures>>
    BY DEF ReserveKey, CanInsert
  <1>3. step \in Step /\ handler[h].at \in Step
    BY <1>2 DEF Step
  <1>4. /\ handler' \in [Handlers -> {Idle} \union Request]
        /\ handler'[h].at = step
        /\ handler'[h] # Idle
        /\ handler[h] # Idle
        /\ handler'[h].scope = handler[h].scope
        /\ handler'[h].job = handler[h].job
        /\ handler'[h].generation = handler[h].generation
        /\ \A g \in Handlers \ {h} : handler'[g] = handler[g]
    <2>1. /\ handler[h] # Idle
          /\ handler' \in [Handlers -> {Idle} \union Request]
          /\ handler'[h].at = step
          /\ handler'[h].scope = handler[h].scope
          /\ handler'[h].job = handler[h].job
          /\ handler'[h].generation = handler[h].generation
          /\ \A g \in Handlers \ {h} : handler'[g] = handler[g]
      BY <1>1, <1>2, <1>3, HandlerMoved, AtStep
    <2> QED
      BY <2>1 DEF Idle
  <1>5. RoutesTypeOK'
    BY <1>1, <1>2, <1>4 DEF RoutesTypeOK, TablesTypeOK
  <1>6. KeysHeld'
    BY <1>1, <1>2, <1>4 DEF KeysHeld, KeyHolders, Recorded, Deciding
  <1>7. RowsHeld'
    BY <1>1, <1>2, <1>4 DEF RowsHeld, RowHolders, Parkable
  <1>8. JobsKnown'
    BY <1>1, <1>2, <1>4 DEF JobsKnown, Deciding
  <1>9. AnswersRecorded'
    BY <1>1, <1>2, <1>4 DEF AnswersRecorded, Step
  <1> QED
    BY <1>5, <1>6, <1>7, <1>8, <1>9 DEF RoutesInv

(* A recorded key is replayed. *)
LEMMA ReplayKeeps ==
  ASSUME RoutesInv, NEW h \in Handlers, Replay(h)
  PROVE  RoutesInv'
  <1>1. RoutesTypeOK /\ KeysHeld /\ RowsHeld /\ JobsKnown /\ AnswersRecorded
    BY DEF RoutesInv
  <1>2. PICK r \in Recorded(handler[h].scope) :
          handler' = [handler EXCEPT
            ![h].at = "answer", ![h].job = r.job, ![h].generation = r.generation]
    BY DEF Replay
  <1>3. /\ handler[h].at = "reserve"
        /\ UNCHANGED <<job, outbox, idem, answers, failures>>
    BY DEF Replay, CanInsert
  <1>4. handler[h] \in Request /\ handler[h] # Idle /\ r \in idem /\ r \in Record
    BY <1>1, <1>2, <1>3, AtStep DEF Step, Recorded, RoutesTypeOK, TablesTypeOK
  <1> DEFINE v == [handler[h] EXCEPT !.at = "answer", !.job = r.job, !.generation = r.generation]
  <1>5. v \in Request
    BY <1>4 DEF Request, Record, Step
  <1>6. handler' = [handler EXCEPT ![h] = v]
    BY <1>1, <1>2 DEF RoutesTypeOK
  <1>7. v.at = "answer" /\ v.scope = handler[h].scope /\ v.job = r.job /\ v # Idle /\ Repeats(v, r)
    BY <1>2, <1>4 DEF Idle, Repeats, Recorded, Request
  <1> HIDE DEF v
  <1>8. /\ handler' \in [Handlers -> {Idle} \union Request]
        /\ handler'[h] = v
        /\ \A g \in Handlers \ {h} : handler'[g] = handler[g]
    BY <1>1, <1>5, <1>6, HandlerSet
  <1>9. RoutesTypeOK'
    BY <1>1, <1>3, <1>8 DEF RoutesTypeOK, TablesTypeOK
  <1>10. KeysHeld'
    BY <1>1, <1>3, <1>7, <1>8 DEF KeysHeld, KeyHolders, Recorded, Deciding
  <1>11. RowsHeld'
    BY <1>1, <1>3, <1>7, <1>8 DEF RowsHeld, RowHolders, Parkable
  <1>12. JobsKnown'
    BY <1>1, <1>3, <1>4, <1>7, <1>8 DEF JobsKnown, Deciding
  <1>13. AnswersRecorded'
    BY <1>1, <1>3, <1>4, <1>7, <1>8 DEF AnswersRecorded, Step
  <1> QED
    BY <1>9, <1>10, <1>11, <1>12, <1>13 DEF RoutesInv

(* A decision reads its job, or parks it. *)
LEMMA ParkingKeeps ==
  ASSUME RoutesInv, NEW h \in Handlers, Read(h) \/ Park(h)
  PROVE  RoutesInv'
  <1>1. RoutesTypeOK /\ KeysHeld /\ RowsHeld /\ JobsKnown /\ AnswersRecorded
    BY DEF RoutesInv
  <1>2. /\ handler[h].at \in {"read", "park"}
        /\ UNCHANGED <<job, outbox, idem, answers, failures>>
    BY DEF Read, Park
  <1>3. handler[h] \in Request /\ handler[h] # Idle
    BY <1>1, <1>2, AtStep DEF Step
  <1>4. /\ handler' \in [Handlers -> {Idle} \union Request]
        /\ handler'[h] # Idle
        /\ handler'[h].scope = handler[h].scope
        /\ handler'[h].job = handler[h].job
        /\ handler'[h].generation = handler[h].generation
        /\ \A g \in Handlers \ {h} : handler'[g] = handler[g]
        /\ handler'[h].at \in {"park", "decide"}
        /\ handler'[h].at = "decide" =>
             Parkable(handler[h].job) /\ RowHolders(handler[h].job) = {}
        /\ handler'[h].at = "park" =>
             handler'[h].seen # "absent" /\ CanTransition(handler'[h].seen, "redrive_pending")
    <2>1. CASE Read(h)
      <3> DEFINE v == [handler[h] EXCEPT !.at = "park", !.seen = job[handler[h].job]]
      <3>1. handler[h].job \in Jobs /\ job[handler[h].job] \in JobState \union {"absent"}
        BY <1>1, <1>3 DEF Request, RoutesTypeOK, TablesTypeOK
      <3>2. v \in Request
        BY <1>3, <3>1 DEF Request, Step
      <3>3. /\ v.at = "park" /\ v.scope = handler[h].scope /\ v.job = handler[h].job
            /\ v.generation = handler[h].generation
            /\ v # Idle
            /\ v.seen # "absent" /\ CanTransition(v.seen, "redrive_pending")
        BY <1>3, <2>1 DEF Request, Idle, Read, Parkable
      <3>4. handler' = [handler EXCEPT ![h] = v]
        BY <1>1, <2>1 DEF Read, RoutesTypeOK
      <3> HIDE DEF v
      <3> QED
        BY <1>1, <3>2, <3>3, <3>4, HandlerSet
    <2>2. CASE Park(h)
      <3>1. handler[h].at \in Step /\ "decide" \in Step /\ GoTo(h, "decide")
        BY <1>2, <2>2 DEF Park, Step
      <3>2. Parkable(handler[h].job) /\ RowHolders(handler[h].job) = {}
        BY <1>1, <2>2 DEF Park, Parkable, RowsHeld
      <3>3. /\ handler' \in [Handlers -> {Idle} \union Request]
            /\ handler'[h].at = "decide"
            /\ handler'[h].scope = handler[h].scope
            /\ handler'[h].job = handler[h].job
            /\ handler'[h].generation = handler[h].generation
            /\ \A g \in Handlers \ {h} : handler'[g] = handler[g]
        BY <1>1, <3>1, HandlerMoved
      <3> QED
        BY <3>2, <3>3 DEF Idle
    <2> QED
      BY <2>1, <2>2
  <1>5. RoutesTypeOK'
    BY <1>1, <1>2, <1>4 DEF RoutesTypeOK, TablesTypeOK
  <1>6. KeysHeld'
    BY <1>1, <1>2, <1>4 DEF KeysHeld, KeyHolders, Recorded, Deciding
  <1>7. RowsHeld'
    BY <1>1, <1>2, <1>4 DEF RowsHeld, RowHolders, Parkable
  <1>8. JobsKnown'
    BY <1>1, <1>2, <1>3, <1>4 DEF JobsKnown, Deciding
  <1>9. AnswersRecorded'
    BY <1>1, <1>2, <1>4 DEF AnswersRecorded, Step
  <1> QED
    BY <1>5, <1>6, <1>7, <1>8, <1>9 DEF RoutesInv

(* What an accepted command commits, whichever it is. *)
LEMMA AcceptKeeps ==
  ASSUME RoutesInv, NEW h \in Handlers, handler[h].at \in {"create", "decide"},
         NEW status \in JobState, NEW gen \in Generation, NEW v \in Request,
         job' = [job EXCEPT ![handler[h].job] = status],
         outbox' \in [Jobs -> Seq(Scope)],
         Keep(handler[h].scope, handler[h].note, handler[h].job, gen),
         UNCHANGED <<answers, failures>>,
         handler' = [handler EXCEPT ![h] = v],
         v.at = "answer", v.scope = handler[h].scope, v.job = handler[h].job, v.generation = gen
  PROVE  RoutesInv'
  <1> DEFINE r == [scope |-> handler[h].scope, note |-> handler[h].note, job |-> handler[h].job,
                   generation |-> gen]
             j == handler[h].job
  <1>1. RoutesTypeOK /\ KeysHeld /\ RowsHeld /\ JobsKnown /\ AnswersRecorded
    BY DEF RoutesInv
  <1>2. handler[h] \in Request /\ handler[h] # Idle /\ v # Idle
    BY <1>1, AtStep DEF Step, Idle
  <1>3. r \in Record /\ j \in Jobs
    BY <1>2 DEF Request, Record
  <1>4. idem' = idem \union {r}
    BY DEF Keep
  <1>5. /\ handler' \in [Handlers -> {Idle} \union Request]
        /\ handler'[h] = v
        /\ \A g \in Handlers \ {h} : handler'[g] = handler[g]
    BY <1>1, HandlerSet
  <1>6. /\ job' \in [Jobs -> JobState \union {"absent"}]
        /\ job'[j] = status /\ status # "absent"
        /\ \A k \in Jobs \ {j} : job'[k] = job[k]
    BY <1>1, <1>3 DEF RoutesTypeOK, TablesTypeOK, JobState
  <1>7. RoutesTypeOK'
    BY <1>1, <1>3, <1>4, <1>5, <1>6 DEF RoutesTypeOK, TablesTypeOK
  <1>8. r.scope = handler[h].scope /\ r.job = j /\ Repeats(v, r)
    BY DEF Repeats
  <1>9. \A g \in Handlers : handler[g] # Idle => handler[g].job \in Jobs
    BY <1>1, Working DEF Request
  <1>10. \A q \in idem : q.job \in Jobs
    BY <1>1 DEF RoutesTypeOK, TablesTypeOK, Record
  <1>11. Idle.at = "idle"
    BY DEF Idle
  <1> HIDE DEF r, j
  <1>12. \A q \in idem : q.scope # r.scope
    BY <1>1, <1>8 DEF KeysHeld, Deciding, Recorded
  <1>13. \A g \in Handlers \ {h} :
           handler[g].at \in {"create"} \union Deciding => handler[g].scope # r.scope
    BY <1>1, <1>8 DEF KeysHeld, KeyHolders, Deciding
  <1>14. KeysHeld'
    <2>1. ASSUME NEW g \in Handlers, handler'[g].at \in {"create"} \union Deciding
          PROVE  Recorded(handler[g].scope)' = {} /\ KeyHolders(handler[g].scope)' = {g}
      <3>1. g # h /\ handler'[g] = handler[g]
        BY <1>5, <2>1 DEF Deciding
      <3>2. Recorded(handler[g].scope)' = {}
        BY <1>1, <1>4, <1>13, <2>1, <3>1 DEF KeysHeld, Recorded
      <3>3. KeyHolders(handler[g].scope)' = {g}
        BY <1>1, <1>5, <1>13, <2>1, <3>1 DEF KeysHeld, KeyHolders, Deciding
      <3> QED
        BY <3>1, <3>2, <3>3
    <2>2. \A q, w \in idem' : q.scope = w.scope => q = w
      BY <1>1, <1>4, <1>12 DEF KeysHeld
    <2> QED
      BY <2>1, <2>2 DEF KeysHeld
  <1>15. RowsHeld'
    <2>1. ASSUME NEW g \in Handlers, handler'[g].at = "decide"
          PROVE  Parkable(handler[g].job)' /\ RowHolders(handler[g].job)' = {g}
      <3>1. g # h /\ handler'[g] = handler[g]
        BY <1>5, <2>1
      <3>2. handler[g].job # j /\ handler[g].job \in Jobs
        BY <1>1, <1>9, <1>11, <2>1, <3>1 DEF RowsHeld, RowHolders, JobsKnown, Parkable, j
      <3>3. Parkable(handler[g].job)'
        BY <1>1, <1>6, <2>1, <3>1, <3>2 DEF RowsHeld, Parkable
      <3>4. RowHolders(handler[g].job)' = {g}
        BY <1>1, <1>5, <2>1, <3>1, <3>2 DEF RowsHeld, RowHolders
      <3> QED
        BY <3>1, <3>3, <3>4
    <2>2. \A g \in Handlers : handler'[g].at = "park" =>
            handler'[g].seen # "absent" /\ CanTransition(handler'[g].seen, "redrive_pending")
      BY <1>1, <1>5 DEF RowsHeld
    <2> QED
      BY <2>1, <2>2 DEF RowsHeld
  <1>16. JobsKnown'
    <2>1. ASSUME NEW g \in Handlers, handler'[g].at \in {"reserve", "create"},
                 handler'[g].scope.command = "submit"
          PROVE  /\ job'[handler'[g].job] = "absent"
                 /\ \A f \in Handlers \ {g} : handler'[f] # Idle => handler'[f].job # handler'[g].job
      <3>1. g # h /\ handler'[g] = handler[g]
        BY <1>5, <2>1
      <3>2. handler[g].job # j /\ handler[g].job \in Jobs
        BY <1>1, <1>2, <1>9, <1>11, <2>1, <3>1 DEF JobsKnown, j
      <3> QED
        BY <1>1, <1>2, <1>5, <1>6, <2>1, <3>1, <3>2 DEF JobsKnown, j
    <2>2. \A g \in Handlers : handler'[g] # Idle /\ handler'[g].scope.command # "submit" =>
            job'[handler'[g].job] # "absent"
      BY <1>1, <1>5, <1>6, <1>9, <1>2 DEF JobsKnown, j
    <2>3. \A q \in idem' : job'[q.job] # "absent"
      BY <1>1, <1>4, <1>6, <1>8, <1>10 DEF JobsKnown
    <2> QED
      BY <1>1, <1>5, <2>1, <2>2, <2>3 DEF JobsKnown, Deciding
  <1>17. AnswersRecorded'
    BY <1>1, <1>4, <1>5, <1>8 DEF AnswersRecorded, Step
  <1> QED
    BY <1>7, <1>14, <1>15, <1>16, <1>17 DEF RoutesInv

(* A submission, a re-drive and an abandonment are such commits. *)
LEMMA CommitKeeps ==
  ASSUME RoutesInv, NEW h \in Handlers, Create(h) \/ Redrive(h) \/ Abandon(h)
  PROVE  RoutesInv'
  <1>1. RoutesTypeOK
    BY DEF RoutesInv
  <1>2. handler[h].at \in {"create", "decide"}
    BY DEF Create, Redrive, Abandon
  <1>3. handler[h] \in Request /\ handler[h].job \in Jobs /\ handler[h].scope \in Scope
    BY <1>1, <1>2, AtStep DEF Step, Request
  <1>4. outbox[handler[h].job] \in Seq(Scope) /\ NextGeneration(handler[h].job) \in Generation
    BY <1>1, <1>3 DEF RoutesTypeOK, TablesTypeOK, NextGeneration, Generation
  <1>5. /\ NoGeneration \in Generation
        /\ handler[h].generation = NoGeneration
    BY <1>2 DEF Generation, RoutesInv, AnswersRecorded, Step
  <1>6. outbox \in [Jobs -> Seq(Scope)]
    BY <1>1 DEF RoutesTypeOK, TablesTypeOK
  <1>7. Enqueued(handler[h].job, handler[h].scope) => outbox' \in [Jobs -> Seq(Scope)]
    BY <1>3, <1>4, <1>6 DEF Enqueued
  <1>8. handler = [g \in Handlers |-> handler[g]]
    BY <1>1 DEF RoutesTypeOK
  <1>9. CASE Create(h)
    <2> DEFINE v == [handler[h] EXCEPT !.at = "answer"]
    <2>1. v \in Request /\ v.at = "answer" /\ v.scope = handler[h].scope /\ v.job = handler[h].job
          /\ v.generation = handler[h].generation
      BY <1>3 DEF Request, Step
    <2>2. handler' = [handler EXCEPT ![h] = v]
      BY <1>9 DEF Create, GoTo
    <2> QED
      BY <1>2, <1>5, <1>7, <1>9, <2>1, <2>2, AcceptKeeps DEF Create, CreateJob, JobState
  <1>10. CASE Redrive(h)
    <2> DEFINE v == [handler[h] EXCEPT
                       !.at = "answer", !.generation = NextGeneration(handler[h].job)]
    <2>1. v \in Request /\ v.at = "answer" /\ v.scope = handler[h].scope /\ v.job = handler[h].job
          /\ v.generation = NextGeneration(handler[h].job)
      BY <1>3, <1>4 DEF Request, Step
    <2>2. handler' = [handler EXCEPT ![h] = v]
      BY <1>8, <1>10 DEF Redrive
    <2> HIDE DEF v
    <2> QED
      BY <1>2, <1>4, <1>7, <1>10, <2>1, <2>2, AcceptKeeps DEF Redrive, RequeueJob, JobState
  <1>11. CASE Abandon(h)
    <2> DEFINE v == [handler[h] EXCEPT !.at = "answer"]
    <2>1. v \in Request /\ v.at = "answer" /\ v.scope = handler[h].scope /\ v.job = handler[h].job
          /\ v.generation = handler[h].generation
      BY <1>3 DEF Request, Step
    <2>2. handler' = [handler EXCEPT ![h] = v]
      BY <1>11 DEF Abandon, GoTo
    <2> QED
      BY <1>2, <1>5, <1>6, <1>11, <2>1, <2>2, AcceptKeeps DEF Abandon, CloseJob, JobState
  <1> QED
    BY <1>9, <1>10, <1>11

(* The rest of the system moves a job no handler has locked. *)
LEMMA JobMovesKeeps ==
  ASSUME RoutesInv, NEW j \in Jobs, JobMoves(j)
  PROVE  RoutesInv'
  <1>1. RoutesTypeOK /\ KeysHeld /\ RowsHeld /\ JobsKnown /\ AnswersRecorded
    BY DEF RoutesInv
  <1>2. PICK to \in JobState : job' = [job EXCEPT ![j] = to]
    BY DEF JobMoves, Work
  <1>3. /\ job[j] # "absent"
        /\ RowHolders(j) = {}
        /\ UNCHANGED <<outbox, idem, answers, handler>>
        /\ failures' = [failures EXCEPT ![j] =
             IF CanTransition(job'[j], "redrive_pending") THEN @ + 1 ELSE @]
    BY DEF JobMoves, Work
  <1>4. /\ job' \in [Jobs -> JobState \union {"absent"}]
        /\ job'[j] # "absent"
        /\ \A k \in Jobs \ {j} : job'[k] = job[k]
    BY <1>1, <1>2 DEF RoutesTypeOK, TablesTypeOK, JobState
  <1>5. RoutesTypeOK'
    <2> DEFINE n == IF CanTransition(job'[j], "redrive_pending") THEN failures[j] + 1 ELSE failures[j]
    <2>1. n \in Nat
      BY <1>1 DEF RoutesTypeOK
    <2>2. failures' = [failures EXCEPT ![j] = n]
      BY <1>3
    <2> HIDE DEF n
    <2> QED
      BY <1>1, <1>3, <1>4, <2>1, <2>2 DEF RoutesTypeOK, TablesTypeOK
  <1>6. \A h \in Handlers : handler[h] # Idle => handler[h].job \in Jobs
    BY <1>1, Working DEF Request
  <1>7. \A q \in idem : q.job \in Jobs
    BY <1>1 DEF RoutesTypeOK, TablesTypeOK, Record
  <1>8. Idle.at = "idle"
    BY DEF Idle
  <1>9. KeysHeld'
    BY <1>1, <1>3 DEF KeysHeld, KeyHolders, Recorded
  <1>10. RowsHeld'
    BY <1>1, <1>3, <1>4, <1>6, <1>8 DEF RowsHeld, RowHolders, Parkable
  <1>11. JobsKnown'
    BY <1>1, <1>3, <1>4, <1>6, <1>7, <1>8 DEF JobsKnown
  <1>12. AnswersRecorded'
    BY <1>1, <1>3 DEF AnswersRecorded
  <1> QED
    BY <1>5, <1>9, <1>10, <1>11, <1>12 DEF RoutesInv

(* Every step keeps it. *)
THEOREM NextRoutesInv == RoutesInv /\ [Next]_vars => RoutesInv'
  <1> SUFFICES ASSUME RoutesInv, [Next]_vars PROVE RoutesInv'
    OBVIOUS
  <1>1. ASSUME NEW h \in Handlers, NEW s \in Scope, NEW n \in Notes, NEW j \in Jobs,
               Receive(h, s, n, j)
        PROVE  RoutesInv'
    BY <1>1, ReceiveKeeps
  <1>2. ASSUME NEW h \in Handlers, Serve(h)
        PROVE  RoutesInv'
    <2>1. CASE RefuseKey(h) \/ RefuseState(h) \/ RefuseMoved(h) \/ Send(h)
      <3>1. handler[h].at \in Step
        BY <2>1 DEF RefuseKey, CanInsert, RefuseState, RefuseMoved, Send, Step
      <3>2. handler[h] # Idle
        BY <3>1, AtStep DEF RoutesInv
      <3> QED
        BY <2>1, <3>2, FinishKeeps DEF RefuseKey, RefuseState, RefuseMoved, Refuse, Send
    <2>2. CASE ReserveKey(h)
      BY <2>2, ReserveKeeps
    <2>3. CASE Replay(h)
      BY <2>3, ReplayKeeps
    <2>4. CASE Read(h) \/ Park(h)
      BY <2>4, ParkingKeeps
    <2>5. CASE Create(h) \/ Redrive(h) \/ Abandon(h)
      BY <2>5, CommitKeeps
    <2> QED
      BY <1>2, <2>1, <2>2, <2>3, <2>4, <2>5 DEF Serve
  <1>3. ASSUME NEW h \in Handlers, Fail(h)
        PROVE  RoutesInv'
    BY <1>3, FinishKeeps DEF Fail
  <1>4. ASSUME NEW j \in Jobs, JobMoves(j)
        PROVE  RoutesInv'
    BY <1>4, JobMovesKeeps
  <1>5. CASE UNCHANGED vars
    BY <1>5 DEF vars, RoutesInv, RoutesTypeOK, TablesTypeOK, KeysHeld, KeyHolders, Recorded,
                RowsHeld, RowHolders, Parkable, JobsKnown, AnswersRecorded
  <1> QED
    BY <1>1, <1>2, <1>3, <1>4, <1>5 DEF Next

(* What a handler established under a lock stays true until its           *)
(* transaction ends, and what is answered is on record.                    *)
THEOREM RoutesInvHolds == Spec => []RoutesInv
  BY InitRoutesInv, NextRoutesInv, PTL DEF Spec

(* Every variable has its type. *)
THEOREM RoutesTypeCorrect == Spec => []RoutesTypeOK
  <1>1. RoutesInv => RoutesTypeOK
    BY DEF RoutesInv
  <1> QED
    BY <1>1, RoutesInvHolds, PTL

(* Every accepted answer to one key says the same, and says what the key's *)
(* own command committed.                                                  *)
THEOREM AnswersConsistent == Spec => []AnswersAgree
  <1>1. RoutesInv => AnswersAgree
    <2> SUFFICES ASSUME RoutesInv PROVE AnswersAgree
      OBVIOUS
    <2>1. \A a \in answers : \E r \in idem : Repeats(a, r)
      BY DEF RoutesInv, AnswersRecorded
    <2>2. \A r, q \in idem : r.scope = q.scope => r = q
      BY DEF RoutesInv, KeysHeld
    <2>3. answers \subseteq Answer
      BY DEF RoutesInv, RoutesTypeOK, TablesTypeOK
    <2>4. ASSUME NEW a \in answers, NEW b \in answers, a.scope = b.scope
          PROVE  a = b
      <3>1. a.job = b.job /\ a.generation = b.generation
        BY <2>1, <2>2, <2>4 DEF Repeats
      <3> QED
        BY <2>3, <2>4, <3>1 DEF Answer
    <2> QED
      BY <2>1, <2>4 DEF AnswersAgree
  <1> QED
    BY <1>1, RoutesInvHolds, PTL

-----------------------------------------------------------------------------
(* The routes implement indivisible commands *)

(* A commit under its locks accepts a key nobody accepted, for a job in a  *)
(* state to be accepted in.                                                *)
LEMMA CommitIsAtomic ==
  ASSUME RoutesInv, NEW h \in Handlers, Create(h) \/ Redrive(h) \/ Abandon(h)
  PROVE  Atomic!Next
  <1> DEFINE s == handler[h].scope
             n == handler[h].note
             j == handler[h].job
  <1>1. handler[h].at \in {"create"} \union Deciding
    BY DEF Create, Redrive, Abandon, Deciding
  <1>2. s \in Scope /\ n \in Notes /\ j \in Jobs
    BY <1>1, AtStep, HeldSteps DEF RoutesInv, Request
  <1>3. Atomic!Recorded(s) = {}
    BY <1>1 DEF RoutesInv, KeysHeld, Recorded, Atomic!Recorded
  <1>4. CASE Create(h)
    <2>1. s.command = "submit" /\ job[j] = "absent"
      BY <1>4 DEF Create, RoutesInv, JobsKnown
    <2>2. Atomic!CreateJob(s, n, j)
      BY <1>4 DEF Create, CreateJob, Enqueued, Keep, NoGeneration,
                  Atomic!CreateJob, Atomic!Enqueued, Atomic!Keep, Atomic!NoGeneration
    <2>3. Atomic!AcceptSubmission(s, n, j)
      BY <2>1, <2>2 DEF Atomic!AcceptSubmission
    <2> QED
      BY <1>2, <1>3, <2>3 DEF Atomic!Next, Atomic!Scope, Scope, Atomic!Command, Command
  <1>5. CASE Redrive(h) \/ Abandon(h)
    <2>1. Atomic!Parkable(j)
      BY <1>5 DEF Redrive, Abandon, RoutesInv, RowsHeld, Parkable, CanTransition, TRANSITIONS,
                  JobState, Atomic!Parkable, Atomic!CanTransition, Atomic!TRANSITIONS,
                  Atomic!JobState
    <2>2. CASE Redrive(h)
      <3>1. Atomic!RequeueJob(s, n, j)
        BY <2>2 DEF Redrive, RequeueJob, Enqueued, Keep, NextGeneration,
                    Atomic!RequeueJob, Atomic!Enqueued, Atomic!Keep, Atomic!NextGeneration
      <3>2. Atomic!AcceptRedrive(s, n, j)
        BY <2>1, <2>2, <3>1 DEF Redrive, Atomic!AcceptRedrive
      <3> QED
        BY <1>2, <1>3, <3>2 DEF Atomic!Next, Atomic!Scope, Scope, Atomic!Command, Command
    <2>3. CASE Abandon(h)
      <3>1. Atomic!CloseJob(s, n, j)
        BY <2>3 DEF Abandon, CloseJob, Keep, NoGeneration,
                    Atomic!CloseJob, Atomic!Keep, Atomic!NoGeneration
      <3>2. Atomic!AcceptAbandonment(s, n, j)
        BY <2>1, <2>3, <3>1 DEF Abandon, Atomic!AcceptAbandonment
      <3> QED
        BY <1>2, <1>3, <3>2 DEF Atomic!Next, Atomic!Scope, Scope, Atomic!Command, Command
    <2> QED
      BY <1>5, <2>2, <2>3
  <1> QED
    BY <1>4, <1>5

(* An answer sent repeats a record. *)
LEMMA SendIsAtomic ==
  ASSUME RoutesInv, NEW h \in Handlers, Send(h)
  PROVE  Atomic!Next
  <1>1. PICK r \in idem : Repeats(handler[h], r)
    BY DEF Send, RoutesInv, AnswersRecorded
  <1>2. Atomic!Repeat(r)
    BY <1>1 DEF Send, Repeats, Atomic!Repeat
  <1> QED
    BY <1>2 DEF Atomic!Next

(* A move of the rest of the system is one. *)
LEMMA JobMovesIsAtomic ==
  ASSUME NEW j \in Jobs, JobMoves(j)
  PROVE  Atomic!Next
  <1>1. Atomic!Work(j)
    BY DEF JobMoves, Work, CanTransition, TRANSITIONS, JobState,
           Atomic!Work, Atomic!CanTransition, Atomic!TRANSITIONS, Atomic!JobState
  <1> QED
    BY <1>1 DEF Atomic!Next

(* Every step of the routes is a step of the indivisible commands, or      *)
(* leaves the tables alone.                                                *)
LEMMA StepIsAtomic ==
  ASSUME RoutesInv, [Next]_vars
  PROVE  [Atomic!Next]_(Atomic!tables)
  <1>1. ASSUME NEW h \in Handlers, NEW s \in Scope, NEW n \in Notes, NEW j \in Jobs,
               Receive(h, s, n, j)
        PROVE  UNCHANGED Atomic!tables
    BY <1>1 DEF Receive, Atomic!tables
  <1>2. ASSUME NEW h \in Handlers, Serve(h)
        PROVE  [Atomic!Next]_(Atomic!tables)
    <2>1. CASE Create(h) \/ Redrive(h) \/ Abandon(h)
      BY <2>1, CommitIsAtomic
    <2>2. CASE Send(h)
      BY <2>2, SendIsAtomic
    <2>3. CASE \/ ReserveKey(h) \/ Replay(h) \/ RefuseKey(h)
               \/ Read(h) \/ RefuseState(h) \/ Park(h) \/ RefuseMoved(h)
      BY <2>3 DEF ReserveKey, Replay, RefuseKey, Read, RefuseState, Park, RefuseMoved, Refuse,
                  Atomic!tables
    <2> QED
      BY <1>2, <2>1, <2>2, <2>3 DEF Serve
  <1>3. ASSUME NEW h \in Handlers, Fail(h)
        PROVE  UNCHANGED Atomic!tables
    BY <1>3 DEF Fail, Atomic!tables
  <1>4. ASSUME NEW j \in Jobs, JobMoves(j)
        PROVE  Atomic!Next
    BY <1>4, JobMovesIsAtomic
  <1>5. CASE UNCHANGED vars
    BY <1>5 DEF vars, Atomic!tables
  <1> QED
    BY <1>1, <1>2, <1>3, <1>4, <1>5 DEF Next

(* The statements of concurrent requests, with their locks, failures and   *)
(* retries, add up to indivisible commands accepted once for each key.     *)
THEOREM RoutesAreAtomic == Spec => ImplementsAtomicRoutes
  <1>1. Init => Atomic!TablesInit
    BY DEF Init, TablesInit, Atomic!TablesInit
  <1>2. RoutesInv /\ [Next]_vars => [Atomic!Next]_(Atomic!tables)
    BY StepIsAtomic
  <1> QED
    BY <1>1, <1>2, RoutesInvHolds, PTL DEF Spec, ImplementsAtomicRoutes, Atomic!Spec

-----------------------------------------------------------------------------
(* Failures and decisions *)

(* There are finitely many records, so that decisions can be counted. *)
Counted == IsFiniteSet(idem) /\ OneDecisionPerFailure

(* The number of decisions on a job is a number. *)
LEMMA DecisionCount ==
  ASSUME IsFiniteSet(idem), NEW j \in Jobs
  PROVE  IsFiniteSet(Decisions(j)) /\ Cardinality(Decisions(j)) \in Nat
  BY FS_Subset, FS_CardinalityType DEF Decisions

(* Nothing that leaves jobs, records and failures alone changes the count. *)
LEMMA SameKeepsCount ==
  ASSUME Counted, UNCHANGED <<job, idem, failures>>
  PROVE  Counted'
  BY DEF Counted, OneDecisionPerFailure, Decisions, Parkable

(* A decision answers the failure it found; a submission answers none.     *)
LEMMA CommitKeepsCount ==
  ASSUME RoutesInv, Counted, NEW h \in Handlers, Create(h) \/ Redrive(h) \/ Abandon(h)
  PROVE  Counted'
  <1> DEFINE s == handler[h].scope
  <1>1. handler[h].at \in {"create"} \union Deciding
    BY DEF Create, Redrive, Abandon, Deciding
  <1>2. PICK j \in Jobs : j = handler[h].job
    BY <1>1, AtStep, HeldSteps DEF RoutesInv, Request
  <1>3. /\ job \in [Jobs -> JobState \union {"absent"}]
        /\ \A q \in idem : q.scope # s
    BY <1>1 DEF RoutesInv, RoutesTypeOK, TablesTypeOK, KeysHeld, Recorded
  <1>4. PICK r : idem' = idem \union {r} /\ r.scope = s /\ r.job = j
    <2> DEFINE Made(g) == [scope |-> s, note |-> handler[h].note, job |-> j, generation |-> g]
    <2>1. PICK g : idem' = idem \union {Made(g)}
      BY <1>2 DEF Create, Redrive, Abandon, CreateJob, RequeueJob, CloseJob, Keep
    <2>2. Made(g).scope = s /\ Made(g).job = j
      OBVIOUS
    <2> QED
      BY <2>1, <2>2
  <1>4a. /\ \E status \in {"queued", "abandoned"} : job' = [job EXCEPT ![j] = status]
          /\ UNCHANGED failures
    BY <1>2 DEF Create, Redrive, Abandon, CreateJob, RequeueJob, CloseJob
  <1>5. r \notin idem /\ IsFiniteSet(idem')
    BY <1>3, <1>4, FS_AddElement DEF Counted
  <1>6. /\ job' \in [Jobs -> JobState \union {"absent"}]
        /\ job'[j] \notin {"failed_provider", "timed_out"}
        /\ \A k \in Jobs \ {j} : job'[k] = job[k]
    BY <1>2, <1>3, <1>4a DEF JobState
  <1>7. ~Parkable(j)'
    BY <1>6 DEF Parkable, CanTransition, TRANSITIONS, JobState
  <1>8. \A k \in Jobs \ {j} : Decisions(k)' = Decisions(k) /\ Parkable(k)' = Parkable(k)
    BY <1>4, <1>6 DEF Decisions, Parkable
  <1>9. failures[j] = Cardinality(Decisions(j)')
    <2>1. CASE Create(h)
      <3>1. s.command = "submit" /\ ~Parkable(j)
        BY <1>2, <2>1 DEF Create, RoutesInv, JobsKnown, Parkable
      <3>2. Decisions(j)' = Decisions(j)
        BY <1>4, <3>1 DEF Decisions
      <3> QED
        BY <1>2, <3>1, <3>2, DecisionCount DEF Counted, OneDecisionPerFailure
    <2>2. CASE Redrive(h) \/ Abandon(h)
      <3>1. s.command \in {"redrive", "abandon"} /\ Parkable(j)
        BY <1>2, <2>2 DEF Redrive, Abandon, RoutesInv, RowsHeld
      <3>2. Decisions(j)' = Decisions(j) \union {r} /\ r \notin Decisions(j)
        BY <1>4, <1>5, <3>1 DEF Decisions
      <3>3. Cardinality(Decisions(j)') = Cardinality(Decisions(j)) + 1
        BY <1>2, <3>2, DecisionCount, FS_AddElement DEF Counted
      <3>4. failures[j] = Cardinality(Decisions(j)) + 1
        BY <1>2, <3>1 DEF Counted, OneDecisionPerFailure
      <3> QED
        BY <3>3, <3>4
    <2> QED
      BY <2>1, <2>2
  <1>10. Cardinality(Decisions(j)') \in Nat
    BY <1>2, <1>9 DEF RoutesInv, RoutesTypeOK
  <1>11. ASSUME NEW k \in Jobs
         PROVE  failures'[k] = Cardinality(Decisions(k)') + IF Parkable(k)' THEN 1 ELSE 0
    <2>1. CASE k = j
      BY <1>4a, <1>7, <1>9, <1>10, <2>1
    <2>2. CASE k # j
      BY <1>4a, <1>8, <2>2 DEF Counted, OneDecisionPerFailure
    <2> QED
      BY <2>1, <2>2
  <1> QED
    BY <1>5, <1>11 DEF Counted, OneDecisionPerFailure

(* A failure is counted when the job comes to wait for a decision. *)
LEMMA JobMovesKeepsCount ==
  ASSUME RoutesInv, Counted, NEW j \in Jobs, JobMoves(j)
  PROVE  Counted'
  <1>1. /\ job \in [Jobs -> JobState \union {"absent"}]
        /\ failures \in [Jobs -> Nat]
    BY DEF RoutesInv, RoutesTypeOK, TablesTypeOK
  <1>2. PICK to \in JobState \ {"queued", "redrive_pending", "abandoned", "cancelled"} :
          /\ job[j] # "absent"
          /\ CanTransition(job[j], to)
          /\ job' = [job EXCEPT ![j] = to]
    BY DEF JobMoves, Work
  <1>3. /\ UNCHANGED idem
        /\ failures' = [failures EXCEPT ![j] =
             IF CanTransition(job'[j], "redrive_pending") THEN @ + 1 ELSE @]
    BY DEF JobMoves, Work
  <1>4. /\ job'[j] = to
        /\ \A k \in Jobs \ {j} : job'[k] = job[k] /\ failures'[k] = failures[k]
        /\ failures'[j] = IF CanTransition(to, "redrive_pending") THEN failures[j] + 1
                                                                 ELSE failures[j]
    BY <1>1, <1>2, <1>3
  <1>5. ~Parkable(j)
    BY <1>1, <1>2 DEF Parkable, CanTransition, TRANSITIONS, JobState
  <1>6. Parkable(j)' <=> CanTransition(to, "redrive_pending")
    BY <1>2, <1>4 DEF Parkable, JobState
  <1>7. \A k \in Jobs : Decisions(k)' = Decisions(k)
    BY <1>3 DEF Decisions
  <1>8. \A k \in Jobs \ {j} : Parkable(k)' = Parkable(k)
    BY <1>4 DEF Parkable
  <1>9. ASSUME NEW k \in Jobs
        PROVE  failures'[k] = Cardinality(Decisions(k)') + IF Parkable(k)' THEN 1 ELSE 0
    <2>1. CASE k = j
      <3>1. failures[j] = Cardinality(Decisions(j)) /\ Cardinality(Decisions(j)) \in Nat
        BY <1>1, <1>5, DecisionCount DEF Counted, OneDecisionPerFailure
      <3> QED
        BY <1>4, <1>6, <1>7, <2>1, <3>1
    <2>2. CASE k # j
      BY <1>4, <1>7, <1>8, <2>2 DEF Counted, OneDecisionPerFailure
    <2> QED
      BY <2>1, <2>2
  <1> QED
    BY <1>3, <1>9 DEF Counted, OneDecisionPerFailure

(* Each failure of a job is answered by one decision at most, whatever     *)
(* keys, operators and retries race, and none is answered unasked.         *)
THEOREM FailuresAnsweredOnce == Spec => []OneDecisionPerFailure
  <1>1. Init => Counted
    <2> SUFFICES ASSUME Init PROVE Counted
      OBVIOUS
    <2>1. ASSUME NEW j \in Jobs
          PROVE  failures[j] = Cardinality(Decisions(j)) + IF Parkable(j) THEN 1 ELSE 0
      <3>1. Decisions(j) = {} /\ ~Parkable(j) /\ failures[j] = 0
        BY DEF Init, TablesInit, Decisions, Parkable
      <3>2. Cardinality(Decisions(j)) = 0
        BY <3>1, FS_EmptySet
      <3> QED
        BY <3>1, <3>2
    <2>2. IsFiniteSet(idem)
      BY FS_EmptySet DEF Init, TablesInit
    <2> QED
      BY <2>1, <2>2 DEF Counted, OneDecisionPerFailure
  <1>2. RoutesInv /\ Counted /\ [Next]_vars => Counted'
    <2> SUFFICES ASSUME RoutesInv, Counted, [Next]_vars PROVE Counted'
      OBVIOUS
    <2>1. ASSUME NEW h \in Handlers, Serve(h)
          PROVE  Counted'
      <3>1. CASE Create(h) \/ Redrive(h) \/ Abandon(h)
        BY <3>1, CommitKeepsCount
      <3>2. CASE \/ ReserveKey(h) \/ Replay(h) \/ RefuseKey(h) \/ Send(h)
                 \/ Read(h) \/ RefuseState(h) \/ Park(h) \/ RefuseMoved(h)
        BY <3>2, SameKeepsCount
           DEF ReserveKey, Replay, RefuseKey, Send, Read, RefuseState, Park, RefuseMoved, Refuse
      <3> QED
        BY <2>1, <3>1, <3>2 DEF Serve
    <2>2. ASSUME NEW j \in Jobs, JobMoves(j)
          PROVE  Counted'
      BY <2>2, JobMovesKeepsCount
    <2>3. CASE \/ \E h \in Handlers, s \in Scope, n \in Notes, j \in Jobs : Receive(h, s, n, j)
               \/ \E h \in Handlers : Fail(h)
               \/ UNCHANGED vars
      BY <2>3, SameKeepsCount DEF Receive, Fail, vars
    <2> QED
      BY <2>1, <2>2, <2>3 DEF Next
  <1>3. Counted => OneDecisionPerFailure
    BY DEF Counted
  <1> QED
    BY <1>1, <1>2, <1>3, RoutesInvHolds, PTL DEF Spec

-----------------------------------------------------------------------------
(* Keys and the work they name *)

(* The record r names the i-th dispatch of job j. *)
Names(r, j, i) ==
  r.scope = outbox[j][i] /\ r.job = j /\ r.generation = IF i = 1 THEN NoGeneration ELSE i - 1

Closings(j) == {r \in idem : r.job = j /\ r.scope.command = "abandon"}

(* A job has dispatches once it exists, every record tells the truth, and  *)
(* every dispatch and every abandonment is on record.                      *)
RecordsTrue ==
  /\ \A j \in Jobs : job[j] = "absent" <=> outbox[j] = <<>>
  /\ \A r \in idem : Done(r)
  /\ \A j \in Jobs : \A i \in 1 .. Len(outbox[j]) : \E r \in idem : Names(r, j, i)
  /\ \A j \in Jobs : job[j] = "abandoned" => \E r : Closings(j) = {r}

(* What a record says was done, command by command. *)
LEMMA DoneByCommand ==
  ASSUME NEW r \in Record
  PROVE  Done(r) <=>
           /\ r.scope.command = "submit" => Len(outbox[r.job]) >= 1 /\ outbox[r.job][1] = r.scope
           /\ r.scope.command = "redrive" =>
                /\ r.generation \in 1 .. Len(outbox[r.job]) - 1
                /\ outbox[r.job][r.generation + 1] = r.scope
           /\ r.scope.command = "abandon" => job[r.job] = "abandoned"
  <1>1. r.scope.command \in {"submit", "redrive", "abandon"}
    BY DEF Record, Scope, Command
  <1> QED
    BY <1>1 DEF Done, NextGeneration

(* The same, after a step. *)
LEMMA DoneByCommandAfter ==
  ASSUME NEW r \in Record
  PROVE  Done(r)' <=>
           /\ r.scope.command = "submit" => Len(outbox'[r.job]) >= 1 /\ outbox'[r.job][1] = r.scope
           /\ r.scope.command = "redrive" =>
                /\ r.generation \in 1 .. Len(outbox'[r.job]) - 1
                /\ outbox'[r.job][r.generation + 1] = r.scope
           /\ r.scope.command = "abandon" => job'[r.job] = "abandoned"
  <1>1. r.scope.command \in {"submit", "redrive", "abandon"}
    BY DEF Record, Scope, Command
  <1> QED
    BY <1>1 DEF Done, NextGeneration

(* True records are what the property asks for. *)
LEMMA TrueRecordsNameWork ==
  ASSUME RoutesInv, RecordsTrue
  PROVE  KeyNamesAcceptedWork
  <1>1. ASSUME NEW s \in Scope
        PROVE  Cardinality(Recorded(s)) <= 1
    <2>1. CASE Recorded(s) = {}
      BY <2>1, FS_EmptySet
    <2>2. ASSUME NEW r \in Recorded(s)
          PROVE  Cardinality(Recorded(s)) <= 1
      <3>1. Recorded(s) = {r}
        BY <2>2 DEF Recorded, RoutesInv, KeysHeld
      <3>2. Cardinality({r}) = 1
        BY FS_Singleton
      <3> QED
        BY <3>1, <3>2
    <2> QED
      BY <2>1, <2>2
  <1>2. ASSUME NEW j \in Jobs, NEW i \in 1 .. Len(outbox[j])
        PROVE  \E r \in Recorded(outbox[j][i]) :
                 r.job = j /\ r.generation = IF i = 1 THEN NoGeneration ELSE i - 1
    BY DEF RecordsTrue, Names, Recorded
  <1>3. ASSUME NEW j \in Jobs, job[j] = "abandoned"
        PROVE  Cardinality({r \in idem : r.job = j /\ r.scope.command = "abandon"}) = 1
    BY <1>3, FS_Singleton DEF RecordsTrue, Closings
  <1> QED
    BY <1>1, <1>2, <1>3 DEF KeyNamesAcceptedWork, RecordsTrue

(* A step that leaves jobs, dispatches and records alone keeps them true. *)
LEMMA SameKeepsTrue ==
  ASSUME RecordsTrue, UNCHANGED <<job, outbox, idem>>
  PROVE  RecordsTrue'
  <1>1. \A r \in idem : Done(r)'
    BY DEF RecordsTrue, Done, NextGeneration
  <1>2. \A j \in Jobs : \A i \in 1 .. Len(outbox'[j]) : \E r \in idem' : Names(r, j, i)'
    BY DEF RecordsTrue, Names
  <1>3. \A j \in Jobs : Closings(j)' = Closings(j)
    BY DEF Closings
  <1> QED
    BY <1>1, <1>2, <1>3 DEF RecordsTrue

(* A record or a dispatch of another job is as true as before. *)
LEMMA OtherJobs ==
  ASSUME RoutesInv, RecordsTrue, NEW j \in Jobs, NEW r \in Record,
         r.job = j, idem' = idem \union {r},
         \A k \in Jobs \ {j} : job'[k] = job[k] /\ outbox'[k] = outbox[k]
  PROVE  /\ \A k \in Jobs \ {j} : job'[k] = "absent" <=> outbox'[k] = <<>>
         /\ \A q \in idem : q.job # j => Done(q)'
         /\ \A k \in Jobs \ {j} : \A i \in 1 .. Len(outbox'[k]) : \E q \in idem' : Names(q, k, i)'
         /\ \A k \in Jobs \ {j} : job'[k] = "abandoned" => \E q : Closings(k)' = {q}
  <1>1. \A k \in Jobs \ {j} : job'[k] = "absent" <=> outbox'[k] = <<>>
    BY DEF RecordsTrue
  <1>2. ASSUME NEW q \in idem, q.job # j
        PROVE  Done(q)'
    <2>1. q \in Record /\ q.job \in Jobs \ {j} /\ Done(q)
      BY <1>2 DEF RecordsTrue, RoutesInv, RoutesTypeOK, TablesTypeOK, Record
    <2> QED
      BY <2>1, DoneByCommand, DoneByCommandAfter
  <1>3. \A k \in Jobs \ {j} : \A i \in 1 .. Len(outbox'[k]) : \E q \in idem' : Names(q, k, i)'
    BY DEF RecordsTrue, Names
  <1>4. ASSUME NEW k \in Jobs \ {j}, job'[k] = "abandoned"
        PROVE  \E q : Closings(k)' = {q}
    <2>1. Closings(k)' = Closings(k)
      BY DEF Closings
    <2> QED
      BY <1>4, <2>1 DEF RecordsTrue
  <1> QED
    BY <1>1, <1>2, <1>3, <1>4

(* A submission starts the list of a job that had no record. *)
LEMMA CreateKeepsTrue ==
  ASSUME RoutesInv, RecordsTrue, NEW h \in Handlers, Create(h)
  PROVE  RecordsTrue'
  <1>1. PICK s \in Scope, n \in Notes, j \in Jobs :
          s = handler[h].scope /\ n = handler[h].note /\ j = handler[h].job
    BY AtStep, HeldSteps DEF RoutesInv, Request, Create
  <1> DEFINE r == [scope |-> s, note |-> n, job |-> j, generation |-> NoGeneration]
  <1>2. s.command = "submit" /\ job[j] = "absent" /\ \A q \in idem : q.job # j
    BY <1>1 DEF RoutesInv, JobsKnown, Create
  <1>3. r \in Record /\ r.job = j /\ r.scope = s /\ r.generation = NoGeneration
    BY <1>1 DEF Record, Generation
  <1>4. /\ job' = [job EXCEPT ![j] = "queued"]
        /\ outbox' = [outbox EXCEPT ![j] = Append(@, s)]
        /\ idem' = idem \union {r}
    BY <1>1 DEF Create, CreateJob, Enqueued, Keep
  <1>5. /\ job \in [Jobs -> JobState \union {"absent"}]
        /\ outbox \in [Jobs -> Seq(Scope)]
    BY DEF RoutesInv, RoutesTypeOK, TablesTypeOK
  <1>6. outbox[j] = <<>>
    BY <1>1, <1>2 DEF RecordsTrue
  <1> HIDE DEF r
  <1>7. job'[j] = "queued" /\ outbox'[j] = <<s>>
    BY <1>1, <1>4, <1>5, <1>6
  <1>8. \A k \in Jobs \ {j} : job'[k] = job[k] /\ outbox'[k] = outbox[k]
    BY <1>1, <1>4, <1>5
  <1>9. Len(outbox'[j]) = 1 /\ outbox'[j][1] = s /\ outbox'[j] # <<>>
    BY <1>1, <1>7
  <1>10. Done(r)'
    BY <1>2, <1>3, <1>9, DoneByCommandAfter
  <1>11. \A i \in 1 .. Len(outbox'[j]) : Names(r, j, i)'
    BY <1>3, <1>9 DEF Names
  <1>12. /\ \A k \in Jobs \ {j} : job'[k] = "absent" <=> outbox'[k] = <<>>
         /\ \A q \in idem : q.job # j => Done(q)'
         /\ \A k \in Jobs \ {j} : \A i \in 1 .. Len(outbox'[k]) : \E q \in idem' : Names(q, k, i)'
         /\ \A k \in Jobs \ {j} : job'[k] = "abandoned" => \E q : Closings(k)' = {q}
    BY <1>1, <1>3, <1>4, <1>8, OtherJobs
  <1>13. \A k \in Jobs : job'[k] = "absent" <=> outbox'[k] = <<>>
    BY <1>7, <1>9, <1>12
  <1>14. \A q \in idem' : Done(q)'
    BY <1>2, <1>4, <1>10, <1>12
  <1>15. \A k \in Jobs : \A i \in 1 .. Len(outbox'[k]) : \E q \in idem' : Names(q, k, i)'
    BY <1>4, <1>11, <1>12
  <1>16. \A k \in Jobs : job'[k] = "abandoned" => \E q : Closings(k)' = {q}
    BY <1>7, <1>12
  <1> QED
    BY <1>13, <1>14, <1>15, <1>16 DEF RecordsTrue

(* A re-drive adds the dispatch its record names, and moves no other. *)
LEMMA RedriveKeepsTrue ==
  ASSUME RoutesInv, RecordsTrue, NEW h \in Handlers, Redrive(h)
  PROVE  RecordsTrue'
  <1>1. PICK s \in Scope, n \in Notes, j \in Jobs :
          s = handler[h].scope /\ n = handler[h].note /\ j = handler[h].job
    BY AtStep, HeldSteps DEF RoutesInv, Request, Redrive, Deciding
  <1>2. /\ s.command = "redrive"
        /\ job[j] # "absent" /\ job[j] # "abandoned"
    BY <1>1 DEF RoutesInv, RowsHeld, Redrive, Parkable, CanTransition, TRANSITIONS, JobState
  <1>3. /\ job \in [Jobs -> JobState \union {"absent"}]
        /\ outbox \in [Jobs -> Seq(Scope)]
        /\ idem \subseteq Record
    BY DEF RoutesInv, RoutesTypeOK, TablesTypeOK
  <1>4. PICK g \in Nat \ {0} : /\ g = Len(outbox[j])
                               /\ outbox[j] \in Seq(Scope)
    <2>1. outbox[j] # <<>>
      BY <1>2 DEF RecordsTrue
    <2>2. outbox[j] \in Seq(Scope)
      BY <1>3
    <2>3. Len(outbox[j]) \in Nat \ {0}
      BY <2>1, <2>2
    <2> QED
      BY <2>2, <2>3
  <1> DEFINE r == [scope |-> s, note |-> n, job |-> j, generation |-> g]
  <1>5. r \in Record /\ r.job = j /\ r.scope = s /\ r.generation = g
    BY <1>1, <1>4 DEF Record, Generation
  <1>6. /\ job' = [job EXCEPT ![j] = "queued"]
        /\ outbox' = [outbox EXCEPT ![j] = Append(@, s)]
        /\ idem' = idem \union {r}
    BY <1>1, <1>4 DEF Redrive, RequeueJob, Enqueued, Keep, NextGeneration
  <1> HIDE DEF r
  <1>7. job'[j] = "queued" /\ outbox'[j] = Append(outbox[j], s)
    BY <1>1, <1>3, <1>6
  <1>8. \A k \in Jobs \ {j} : job'[k] = job[k] /\ outbox'[k] = outbox[k]
    BY <1>1, <1>3, <1>6
  <1>9. /\ Len(outbox'[j]) = g + 1
        /\ outbox'[j][g + 1] = s
        /\ \A i \in 1 .. g : outbox'[j][i] = outbox[j][i]
        /\ outbox'[j] # <<>>
    BY <1>1, <1>4, <1>7
  <1>10. Done(r)'
    BY <1>2, <1>4, <1>5, <1>9, DoneByCommandAfter
  <1>11. ASSUME NEW q \in idem, q.job = j
         PROVE  Done(q)'
    <2>1. q \in Record /\ Done(q)
      BY <1>3, <1>11 DEF RecordsTrue
    <2>2. q.scope.command # "abandon"
      BY <1>2, <1>11, <2>1, DoneByCommand
    <2>3. q.scope.command = "submit" => outbox'[j][1] = q.scope
      BY <1>4, <1>9, <1>11, <2>1, DoneByCommand
    <2>4. q.scope.command = "redrive" =>
            q.generation \in 1 .. g /\ outbox'[j][q.generation + 1] = q.scope
      BY <1>4, <1>9, <1>11, <2>1, DoneByCommand
    <2> QED
      BY <1>4, <1>9, <1>11, <2>1, <2>2, <2>3, <2>4, DoneByCommandAfter
  <1>12. ASSUME NEW i \in 1 .. Len(outbox'[j])
         PROVE  \E q \in idem' : Names(q, j, i)'
    <2>1. CASE i = g + 1
      <3>1. Names(r, j, i)'
        BY <1>4, <1>5, <1>9, <2>1 DEF Names
      <3> QED
        BY <1>6, <3>1
    <2>2. CASE i # g + 1
      <3>1. i \in 1 .. g
        BY <1>4, <1>9, <2>2
      <3>2. PICK q \in idem : Names(q, j, i)
        BY <1>1, <1>4, <3>1 DEF RecordsTrue
      <3>3. Names(q, j, i)'
        BY <1>9, <3>1, <3>2 DEF Names
      <3> QED
        BY <1>6, <3>3
    <2> QED
      BY <2>1, <2>2
  <1>13. /\ \A k \in Jobs \ {j} : job'[k] = "absent" <=> outbox'[k] = <<>>
         /\ \A q \in idem : q.job # j => Done(q)'
         /\ \A k \in Jobs \ {j} : \A i \in 1 .. Len(outbox'[k]) : \E q \in idem' : Names(q, k, i)'
         /\ \A k \in Jobs \ {j} : job'[k] = "abandoned" => \E q : Closings(k)' = {q}
    BY <1>1, <1>5, <1>6, <1>8, OtherJobs
  <1>14. \A k \in Jobs : job'[k] = "absent" <=> outbox'[k] = <<>>
    BY <1>7, <1>9, <1>13
  <1>15. \A q \in idem' : Done(q)'
    BY <1>6, <1>10, <1>11, <1>13
  <1>16. \A k \in Jobs : \A i \in 1 .. Len(outbox'[k]) : \E q \in idem' : Names(q, k, i)'
    BY <1>12, <1>13
  <1>17. \A k \in Jobs : job'[k] = "abandoned" => \E q : Closings(k)' = {q}
    BY <1>7, <1>13
  <1> QED
    BY <1>14, <1>15, <1>16, <1>17 DEF RecordsTrue

(* An abandonment is the first of its job, which nothing revives. *)
LEMMA AbandonKeepsTrue ==
  ASSUME RoutesInv, RecordsTrue, NEW h \in Handlers, Abandon(h)
  PROVE  RecordsTrue'
  <1>1. PICK s \in Scope, n \in Notes, j \in Jobs :
          s = handler[h].scope /\ n = handler[h].note /\ j = handler[h].job
    BY AtStep, HeldSteps DEF RoutesInv, Request, Abandon, Deciding
  <1> DEFINE r == [scope |-> s, note |-> n, job |-> j, generation |-> NoGeneration]
  <1>2. /\ s.command = "abandon"
        /\ job[j] # "absent" /\ job[j] # "abandoned"
    BY <1>1 DEF RoutesInv, RowsHeld, Abandon, Parkable, CanTransition, TRANSITIONS, JobState
  <1>3. /\ job \in [Jobs -> JobState \union {"absent"}]
        /\ idem \subseteq Record
    BY DEF RoutesInv, RoutesTypeOK, TablesTypeOK
  <1>4. r \in Record /\ r.job = j /\ r.scope = s
    BY <1>1 DEF Record, Generation
  <1>5. /\ job' = [job EXCEPT ![j] = "abandoned"]
        /\ UNCHANGED outbox
        /\ idem' = idem \union {r}
    BY <1>1 DEF Abandon, CloseJob, Keep
  <1> HIDE DEF r
  <1>6. /\ job'[j] = "abandoned"
        /\ \A k \in Jobs \ {j} : job'[k] = job[k] /\ outbox'[k] = outbox[k]
    BY <1>1, <1>3, <1>5
  <1>7. Done(r)'
    BY <1>2, <1>4, <1>6, DoneByCommandAfter
  <1>8. ASSUME NEW q \in idem, q.job = j
        PROVE  Done(q)' /\ q.scope.command # "abandon"
    <2>1. q \in Record /\ Done(q)
      BY <1>3, <1>8 DEF RecordsTrue
    <2>2. q.scope.command # "abandon"
      BY <1>2, <1>8, <2>1, DoneByCommand
    <2> QED
      BY <1>5, <1>8, <2>1, <2>2, DoneByCommand, DoneByCommandAfter
  <1>9. Closings(j)' = {r}
    BY <1>2, <1>4, <1>5, <1>8 DEF Closings
  <1>10. \A i \in 1 .. Len(outbox'[j]) : \E q \in idem' : Names(q, j, i)'
    BY <1>1, <1>5 DEF RecordsTrue, Names
  <1>11. outbox'[j] # <<>>
    BY <1>1, <1>2, <1>5 DEF RecordsTrue
  <1>12. /\ \A k \in Jobs \ {j} : job'[k] = "absent" <=> outbox'[k] = <<>>
         /\ \A q \in idem : q.job # j => Done(q)'
         /\ \A k \in Jobs \ {j} : \A i \in 1 .. Len(outbox'[k]) : \E q \in idem' : Names(q, k, i)'
         /\ \A k \in Jobs \ {j} : job'[k] = "abandoned" => \E q : Closings(k)' = {q}
    BY <1>1, <1>4, <1>5, <1>6, OtherJobs
  <1>13. \A k \in Jobs : job'[k] = "absent" <=> outbox'[k] = <<>>
    BY <1>6, <1>11, <1>12
  <1>14. \A q \in idem' : Done(q)'
    BY <1>5, <1>7, <1>8, <1>12
  <1>15. \A k \in Jobs : \A i \in 1 .. Len(outbox'[k]) : \E q \in idem' : Names(q, k, i)'
    BY <1>10, <1>12
  <1>16. \A k \in Jobs : job'[k] = "abandoned" => \E q : Closings(k)' = {q}
    BY <1>9, <1>12
  <1> QED
    BY <1>13, <1>14, <1>15, <1>16 DEF RecordsTrue

(* The rest of the system neither revives an abandoned job nor closes one. *)
LEMMA JobMovesKeepsTrue ==
  ASSUME RoutesInv, RecordsTrue, NEW j \in Jobs, JobMoves(j)
  PROVE  RecordsTrue'
  <1>1. /\ job \in [Jobs -> JobState \union {"absent"}]
        /\ idem \subseteq Record
    BY DEF RoutesInv, RoutesTypeOK, TablesTypeOK
  <1>2. PICK to \in JobState \ {"queued", "redrive_pending", "abandoned", "cancelled"} :
          /\ job[j] # "absent"
          /\ CanTransition(job[j], to)
          /\ job' = [job EXCEPT ![j] = to]
    BY DEF JobMoves, Work
  <1>3. UNCHANGED <<outbox, idem>>
    BY DEF JobMoves, Work
  <1>4. job[j] # "abandoned"
    BY <1>1, <1>2 DEF CanTransition, TRANSITIONS, JobState
  <1>5. \A k \in Jobs : /\ job'[k] = "absent" <=> job[k] = "absent"
                        /\ job'[k] = "abandoned" <=> job[k] = "abandoned"
    BY <1>1, <1>2, <1>4 DEF JobState
  <1>6. ASSUME NEW q \in idem
        PROVE  Done(q)'
    <2>1. q \in Record /\ q.job \in Jobs /\ Done(q)
      BY <1>1, <1>6 DEF RecordsTrue, Record
    <2> QED
      BY <1>3, <1>5, <2>1, DoneByCommand, DoneByCommandAfter
  <1>7. \A k \in Jobs : \A i \in 1 .. Len(outbox'[k]) : \E q \in idem' : Names(q, k, i)'
    BY <1>3 DEF RecordsTrue, Names
  <1>8. \A k \in Jobs : job'[k] = "abandoned" => \E q : Closings(k)' = {q}
    BY <1>3, <1>5 DEF RecordsTrue, Closings
  <1> QED
    BY <1>3, <1>5, <1>6, <1>7, <1>8 DEF RecordsTrue

(* However requests with one key overlap, fail and are retried, a key has  *)
(* one record at most, what a record says was done was done, and nothing   *)
(* was done that no record names.                                          *)
THEOREM KeysNameAcceptedWork == Spec => []KeyNamesAcceptedWork
  <1>1. Init => RecordsTrue
    BY DEF Init, TablesInit, RecordsTrue
  <1>2. RoutesInv /\ RecordsTrue /\ [Next]_vars => RecordsTrue'
    <2> SUFFICES ASSUME RoutesInv, RecordsTrue, [Next]_vars PROVE RecordsTrue'
      OBVIOUS
    <2>1. ASSUME NEW h \in Handlers, Serve(h)
          PROVE  RecordsTrue'
      <3>1. CASE Create(h) \/ Redrive(h) \/ Abandon(h)
        BY <3>1, CreateKeepsTrue, RedriveKeepsTrue, AbandonKeepsTrue
      <3>2. CASE \/ ReserveKey(h) \/ Replay(h) \/ RefuseKey(h) \/ Send(h)
                 \/ Read(h) \/ RefuseState(h) \/ Park(h) \/ RefuseMoved(h)
        BY <3>2, SameKeepsTrue
           DEF ReserveKey, Replay, RefuseKey, Send, Read, RefuseState, Park, RefuseMoved, Refuse
      <3> QED
        BY <2>1, <3>1, <3>2 DEF Serve
    <2>2. ASSUME NEW j \in Jobs, JobMoves(j)
          PROVE  RecordsTrue'
      BY <2>2, JobMovesKeepsTrue
    <2>3. CASE \/ \E h \in Handlers, s \in Scope, n \in Notes, j \in Jobs : Receive(h, s, n, j)
               \/ \E h \in Handlers : Fail(h)
               \/ UNCHANGED vars
      BY <2>3, SameKeepsTrue DEF Receive, Fail, vars
    <2> QED
      BY <2>1, <2>2, <2>3 DEF Next
  <1>3. RoutesInv /\ RecordsTrue => KeyNamesAcceptedWork
    BY TrueRecordsNameWork
  <1> QED
    BY <1>1, <1>2, <1>3, RoutesInvHolds, PTL DEF Spec

-----------------------------------------------------------------------------
(* Waiting *)

(* What serving a request asks of the database before its next statement   *)
(* takes effect: the guards of Serve, which is conditions and assignments. *)
Ready(h) ==
  \/ CanInsert(h)
  \/ handler[h].at \in {"create", "read", "answer"}
  \/ handler[h].at = "park" /\ RowHolders(handler[h].job) = {}
  \/ handler[h].at = "decide" /\ handler[h].scope.command \in {"redrive", "abandon"}

(* While requests are in progress the next statement of one of them waits  *)
(* for nobody, whatever requests there are and however many: a key is      *)
(* waited for by one that holds nothing, a row by one whose holders wait   *)
(* for nothing, and a decision is one of the two the routes make.          *)
THEOREM RequestsReady ==
  Spec => []((\E h \in Handlers : handler[h] # Idle)
               => \E h \in Handlers : handler[h] # Idle /\ Ready(h))
  <1>1. ASSUME RoutesInv, NEW h \in Handlers, handler[h] # Idle
        PROVE  \E g \in Handlers : handler[g] # Idle /\ Ready(g)
    <2>1. \A g \in Handlers : handler[g].at \in Step => handler[g] # Idle /\ handler[g] \in Request
      BY <1>1, AtStep DEF RoutesInv
    <2>2. handler[h].at \in Step
      BY <1>1, Working DEF RoutesInv, Request
    <2>3. CASE \E g \in Handlers : handler[g].at = "decide"
      <3>1. PICK g \in Handlers : handler[g].at = "decide"
        BY <2>3
      <3>2. handler[g] # Idle /\ handler[g].scope.command \in Command
        BY <2>1, <3>1 DEF Step, Request, Scope
      <3>3. handler[g].scope.command # "submit"
        BY <1>1, <3>1 DEF RoutesInv, JobsKnown, Deciding
      <3> QED
        BY <3>1, <3>2, <3>3 DEF Ready, Command
    <2>4. CASE /\ \A g \in Handlers : handler[g].at # "decide"
               /\ \E g \in Handlers : handler[g].at = "park"
      <3>1. PICK g \in Handlers : handler[g].at = "park"
        BY <2>4
      <3>2. RowHolders(handler[g].job) = {} /\ handler[g] # Idle
        BY <2>1, <2>4, <3>1 DEF RowHolders, Step
      <3> QED
        BY <3>1, <3>2 DEF Ready
    <2>5. CASE \E g \in Handlers : handler[g].at \in {"create", "read", "answer"}
      BY <2>1, <2>5 DEF Ready, Step
    <2>6. CASE \A g \in Handlers : handler[g].at \notin {"create", "read", "answer", "park", "decide"}
      <3>1. handler[h].at = "reserve" /\ KeyHolders(handler[h].scope) = {}
        BY <2>2, <2>6 DEF Step, KeyHolders
      <3> QED
        BY <1>1, <3>1 DEF Ready, CanInsert
    <2> QED
      BY <2>3, <2>4, <2>5, <2>6
  <1>2. RoutesInv => ((\E h \in Handlers : handler[h] # Idle)
                       => \E h \in Handlers : handler[h] # Idle /\ Ready(h))
    BY <1>1
  <1> QED
    BY <1>2, RoutesInvHolds, PTL

=============================================================================
