--------------------------- MODULE EventLogProofs ---------------------------
(***************************************************************************)
(* Proofs about the event log, for any number of workers, sweeps, clients  *)
(* and runs, and any page size.                                            *)
(***************************************************************************)
EXTENDS EventLog, FiniteSetTheorems, SequenceTheorems, TLAPS

(* Rows numbered without gaps are counted by the highest number.           *)
LEMMA LogLength ==
  ASSUME LogIsSequence
  PROVE  /\ Len(events) \in Nat
         /\ DOMAIN events = 1 .. Len(events)
         /\ Last = Len(events)
  <1>0. events \in Seq(Event)
    BY DEF LogIsSequence
  <1>1. Len(events) \in Nat /\ DOMAIN events = 1 .. Len(events)
    BY <1>0, LenProperties
  <1>2. \A n \in Nat : Cardinality(1 .. n) = n
    <2> SUFFICES ASSUME NEW n \in Nat PROVE Cardinality(1 .. n) = n
      OBVIOUS
    <2>1. Cardinality(1 .. n) = IF 1 > n THEN 0 ELSE n - 1 + 1
      BY FS_Interval
    <2> QED
      BY <2>1
  <1> QED
    BY <1>1, <1>2 DEF Last

(* What a step must see to that changes what one process is doing and      *)
(* leaves the tables alone.                                                *)
LEMMA SessionStep ==
  ASSUME LogInv,
         NEW p \in Sessions, NEW s \in Session,
         session' = [session EXCEPT ![p] = s],
         UNCHANGED <<job, events, cursor, received>>,
         s.at # "idle" => s.run \in 1 .. MaxRuns,
         s.at \in Appending => s.kind \in Kind,
         s.at \in {"renew", "renewed"} => s.kind \in {"started", "progress"},
         s.at = "insert" => s.number \in 1 .. Len(events) + 1,
         s.at \in {"refer", "renew", "renewed", "commit"} =>
           /\ s.number = Len(events) + 1
           /\ \A q \in Sessions \ {p} : ~HasEntry(q),
         s.at = "renewed" \/ (s.at \in Appending /\ s.kind \in Ending) =>
           /\ job.status = "running"
           /\ RowHolders(p) = {}
  PROVE  LogInv'
  <1>1. session'[p] = s /\ (\A q \in Sessions \ {p} : session'[q] = session[q])
    BY DEF LogInv, TypeOK
  <1>2. TypeOK'
    BY DEF LogInv, TypeOK
  <1>3. LogIsSequence' /\ RunsCounted' /\ ReadersHavePrefixes'
    BY DEF LogInv, LogIsSequence, RunsCounted, ReadersHavePrefixes
  <1>4. NextNumberHeldOnce'
    BY <1>1 DEF LogInv, NextNumberHeldOnce, HasEntry, On
  <1>5. RowHeldOnce'
    BY <1>1 DEF LogInv, RowHeldOnce, HoldsRow, RowHolders, On
  <1>6. SessionsAreRuns'
    BY <1>1 DEF LogInv, SessionsAreRuns, On
  <1>7. EveryRunIsExplained'
    BY DEF LogInv, EveryRunIsExplained, Endings
  <1> QED
    BY <1>2, <1>3, <1>4, <1>5, <1>6, <1>7 DEF LogInv

(* A process is doing one of the things it can do.                         *)
LEMMA ProcessType ==
  ASSUME TypeOK, NEW p \in Sessions
  PROVE  session[p] \in Session
  BY DEF TypeOK

-----------------------------------------------------------------------------
(* The actions of a process *)

(* A progress report starts: nothing is held yet.                          *)
LEMMA EmitStep ==
  ASSUME LogInv, NEW w \in Workers, Emit(w)
  PROVE  LogInv'
  <1> DEFINE s == [session[w] EXCEPT !.at = "number",
                     !.kind = IF On(w, "claimed") THEN "started" ELSE "progress"]
  <1>1. w \in Sessions /\ session[w] \in Session
    BY ProcessType DEF LogInv, Sessions
  <1>2. session' = [session EXCEPT ![w] = s]
    BY DEF Emit, LogInv, TypeOK
  <1>3. s \in Session /\ s.at = "number" /\ s.kind \in {"started", "progress"} /\ s.run = session[w].run
    BY <1>1 DEF Session, Appending, Kind
  <1>4. s.run \in 1 .. MaxRuns
    BY <1>1, <1>3 DEF Emit, LogInv, SessionsAreRuns, On
  <1> HIDE DEF s
  <1> QED
    BY <1>1, <1>2, <1>3, <1>4, SessionStep
    DEF Emit, LogInv, TypeOK, Kind, Ending, Outcome

(* The handler writes: its process has neither number nor row.             *)
LEMMA StageStep ==
  ASSUME LogInv, NEW w \in Workers, Stage(w)
  PROVE  LogInv'
  <1> DEFINE s == [session[w] EXCEPT !.staged = TRUE]
  <1>1. w \in Sessions /\ session[w] \in Session
    BY ProcessType DEF LogInv, Sessions
  <1>2. session' = [session EXCEPT ![w] = s]
    BY DEF Stage, LogInv, TypeOK
  <1>3. s \in Session /\ s.at = "working" /\ s.run = session[w].run
    BY <1>1 DEF Stage, On, Session
  <1>4. s.run \in 1 .. MaxRuns
    BY <1>1, <1>3 DEF Stage, LogInv, SessionsAreRuns, On
  <1> HIDE DEF s
  <1> QED
    BY <1>1, <1>2, <1>3, <1>4, SessionStep DEF Stage, LogInv, TypeOK, Appending

(* An outcome takes the row only when nobody else has it.                  *)
LEMMA FinishStep ==
  ASSUME LogInv, NEW w \in Workers, NEW kind \in Outcome, Finish(w, kind)
  PROVE  LogInv'
  <1> DEFINE s == [session[w] EXCEPT !.at = "number",
                     !.kind   = IF job.status = "running" THEN kind ELSE "discarded",
                     !.staged = session[w].staged /\ kind = "completed" /\ job.status = "running"]
  <1>1. w \in Sessions /\ session[w] \in Session
    BY ProcessType DEF LogInv, Sessions
  <1>2. session' = [session EXCEPT ![w] = s]
    BY DEF Finish, LogInv, TypeOK
  <1>3. /\ s \in Session /\ s.at = "number" /\ s.run = session[w].run
        /\ s.kind = IF job.status = "running" THEN kind ELSE "discarded"
    BY <1>1 DEF Session, Appending, Kind, Ending
  <1>4. s.run \in 1 .. MaxRuns
    BY <1>1, <1>3 DEF Finish, LogInv, SessionsAreRuns, On
  <1> HIDE DEF s
  <1>5. s.kind \in Kind /\ (s.kind \in Ending => job.status = "running")
    BY <1>3 DEF Kind, Ending, Outcome
  <1> QED
    BY <1>1, <1>2, <1>3, <1>4, <1>5, SessionStep DEF Finish, LogInv, TypeOK

(* A sweep takes the row of a running job only when nobody has it.         *)
LEMMA SweepStep ==
  ASSUME LogInv, NEW p \in Sweepers, Sweep(p)
  PROVE  LogInv'
  <1> DEFINE s == [Idle EXCEPT !.at = "number", !.kind = "timed_out", !.run = job.run]
  <1>1. p \in Sessions /\ session' = [session EXCEPT ![p] = s]
    BY DEF Sweep, Sessions
  <1>2. job.run \in 1 .. MaxRuns /\ job.run \in Nat
    BY BoundsAssumption DEF Sweep, LogInv, RunsCounted
  <1>3. s \in Session /\ s.at = "number" /\ s.kind = "timed_out" /\ s.run = job.run
    BY <1>2 DEF Session, Idle, Appending, Kind, Ending
  <1> HIDE DEF s
  <1> QED
    BY <1>1, <1>2, <1>3, SessionStep DEF Sweep, LogInv, TypeOK, Kind, Ending

(* Every action of an append that goes on keeps the kind and the run.      *)
LEMMA NumberStep ==
  ASSUME LogInv, NEW p \in Sessions, Number(p)
  PROVE  LogInv'
  <1>1. PICK n \in {0} \union DOMAIN events :
          /\ \A m \in DOMAIN events : m <= n
          /\ session' = [session EXCEPT ![p].at = "insert", ![p].number = n + 1]
    BY DEF Number
  <1> DEFINE s == [session[p] EXCEPT !.at = "insert", !.number = n + 1]
  <1>2. session[p] \in Session
    BY ProcessType DEF LogInv
  <1>3. session' = [session EXCEPT ![p] = s]
    BY <1>1 DEF LogInv, TypeOK
  <1>4. n \in 0 .. Len(events) /\ Len(events) \in Nat
    BY <1>1, LogLength DEF LogInv
  <1>5. n + 1 \in Nat /\ n + 1 \in 1 .. Len(events) + 1
    BY <1>4
  <1>6. /\ s \in Session /\ s.at = "insert" /\ s.number = n + 1
        /\ s.run = session[p].run /\ s.kind = session[p].kind
    BY <1>2, <1>5 DEF Session, Appending
  <1>7. /\ session[p].at = "number" /\ s.run \in 1 .. MaxRuns /\ s.kind \in Kind
        /\ s.kind \in Ending => HoldsRow(p)
    BY <1>6 DEF Number, LogInv, SessionsAreRuns, On, Appending, HoldsRow
  <1>8. s.kind \in Ending => job.status = "running" /\ RowHolders(p) = {}
    BY <1>7 DEF LogInv, RowHeldOnce, RowHolders
  <1> HIDE DEF s
  <1> QED
    BY <1>3, <1>5, <1>6, <1>7, <1>8, SessionStep DEF Number, LogInv, TypeOK

(* The row is inserted at a number nobody else has.                        *)
LEMMA InsertStep ==
  ASSUME LogInv, NEW p \in Sessions, Insert(p)
  PROVE  LogInv'
  <1> DEFINE s == [session[p] EXCEPT !.at = "refer"]
  <1>1. session[p] \in Session
    BY ProcessType DEF LogInv
  <1>2. session' = [session EXCEPT ![p] = s]
    BY DEF Insert, GoTo, LogInv, TypeOK
  <1>3. /\ s \in Session /\ s.at = "refer" /\ s.number = session[p].number
        /\ s.run = session[p].run /\ s.kind = session[p].kind
    BY <1>1 DEF Session, Appending
  <1>4. /\ session[p].at = "insert" /\ s.run \in 1 .. MaxRuns /\ s.kind \in Kind
        /\ s.kind \in Ending => HoldsRow(p)
    BY <1>3 DEF Insert, LogInv, SessionsAreRuns, On, Appending, HoldsRow
  <1>5. s.kind \in Ending => job.status = "running" /\ RowHolders(p) = {}
    BY <1>4 DEF LogInv, RowHeldOnce, RowHolders
  <1>6. s.number = Len(events) + 1
    BY <1>3, <1>4, LogLength DEF Insert, LogInv, NextNumberHeldOnce, On
  <1>7. \A q \in Sessions \ {p} : ~HasEntry(q)
    BY <1>3, <1>4, <1>6 DEF Insert, WaitsFor, LogInv, NextNumberHeldOnce, On
  <1> HIDE DEF s
  <1> QED
    BY <1>2, <1>3, <1>4, <1>5, <1>6, <1>7, SessionStep DEF Insert, LogInv, TypeOK

(* The foreign key is checked: entry and row stay as they are.             *)
LEMMA ReferStep ==
  ASSUME LogInv, NEW p \in Sessions, Refer(p)
  PROVE  LogInv'
  <1> DEFINE s == [session[p] EXCEPT !.at =
                     IF session[p].kind \in {"started", "progress"} THEN "renew" ELSE "commit"]
  <1>1. session[p] \in Session
    BY ProcessType DEF LogInv
  <1>2. session' = [session EXCEPT ![p] = s]
    BY DEF Refer, GoTo, LogInv, TypeOK
  <1>3. /\ s \in Session /\ s.number = session[p].number
        /\ s.at = IF session[p].kind \in {"started", "progress"} THEN "renew" ELSE "commit"
        /\ s.run = session[p].run /\ s.kind = session[p].kind
    BY <1>1 DEF Session, Appending
  <1>4. /\ HasEntry(p) /\ s.run \in 1 .. MaxRuns /\ s.kind \in Kind
        /\ s.kind \in Ending => HoldsRow(p)
    BY <1>3 DEF Refer, LogInv, SessionsAreRuns, On, Appending, HoldsRow, HasEntry
  <1>5. s.kind \in Ending => job.status = "running" /\ RowHolders(p) = {}
    BY <1>4 DEF LogInv, RowHeldOnce, RowHolders
  <1>6. s.number = Len(events) + 1 /\ \A q \in Sessions \ {p} : ~HasEntry(q)
    BY <1>3, <1>4 DEF LogInv, NextNumberHeldOnce
  <1> HIDE DEF s
  <1> QED
    BY <1>2, <1>3, <1>4, <1>5, <1>6, SessionStep DEF Refer, LogInv, TypeOK

(* A renewal takes the row only when nobody else has it.                   *)
LEMMA RenewStep ==
  ASSUME LogInv, NEW p \in Sessions, Renew(p)
  PROVE  LogInv'
  <1> DEFINE s == [session[p] EXCEPT !.at =
                     IF job.status = "running" THEN "renewed" ELSE "commit"]
  <1>1. session[p] \in Session
    BY ProcessType DEF LogInv
  <1>2. session' = [session EXCEPT ![p] = s]
    BY DEF Renew, GoTo, LogInv, TypeOK
  <1>3. /\ s \in Session /\ s.number = session[p].number
        /\ s.at = IF job.status = "running" THEN "renewed" ELSE "commit"
        /\ s.run = session[p].run /\ s.kind = session[p].kind
    BY <1>1 DEF Session, Appending
  <1>4. /\ HasEntry(p) /\ s.run \in 1 .. MaxRuns
        /\ s.kind \in {"started", "progress"}
    BY <1>3 DEF Renew, LogInv, SessionsAreRuns, On, HasEntry
  <1>5. RowHolders(p) = {}
    BY DEF Renew, WaitsFor, On
  <1>6. s.number = Len(events) + 1 /\ \A q \in Sessions \ {p} : ~HasEntry(q)
    BY <1>3, <1>4 DEF LogInv, NextNumberHeldOnce
  <1> HIDE DEF s
  <1> QED
    BY <1>2, <1>3, <1>4, <1>5, <1>6, SessionStep
    DEF Renew, LogInv, TypeOK, Kind, Ending, Outcome

(* A process that ends holds nothing.                                      *)
LEMMA EndStep ==
  ASSUME LogInv, NEW p \in Sessions, End(p),
         UNCHANGED <<job, events, cursor, received>>
  PROVE  LogInv'
  <1>1. Idle \in Session /\ Idle.at = "idle"
    BY DEF Idle, Session
  <1> QED
    BY <1>1, SessionStep DEF End, Appending

(* A transaction that failed holds nothing.                                *)
LEMMA GiveUpStep ==
  ASSUME LogInv, NEW p \in Sessions, session[p].at \in Appending, GiveUp(p),
         UNCHANGED <<job, events, cursor, received>>
  PROVE  LogInv'
  <1>1. CASE session[p].kind # "progress"
    BY <1>1, EndStep DEF GiveUp
  <1>2. CASE session[p].kind = "progress"
    <2> DEFINE s == [session[p] EXCEPT !.at = "failing", !.staged = FALSE]
    <2>1. session[p] \in Session
      BY ProcessType DEF LogInv
    <2>2. session' = [session EXCEPT ![p] = s]
      BY <1>2 DEF GiveUp, LogInv, TypeOK
    <2>3. s \in Session /\ s.at = "failing" /\ s.run = session[p].run
      BY <2>1 DEF Session
    <2>4. s.run \in 1 .. MaxRuns
      BY <2>3 DEF LogInv, SessionsAreRuns, On, Appending
    <2> HIDE DEF s
    <2> QED
      BY <2>2, <2>3, <2>4, SessionStep DEF Appending
  <1> QED
    BY <1>1, <1>2
-----------------------------------------------------------------------------
(* The actions that change the tables *)

(* A claim starts a run of a job whose runs are all explained.             *)
LEMMA ClaimStep ==
  ASSUME LogInv, NEW w \in Workers, Claim(w)
  PROVE  LogInv'
  <1> DEFINE s == [Idle EXCEPT !.at = "claimed", !.run = job.run + 1]
  <1>1. w \in Sessions /\ session' = [session EXCEPT ![w] = s]
    BY DEF Claim, Sessions
  <1>2. job.run + 1 \in 1 .. MaxRuns /\ job.run + 1 \in Nat /\ job.run \in Nat
    BY BoundsAssumption DEF Claim, LogInv, RunsCounted
  <1>3. s \in Session /\ s.at = "claimed" /\ s.run = job.run + 1
    BY <1>2 DEF Session, Idle, Appending, Kind, Ending
  <1> HIDE DEF s
  <1>4. session'[w] = s /\ (\A q \in Sessions \ {w} : session'[q] = session[q])
    BY <1>1 DEF LogInv, TypeOK
  <1>5. job' = [status |-> "running", lease |-> "live", run |-> job.run + 1]
        /\ UNCHANGED <<events, cursor, received>>
    BY DEF Claim
  <1>6. TypeOK'
    <2>1. job' \in Job
      BY <1>2, <1>5 DEF Job, Status
    <2>2. session' \in [Sessions -> Session]
      BY <1>1, <1>3 DEF LogInv, TypeOK
    <2> QED
      BY <1>5, <2>1, <2>2 DEF LogInv, TypeOK
  <1>7. LogIsSequence' /\ RunsCounted' /\ ReadersHavePrefixes'
    BY <1>2, <1>5 DEF LogInv, LogIsSequence, RunsCounted, ReadersHavePrefixes
  <1>8. NextNumberHeldOnce'
    BY <1>3, <1>4, <1>5 DEF LogInv, NextNumberHeldOnce, HasEntry, On
  <1>9. RowHeldOnce'
    BY <1>3, <1>4, <1>5 DEF LogInv, RowHeldOnce, HoldsRow, On, Appending
  <1>10. SessionsAreRuns'
    BY <1>2, <1>3, <1>4 DEF LogInv, SessionsAreRuns, On, Appending
  <1>11. EveryRunIsExplained'
    <2>1. Cardinality(Endings) = job.run
      BY <1>2 DEF Claim, LogInv, EveryRunIsExplained
    <2>2. Endings' = Endings
      BY <1>5 DEF Endings
    <2> QED
      BY <1>2, <1>5, <2>1, <2>2 DEF EveryRunIsExplained, Ending, Outcome
  <1> QED
    BY <1>6, <1>7, <1>8, <1>9, <1>10, <1>11 DEF LogInv

(* A deadline that passes changes nothing else.                            *)
LEMMA LeaseStep ==
  ASSUME LogInv, LeasePasses
  PROVE  LogInv'
  <1>1. /\ job' = [job EXCEPT !.lease = "expired"]
        /\ UNCHANGED <<events, session, cursor, received>>
        /\ job \in Job
    BY DEF LeasePasses, LogInv, TypeOK
  <1>2. job' \in Job /\ job'.status = job.status /\ job'.run = job.run
    BY <1>1 DEF Job
  <1>3. TypeOK' /\ LogIsSequence' /\ RunsCounted' /\ ReadersHavePrefixes'
    BY <1>1, <1>2 DEF LogInv, TypeOK, LogIsSequence, RunsCounted, ReadersHavePrefixes
  <1>4. NextNumberHeldOnce' /\ RowHeldOnce' /\ SessionsAreRuns'
    BY <1>1, <1>2 DEF LogInv, NextNumberHeldOnce, RowHeldOnce, SessionsAreRuns,
                      HasEntry, HoldsRow, On
  <1>5. EveryRunIsExplained'
    BY <1>1, <1>2 DEF LogInv, EveryRunIsExplained, Endings
  <1> QED
    BY <1>3, <1>4, <1>5 DEF LogInv

(* A re-drive leaves the runs and their events alone.                      *)
LEMMA RedriveStep ==
  ASSUME LogInv, Redrive
  PROVE  LogInv'
  <1>1. /\ job' = [job EXCEPT !.status = "dispatched"]
        /\ UNCHANGED <<events, session, cursor, received>>
        /\ job \in Job /\ job.status # "running"
    BY DEF Redrive, LogInv, TypeOK
  <1>2. job' \in Job /\ job'.status = "dispatched" /\ job'.run = job.run
    BY <1>1 DEF Job, Status
  <1>3. TypeOK' /\ LogIsSequence' /\ RunsCounted' /\ ReadersHavePrefixes'
    BY <1>1, <1>2 DEF LogInv, TypeOK, LogIsSequence, RunsCounted, ReadersHavePrefixes
  <1>4. NextNumberHeldOnce' /\ RowHeldOnce' /\ SessionsAreRuns'
    BY <1>1, <1>2 DEF LogInv, NextNumberHeldOnce, RowHeldOnce, SessionsAreRuns,
                      HasEntry, HoldsRow, On
  <1>5. EveryRunIsExplained'
    BY <1>1, <1>2 DEF LogInv, EveryRunIsExplained, Endings, Ending, Outcome
  <1> QED
    BY <1>3, <1>4, <1>5 DEF LogInv

(* A page has every event from the cursor to its last one.                 *)
LEMMA PageIsContiguous ==
  ASSUME LogInv, NEW r \in Readers, Read(r)
  PROVE  /\ cursor'[r] \in cursor[r] + 1 .. Len(events)
         /\ received'[r] = 1 .. cursor'[r]
         /\ \A q \in Readers \ {r} : cursor'[q] = cursor[q] /\ received'[q] = received[q]
  <1> DEFINE new  == {n \in DOMAIN events : n > cursor[r]}
             page == {n \in new : Cardinality({m \in new : m < n}) < PageSize}
  <1>1. PICK last \in page : /\ \A n \in page : n <= last
                             /\ cursor' = [cursor EXCEPT ![r] = last]
    BY DEF Read
  <1>2. received' = [received EXCEPT ![r] = received[r] \union page]
    BY DEF Read
  <1>3. DOMAIN events = 1 .. Len(events) /\ Len(events) \in Nat
    BY LogLength DEF LogInv
  <1>4. cursor[r] \in Nat /\ received[r] = 1 .. cursor[r]
    BY DEF LogInv, TypeOK, ReadersHavePrefixes
  <1>5. last \in cursor[r] + 1 .. Len(events)
    BY <1>1, <1>3, <1>4
  <1>6. ASSUME NEW n \in cursor[r] + 1 .. last
        PROVE  n \in page
    <2>1. n \in new /\ n \in Int /\ last \in Int
      BY <1>3, <1>4, <1>5
    <2>2. {m \in new : m < n} \subseteq {m \in new : m < last}
      BY <1>3, <1>6, <2>1
    <2>3. IsFiniteSet(1 .. Len(events)) /\ {m \in new : m < last} \in SUBSET (1 .. Len(events))
      BY <1>3, FS_Interval
    <2>4. IsFiniteSet({m \in new : m < last})
      BY <2>3, FS_Subset
    <2>5. Cardinality({m \in new : m < n}) <= Cardinality({m \in new : m < last})
      BY <2>2, <2>4, FS_Subset
    <2>6. /\ Cardinality({m \in new : m < n}) \in Nat
          /\ Cardinality({m \in new : m < last}) \in Nat
      BY <2>2, <2>4, FS_Subset, FS_CardinalityType
    <2>7. Cardinality({m \in new : m < last}) < PageSize
      BY <1>1
    <2> QED
      BY <2>1, <2>5, <2>6, <2>7, BoundsAssumption
  <1>7. page \subseteq cursor[r] + 1 .. last
    BY <1>1, <1>3, <1>4, <1>5
  <1>8. page = cursor[r] + 1 .. last
    BY <1>6, <1>7
  <1> HIDE DEF page
  <1>9. received[r] \union page = 1 .. last
    BY <1>4, <1>5, <1>8, <1>3
  <1> QED
    BY <1>1, <1>2, <1>5, <1>9 DEF LogInv, TypeOK

(* A client that reads keeps a prefix.                                     *)
LEMMA ReadStep ==
  ASSUME LogInv, NEW r \in Readers, Read(r)
  PROVE  LogInv'
  <1>1. UNCHANGED <<job, events, session>>
    BY DEF Read
  <1>2. /\ cursor'[r] \in cursor[r] + 1 .. Len(events)
        /\ received'[r] = 1 .. cursor'[r]
        /\ \A q \in Readers \ {r} : cursor'[q] = cursor[q] /\ received'[q] = received[q]
    BY PageIsContiguous
  <1>3. Len(events) \in Nat /\ cursor[r] \in Nat
    BY LogLength DEF LogInv, TypeOK
  <1>4. cursor'[r] \in Nat /\ cursor'[r] <= Len(events)
    BY <1>2, <1>3
  <1>5. \A q \in Readers : cursor'[q] \in Nat /\ received'[q] \in SUBSET Nat
    BY <1>2, <1>4 DEF LogInv, TypeOK
  <1>6. /\ cursor' = [q \in Readers |-> cursor'[q]]
        /\ received' = [q \in Readers |-> received'[q]]
    BY DEF Read, LogInv, TypeOK
  <1>7. cursor' \in [Readers -> Nat] /\ received' \in [Readers -> SUBSET Nat]
    BY <1>5, <1>6
  <1>8. TypeOK' /\ LogIsSequence' /\ RunsCounted'
    BY <1>1, <1>7 DEF LogInv, TypeOK, LogIsSequence, RunsCounted
  <1>9. ReadersHavePrefixes'
    BY <1>1, <1>2, <1>4 DEF LogInv, ReadersHavePrefixes
  <1>10. NextNumberHeldOnce' /\ RowHeldOnce' /\ SessionsAreRuns'
    BY <1>1 DEF LogInv, NextNumberHeldOnce, RowHeldOnce, SessionsAreRuns,
                      HasEntry, HoldsRow, On
  <1>11. EveryRunIsExplained'
    BY <1>1 DEF LogInv, EveryRunIsExplained, Endings
  <1> QED
    BY <1>8, <1>9, <1>10, <1>11 DEF LogInv
(* What commits an event puts it at the end of the log.                    *)
LEMMA CommitAppends ==
  ASSUME LogInv, NEW p \in Sessions, Commit(p)
  PROVE  /\ session[p].number = Len(events) + 1
         /\ [kind |-> session[p].kind, run |-> session[p].run] \in Event
         /\ events' = Append(events, [kind |-> session[p].kind, run |-> session[p].run])
  <1> DEFINE e == [kind |-> session[p].kind, run |-> session[p].run]
  <1>1. HasEntry(p) /\ session[p].number = Len(events) + 1
    BY DEF Commit, LogInv, NextNumberHeldOnce, HasEntry, On
  <1>2. session[p].kind \in Kind /\ session[p].run \in 1 .. MaxRuns
    BY DEF Commit, LogInv, SessionsAreRuns, On, Appending
  <1>3. e \in Event
    BY <1>2 DEF Event
  <1>4. DOMAIN events = 1 .. Len(events) /\ Len(events) \in Nat
    BY LogLength DEF LogInv
  <1>5. events \in Seq(Event)
    BY DEF LogInv, LogIsSequence
  <1>6. events' = [n \in DOMAIN events \union {session[p].number} |->
                    IF n = session[p].number THEN e ELSE events[n]]
    BY DEF Commit
  <1> HIDE DEF e
  <1>7. DOMAIN events \union {session[p].number} = 1 .. Len(events) + 1
    BY <1>1, <1>4
  <1>8. events' = [n \in 1 .. Len(events) + 1 |-> IF n = Len(events) + 1 THEN e ELSE events[n]]
    BY <1>1, <1>6, <1>7
  <1>9. /\ Append(events, e) \in Seq(Event)
        /\ Len(Append(events, e)) = Len(events) + 1
        /\ \A i \in 1 .. Len(events) : Append(events, e)[i] = events[i]
        /\ Append(events, e)[Len(events) + 1] = e
    BY <1>3, <1>5, AppendProperties
  <1>10. Append(events, e) = [n \in 1 .. Len(events) + 1 |-> Append(events, e)[n]]
    BY <1>9, LenProperties
  <1>11. events' = Append(events, e)
    BY <1>4, <1>8, <1>9, <1>10
  <1> QED
    BY <1>1, <1>3, <1>11 DEF e

(* It is one more ending, and the last, or none.                           *)
LEMMA CommitExplains ==
  ASSUME LogInv, NEW p \in Sessions, Commit(p)
  PROVE  EveryRunIsExplained'
  <1> DEFINE e == [kind |-> session[p].kind, run |-> session[p].run]
             k == Len(events)
  <1>1. events \in Seq(Event) /\ e \in Event /\ events' = Append(events, e)
    BY CommitAppends DEF LogInv, LogIsSequence
  <1>2. DOMAIN events = 1 .. k /\ k \in Nat
    BY LogLength DEF LogInv
  <1>3. e.kind = session[p].kind
    OBVIOUS
  <1> HIDE DEF e
  <1>4. /\ DOMAIN events' = 1 .. k + 1
        /\ \A n \in 1 .. k : events'[n] = events[n]
        /\ events'[k + 1] = e
    BY <1>1, AppendProperties, LenProperties
  <1>5. job \in Job /\ job.run \in Nat
    BY DEF LogInv, TypeOK, Job
  <1>6. Endings \subseteq 1 .. k /\ IsFiniteSet(1 .. k)
    BY <1>2, FS_Interval DEF Endings
  <1>7. IsFiniteSet(Endings)
    BY <1>6, FS_Subset
  <1>8. k + 1 \notin Endings
    BY <1>2, <1>6
  <1>9. CASE session[p].kind \in Ending
    <2>1. job.status = "running"
      BY <1>9 DEF Commit, LogInv, RowHeldOnce, HoldsRow, On, Appending
    <2>2. job' = [job EXCEPT !.status = session[p].kind, !.lease = "none"]
      BY <1>9 DEF Commit
    <2>3. job'.status = session[p].kind /\ job'.run = job.run
      BY <1>5, <2>2 DEF Job
    <2>4. Endings' = Endings \union {k + 1}
      BY <1>2, <1>3, <1>4, <1>9 DEF Endings
    <2>5. Cardinality(Endings') = Cardinality(Endings) + 1
      BY <1>7, <1>8, <2>4, FS_AddElement
    <2>6. Cardinality(Endings) = job.run - 1
      BY <2>1 DEF LogInv, EveryRunIsExplained
    <2>7. job'.status # "running"
      BY <1>9, <2>3 DEF Ending, Outcome
    <2>8. k + 1 \in Endings' /\ \A m \in Endings' : m <= k + 1
      BY <1>2, <1>6, <2>4
    <2>9. Cardinality(Endings') = job'.run - IF job'.status = "running" THEN 1 ELSE 0
      BY <1>5, <2>3, <2>5, <2>6, <2>7
    <2>10. events'[k + 1].kind = job'.status
      BY <1>3, <1>4, <2>3
    <2> QED
      BY <2>8, <2>9, <2>10 DEF EveryRunIsExplained
  <1>10. CASE session[p].kind \notin Ending
    <2>1. job'.status = job.status /\ job'.run = job.run
      BY <1>5, <1>10 DEF Commit, Job
    <2>2. Endings' = Endings
      BY <1>2, <1>3, <1>4, <1>10 DEF Endings
    <2>3. \A n \in Endings : events'[n] = events[n]
      BY <1>4, <1>6
    <2> QED
      BY <2>1, <2>2, <2>3 DEF LogInv, EveryRunIsExplained
  <1> QED
    BY <1>9, <1>10

(* A commit releases what the transaction held.                            *)
LEMMA CommitStep ==
  ASSUME LogInv, NEW p \in Sessions, Commit(p)
  PROVE  LogInv'
  <1> DEFINE e == [kind |-> session[p].kind, run |-> session[p].run]
             k == Len(events)
  <1>1. events \in Seq(Event) /\ e \in Event /\ events' = Append(events, e)
    BY CommitAppends DEF LogInv, LogIsSequence
  <1> HIDE DEF e
  <1>2. events' \in Seq(Event) /\ Len(events') = k + 1 /\ k \in Nat
    BY <1>1, AppendProperties, LenProperties
  <1>3. DOMAIN events' \subseteq Nat \ {0} /\ \A n \in DOMAIN events' : events'[n] \in Event
    BY <1>2, LenProperties
  <1>4. session[p] \in Session /\ job \in Job
    BY ProcessType DEF LogInv, TypeOK
  <1>5. session'[p] = Idle \/ session'[p] = [session[p] EXCEPT !.at = "working"]
    BY DEF Commit, GoTo, End, LogInv, TypeOK
  <1>6. /\ session'[p] \in Session /\ session'[p].at \in {"idle", "working"}
        /\ session'[p].at = "working" => session'[p].run = session[p].run
    <2>1. Idle \in Session /\ Idle.at = "idle"
      BY DEF Idle, Session
    <2>2. CASE session'[p] = [session[p] EXCEPT !.at = "working"]
      BY <1>4, <2>2 DEF Session
    <2> QED
      BY <1>5, <2>1, <2>2
  <1>7. session' \in [Sessions -> Session] /\ \A q \in Sessions \ {p} : session'[q] = session[q]
    BY <1>4, <1>6 DEF Commit, GoTo, End, LogInv, TypeOK
  <1>8. HasEntry(p) /\ \A q \in Sessions \ {p} : ~HasEntry(q)
    BY DEF Commit, LogInv, NextNumberHeldOnce, HasEntry, On
  <1>9. /\ job' \in Job /\ job'.run = job.run
        /\ job'.status = IF session[p].kind \in Ending THEN session[p].kind ELSE job.status
    BY <1>4 DEF Commit, Job, Status
  <1>10. UNCHANGED <<cursor, received>>
    BY DEF Commit
  <1>11. TypeOK'
    BY <1>3, <1>7, <1>9, <1>10 DEF LogInv, TypeOK
  <1>12. LogIsSequence' /\ RunsCounted'
    BY <1>2, <1>9 DEF LogInv, LogIsSequence, RunsCounted, Ending, Outcome
  <1>13. NextNumberHeldOnce'
    BY <1>2, <1>6, <1>7, <1>8 DEF LogInv, NextNumberHeldOnce, HasEntry, On
  <1>14. RowHeldOnce'
    <2>1. ~HoldsRow(p)'
      BY <1>6 DEF HoldsRow, On, Appending
    <2>2. \A q \in Sessions \ {p} : HoldsRow(q)' => HoldsRow(q)
      BY <1>7 DEF HoldsRow, On
    <2>3. session[p].kind \in Ending => HoldsRow(p)
      BY DEF Commit, HoldsRow, On, Appending
    <2> QED
      BY <1>9, <2>1, <2>2, <2>3 DEF LogInv, RowHeldOnce
  <1>15. SessionsAreRuns'
    BY <1>6, <1>7, <1>8 DEF LogInv, SessionsAreRuns, HasEntry, On, Appending
  <1>16. ReadersHavePrefixes'
    BY <1>2, <1>10 DEF LogInv, TypeOK, ReadersHavePrefixes
  <1>17. EveryRunIsExplained'
    BY CommitExplains
  <1> QED
    BY <1>11, <1>12, <1>13, <1>14, <1>15, <1>16, <1>17 DEF LogInv

-----------------------------------------------------------------------------
(* The specification *)

(* Nothing is said and nothing has run.                                    *)
LEMMA LogInvInit == Init => LogInv
  <1> SUFFICES ASSUME Init PROVE LogInv
    OBVIOUS
  <1>1. Idle \in Session
    BY DEF Idle, Session
  <1>2. events = <<>> /\ events \in Seq(Event) /\ Len(events) = 0 /\ DOMAIN events = {}
    BY DEF Init
  <1>3. job.run = 0 /\ job.status = "dispatched" /\ job \in Job
    BY DEF Init, Job, Status
  <1>4. \A p \in Sessions : session[p] = Idle /\ session[p].at = "idle"
    BY DEF Init, Idle
  <1>5. TypeOK
    BY <1>1, <1>2, <1>3 DEF Init, TypeOK
  <1>6. LogIsSequence /\ RunsCounted
    BY <1>2, <1>3, BoundsAssumption DEF LogIsSequence, RunsCounted
  <1>7. NextNumberHeldOnce /\ RowHeldOnce /\ SessionsAreRuns
    BY <1>4 DEF NextNumberHeldOnce, RowHeldOnce, SessionsAreRuns, HasEntry, HoldsRow, On, Appending
  <1>8. ReadersHavePrefixes
    BY <1>2 DEF Init, ReadersHavePrefixes
  <1>9. EveryRunIsExplained
    <2>1. Endings = {}
      BY <1>2 DEF Endings
    <2> QED
      BY <1>3, <2>1, FS_EmptySet DEF EveryRunIsExplained, Ending, Outcome
  <1> QED
    BY <1>5, <1>6, <1>7, <1>8, <1>9 DEF LogInv

(* One step per action.                                                    *)
LEMMA LogInvStep == LogInv /\ [Next]_vars => LogInv'
  <1> SUFFICES ASSUME LogInv, [Next]_vars PROVE LogInv'
    OBVIOUS
  <1>1. ASSUME NEW p \in Sessions, Proceed(p) \/ Die(p) PROVE LogInv'
    <2>1. CASE Collide(p)
      BY <2>1, GiveUpStep DEF Collide, On, Appending
    <2>2. CASE Cancel(p)
      <3>1. session[p].at \in Appending
        BY <2>2 DEF Cancel, Deadlocked, WaitsFor, On, Appending
      <3> QED
        BY <2>2, <3>1, GiveUpStep DEF Cancel, LogInv, TypeOK
    <2>3. CASE Die(p)
      BY <2>3, EndStep DEF Die, LogInv, TypeOK
    <2> QED
      BY <1>1, <2>1, <2>2, <2>3, NumberStep, InsertStep, ReferStep, RenewStep, CommitStep
      DEF Proceed
  <1>2. CASE UNCHANGED vars
    BY <1>2 DEF vars, LogInv, TypeOK, LogIsSequence, RunsCounted, NextNumberHeldOnce,
       RowHeldOnce, SessionsAreRuns, ReadersHavePrefixes, EveryRunIsExplained, Endings,
       HasEntry, HoldsRow, On
  <1> QED
    BY <1>1, <1>2, ClaimStep, EmitStep, StageStep, FinishStep, SweepStep, LeaseStep,
       RedriveStep, ReadStep DEF Next

(* The invariant holds in every reachable state.                           *)
LEMMA LogInvariant == Spec => []LogInv
  BY LogInvInit, LogInvStep, PTL DEF Spec

(* The row, the log, the transactions and the clients keep their types.    *)
THEOREM LogTypeCorrect == Spec => []TypeOK
  <1>1. LogInv => TypeOK
    BY DEF LogInv
  <1> QED
    BY <1>1, LogInvariant, PTL

(* However the sweep, handlers and late handlers of earlier runs meet, the *)
(* log has one ending for each run that is over, and the last says what    *)
(* the job is (_finish(), StalledJobSweeper).                              *)
THEOREM RunsExplained == Spec => []EveryRunIsExplained
  <1>1. LogInv => EveryRunIsExplained
    BY DEF LogInv
  <1> QED
    BY <1>1, LogInvariant, PTL

(* A step of the tables adds one event at the end, lets one client catch   *)
(* up, or is not seen.                                                     *)
LEMMA LogStepRefines == LogInv /\ [Next]_vars => [Log!Next]_(Log!vars)
  <1> SUFFICES ASSUME LogInv, [Next]_vars PROVE [Log!Next]_(Log!vars)
    OBVIOUS
  <1>1. ASSUME NEW p \in Sessions, Commit(p) PROVE Log!Next
    <2> DEFINE e == [kind |-> session[p].kind, run |-> session[p].run]
    <2>1. e \in Event /\ events' = Append(events, e)
      BY <1>1, CommitAppends
    <2>2. UNCHANGED received
      BY <1>1 DEF Commit
    <2> QED
      BY <2>1, <2>2 DEF Log!Next, Log!Add
  <1>2. ASSUME NEW r \in Readers, Read(r) PROVE Log!Next
    <2>1. /\ cursor'[r] \in cursor[r] + 1 .. Len(events)
          /\ received'[r] = 1 .. cursor'[r]
      BY <1>2, PageIsContiguous
    <2>2. /\ cursor[r] \in Nat /\ Len(events) \in Nat
          /\ received[r] = 1 .. cursor[r]
          /\ received \in [Readers -> SUBSET Nat]
      BY LogLength DEF LogInv, TypeOK, ReadersHavePrefixes
    <2>3. /\ cursor'[r] \in 1 .. Len(events)
          /\ received[r] \subseteq 1 .. cursor'[r]
      BY <2>1, <2>2
    <2>4. received' = [received EXCEPT ![r] = received'[r]] /\ UNCHANGED events
      BY <1>2, <2>2 DEF Read
    <2>5. received' = [received EXCEPT ![r] = 1 .. cursor'[r]]
      BY <2>1, <2>4
    <2> QED
      BY <2>3, <2>4, <2>5 DEF Log!Next, Log!CatchUp
  <1>3. CASE UNCHANGED <<events, received>>
    BY <1>3 DEF Log!vars
  <1>4. \/ \E p \in Sessions : Commit(p)
        \/ \E r \in Readers : Read(r)
        \/ UNCHANGED <<events, received>>
    BY DEF Next, Proceed, vars, Claim, Emit, Stage, Finish, Sweep, Number, Insert, Refer,
           Renew, Collide, Cancel, Die, LeasePasses, Redrive
  <1> QED
    BY <1>1, <1>2, <1>3, <1>4

(* Transactions that compute their numbers themselves, and clients that    *)
(* resume from the last they saw, implement a log that grows at its end    *)
(* and is read from its start without a gap (append_event(),               *)
(* stream_job_events()).                                                   *)
THEOREM LogIsOrdered == Spec => ImplementsOrderedLog
  <1>1. Init => Log!Init
    BY DEF Init, Log!Init
  <1> QED
    BY <1>1, LogInvariant, LogStepRefines, PTL DEF Spec, ImplementsOrderedLog, Log!Spec

-----------------------------------------------------------------------------
(* Queues *)

(* Of the transactions that wait, one is waited for by the others.         *)
LEMMA WhomTheyAwait ==
  ASSUME LogInv, NEW p \in Sessions, NEW q \in WaitsFor(p)
  PROVE  /\ q \in Sessions \ {p}
         /\ \/ On(p, "insert") /\ HasEntry(q)
            \/ (On(p, "refer") \/ On(p, "renew")) /\ HoldsRow(q)
  BY DEF WaitsFor, RowSweepers, RowHolders, On

(* A transaction that has updated the row goes on, or waits for an entry   *)
(* whose transaction does, or waits for it.                                *)
LEMMA RowHolderGoesOn ==
  ASSUME LogInv, NEW h \in Sessions, HoldsRow(h)
  PROVE  /\ session[h].at \in Appending /\ ~ On(h, "renew")
         /\ On(h, "refer") => WaitsFor(h) = {}
         /\ ~ On(h, "insert") => GoesOn(h)
  <1>1. session[h].at \in Appending
    BY DEF HoldsRow, On, Appending
  <1>2. ~ On(h, "renew")
    <2>. SUFFICES ASSUME On(h, "renew") PROVE FALSE
      OBVIOUS
    <2>1. session[h].kind \in {"started", "progress"}
      BY DEF LogInv, SessionsAreRuns
    <2>. QED
      BY <2>1 DEF HoldsRow, On, Ending, Outcome
  <1>3. RowHolders(h) = {}
    BY DEF LogInv, RowHeldOnce, RowHolders
  <1>4. On(h, "refer") => WaitsFor(h) = {}
    BY <1>3 DEF WaitsFor, RowSweepers, On
  <1>5. ~ On(h, "insert") => WaitsFor(h) = {}
    BY <1>2, <1>4 DEF WaitsFor
  <1>. QED
    BY <1>1, <1>2, <1>4, <1>5 DEF GoesOn

(* A transaction that has its number's entry goes on, or waits for one     *)
(* that has updated the row and that goes on, the wait for this entry      *)
(* being a cycle that is found.                                            *)
LEMMA EntryHolderGoesOn ==
  ASSUME LogInv, NEW e \in Sessions, HasEntry(e)
  PROVE  GoesOn(e) \/ \E h \in WaitsFor(e) : GoesOn(h)
  <1>1. session[e].at \in Appending
    BY DEF HasEntry, Appending
  <1>. SUFFICES ASSUME WaitsFor(e) # {} PROVE \E h \in WaitsFor(e) : GoesOn(h)
    BY <1>1 DEF GoesOn
  <1>2. PICK h \in WaitsFor(e) : TRUE
    OBVIOUS
  <1>3. h \in Sessions \ {e} /\ HoldsRow(h)
    BY <1>2, WhomTheyAwait DEF HasEntry, On
  <1>4. CASE ~ On(h, "insert")
    BY <1>2, <1>3, <1>4, RowHolderGoesOn
  <1>5. CASE On(h, "insert") /\ WaitsFor(h) = {}
    BY <1>2, <1>5 DEF GoesOn, On, Appending
  <1>6. CASE On(h, "insert") /\ WaitsFor(h) # {}
    <2>1. PICK g \in WaitsFor(h) : TRUE
      BY <1>6
    <2>2. g \in Sessions /\ HasEntry(g)
      BY <1>3, <1>6, <2>1, WhomTheyAwait DEF On
    <2>3. g = e
      BY <2>2 DEF LogInv, NextNumberHeldOnce
    <2>4. Deadlocked(h)
      BY <1>2, <2>1, <2>3 DEF Deadlocked
    <2>. QED
      BY <1>2, <1>6, <2>4 DEF GoesOn, On, Appending
  <1>. QED
    BY <1>4, <1>5, <1>6

(* "One row and one next number can be held: no cycle is longer than two", *)
(* for any number of workers and sweeps: every queue of transactions ends  *)
(* in one that goes on or that the deadlock detector ends.                 *)
THEOREM QueuesAlwaysEnd == Spec => []QueuesEnd
  <1>1. LogInv => QueuesEnd
    <2>. SUFFICES ASSUME LogInv, NEW p \in Sessions, session[p].at \in Appending
                  PROVE  \/ GoesOn(p)
                         \/ \E q \in WaitsFor(p) :
                              GoesOn(q) \/ \E r \in WaitsFor(q) : GoesOn(r)
      BY DEF QueuesEnd
    <2>1. CASE WaitsFor(p) = {}
      BY <2>1 DEF GoesOn
    <2>2. CASE On(p, "insert") /\ WaitsFor(p) # {}
      <3>1. PICK q \in WaitsFor(p) : TRUE
        BY <2>2
      <3>2. q \in Sessions /\ HasEntry(q)
        BY <2>2, <3>1, WhomTheyAwait DEF On
      <3>. QED
        BY <3>1, <3>2, EntryHolderGoesOn
    <2>3. CASE (On(p, "refer") \/ On(p, "renew")) /\ WaitsFor(p) # {}
      <3>1. HasEntry(p)
        BY <2>3 DEF HasEntry, On
      <3>. QED
        BY <3>1, EntryHolderGoesOn
    <2>. QED
      BY <2>1, <2>2, <2>3 DEF WaitsFor
  <1>. QED
    BY <1>1, LogInvariant, PTL

=============================================================================
