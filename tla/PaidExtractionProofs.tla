------------------------ MODULE PaidExtractionProofs ------------------------
(***************************************************************************)
(* Proofs about the spend ledger under its workers and its sweep, for any  *)
(* units of work, sessions, ceilings, estimates, costs and leases.         *)
(***************************************************************************)
EXTENDS PaidExtraction, SumsProofs

-----------------------------------------------------------------------------
(* The inductive invariant *)

(* A transaction that has its last row has committed. *)
NotDone == \A s \in Sessions : tx[s].op # "none" => tx[s].held < Len(Plan(tx[s]))

(* A row is locked by one session. *)
Exclusive ==
  \A s, q \in Sessions : s # q =>
    \A i \in 1 .. tx[s].held, m \in 1 .. tx[q].held : Plan(tx[s])[i] # Plan(tx[q])[m]

(* A debited bucket keeps the room it was found to have. *)
RoomKept ==
  \A s \in Sessions : tx[s].op = "reserve" =>
    \A i \in 1 .. tx[s].held : HasRoom(Plan(tx[s])[i], Estimate[tx[s].key[1]])

(* Whatever is below a reservation in its family was released. *)
ReleasedBelow(k) == \A n \in 1 .. MaxAttempts : n < k[2] => rows[<<k[1], n>>].state = "released"

FamilyInOrder == \A k \in Keys : rows[k].state # "absent" => ReleasedBelow(k)

(* What a reserve is about to insert is a reservation over released ones. *)
ReserveStands ==
  \A s \in Sessions : tx[s].op = "reserve" =>
    /\ tx[s].row.state = "reserved" /\ tx[s].row.amount = 0
    /\ ReleasedBelow(tx[s].key)

EndsWell(k, state, amount) ==
  \/ state = "reconciled"
  \/ state = "expired_spent" /\ amount = Estimate[k[1]]
  \/ state = "released" /\ amount = 0

(* What a settle is about to write ends the row it read, and once it holds *)
(* the row nobody has settled it.                                          *)
SettleStands ==
  \A s \in Sessions : tx[s].op = "settle" =>
    /\ EndsWell(tx[s].key, tx[s].row.state, tx[s].row.amount)
    /\ rows[tx[s].key].state # "absent"
    /\ tx[s].row.day = rows[tx[s].key].day
    /\ tx[s].row.expires = rows[tx[s].key].expires
    /\ tx[s].held > 0 => rows[tx[s].key].state = "reserved"

LedgerInv ==
  /\ LedgerTypeOK
  /\ \A s \in Sessions : tx[s].op # "none" => tx[s].row.day \in 0 .. DayOf(MaxTime)
  /\ NotDone /\ Exclusive /\ RoomKept
  /\ FamilyInOrder /\ ReserveStands /\ SettleStands

-----------------------------------------------------------------------------
(* Locks and their order *)

(* A reserve locks its three buckets. *)
LEMMA PlanOfReserve ==
  ASSUME NEW t, t.op = "reserve"
  PROVE  /\ Len(Plan(t)) = 3
         /\ Plan(t)[1] = <<"job", t.key[1], 0>>
         /\ Plan(t)[2] = <<"day", Tenant, t.row.day>>
         /\ Plan(t)[3] = <<"month", Tenant, 0>>
  BY DEF Plan, BucketsOf

(* A settle locks its row before them. *)
LEMMA PlanOfSettle ==
  ASSUME NEW t, t.op = "settle"
  PROVE  /\ Len(Plan(t)) = 4
         /\ Plan(t)[1] = <<"row", t.key[1], t.key[2]>>
         /\ Plan(t)[2] = <<"job", t.key[1], 0>>
         /\ Plan(t)[3] = <<"day", Tenant, t.row.day>>
         /\ Plan(t)[4] = <<"month", Tenant, 0>>
  BY DEF Plan, BucketsOf

(* A transaction is none, a reserve or a settle. *)
LEMMA TxTyped ==
  ASSUME LedgerTypeOK, NEW s \in Sessions
  PROVE  /\ tx[s].op \in {"none", "reserve", "settle"}
         /\ tx[s].held \in Nat
         /\ tx[s].op = "none" => tx[s].held = 0
         /\ tx[s].op # "none" => tx[s].key \in Keys /\ tx[s].row \in Row /\ tx[s] \in Transaction
  BY DEF LedgerTypeOK, Transaction, NoTx

(* A day of the clock is a day that has buckets. *)
LEMMA DaysInOrder ==
  ASSUME NEW t \in 0 .. MaxTime
  PROVE  DayOf(t) \in 0 .. DayOf(MaxTime)
  <1> DEFINE L == DayLength
  <1>1. L \in Nat \ {0} /\ MaxTime \in Nat /\ t \in Nat /\ t <= MaxTime
    BY LedgerAssumption
  <1>2. PICK p \in Nat : p = MaxTime \div L /\ MaxTime < L * (p + 1)
    BY <1>1
  <1>3. PICK q \in Nat : q = t \div L /\ L * q <= t
    BY <1>1
  <1>4. q <= p
    <2>1. SUFFICES ASSUME q >= p + 1 PROVE FALSE
      BY <1>2, <1>3
    <2>2. L * (p + 1) <= L * q
      BY <2>1, <1>1, <1>2, <1>3
    <2> QED
      BY <2>2, <1>1, <1>2, <1>3
  <1> QED
    BY <1>2, <1>3, <1>4 DEF DayOf

(* The family of a unit is counted from one without a gap, so its size is  *)
(* the number of its newest attempt.                                       *)
LEMMA FamilyCounted ==
  ASSUME LedgerTypeOK, FamilyInOrder, NEW j \in Jobs
  PROVE  LET c == Cardinality(Family(j)) IN
         /\ c \in 0 .. MaxAttempts
         /\ Family(j) = 1 .. c
         /\ c > 0 => Newest(j) = <<j, c>>
  <1> DEFINE F == Family(j)
             c == Cardinality(F)
  <1>0. F \subseteq 1 .. MaxAttempts /\ MaxAttempts \in Nat
    BY LedgerAssumption DEF Family
  <1>1. IsFiniteSet(F) /\ c \in Nat /\ c <= MaxAttempts /\ c = Cardinality(F)
    <2>1. IsFiniteSet(1 .. MaxAttempts) /\ Cardinality(1 .. MaxAttempts) = MaxAttempts
      BY FS_Interval, LedgerAssumption
    <2> QED
      BY <1>0, <2>1, FS_Subset, FS_CardinalityType
  <1>2. \A n \in F, m \in 1 .. MaxAttempts : m < n => m \in F
    BY DEF FamilyInOrder, ReleasedBelow, Family, Keys
  <1> HIDE DEF F, c
  <1>3. F \subseteq 1 .. c
    <2>1. SUFFICES ASSUME NEW n \in F, n > c PROVE FALSE
      BY <1>0, <1>1
    <2>2. n \in 1 .. MaxAttempts /\ 1 .. n \subseteq F
      BY <1>0, <1>2, <2>1
    <2>3. Cardinality(1 .. n) = n
      BY <2>2, FS_Interval
    <2> QED
      BY <2>1, <2>2, <2>3, <1>1, FS_Subset
  <1>4. F = 1 .. c
    <2>1. IsFiniteSet(1 .. c) /\ Cardinality(1 .. c) = c
      BY <1>1, FS_Interval
    <2> QED
      BY <1>1, <1>3, <2>1, FS_Subset
  <1>5. c > 0 => Newest(j) = <<j, c>>
    <2>1. SUFFICES ASSUME c > 0 PROVE (CHOOSE n \in 1 .. c : \A m \in 1 .. c : m <= n) = c
      BY <1>4 DEF Newest, F
    <2>2. c \in 1 .. c /\ \A m \in 1 .. c : m <= c
      BY <1>1, <2>1
    <2>3. \A n \in 1 .. c : (\A m \in 1 .. c : m <= n) => n = c
      BY <1>1, <2>2
    <2> QED
      BY <2>2, <2>3
  <1> QED
    BY <1>0, <1>1, <1>4, <1>5 DEF F, c

(* An open unit is reserved over released attempts. *)
LEMMA NextOverReleased ==
  ASSUME LedgerTypeOK, FamilyInOrder, NEW j \in Jobs, NEW t,
         Redelivery(j, t) = "open", NextKey(j) \in Keys
  PROVE  ReleasedBelow(NextKey(j))
  <1> DEFINE c == Cardinality(Family(j))
  <1>1. c \in 0 .. MaxAttempts /\ Family(j) = 1 .. c /\ (c > 0 => Newest(j) = <<j, c>>)
    BY FamilyCounted
  <1>2. NextKey(j) = <<j, c + 1>>
    BY DEF NextKey
  <1>3. CASE c = 0
    BY <1>2, <1>3 DEF ReleasedBelow
  <1>4. CASE c > 0
    <2>1. Family(j) # {} /\ c \in 1 .. MaxAttempts
      BY <1>1, <1>4
    <2>2. rows[<<j, c>>].state = "released"
      <3>1. rows[<<j, c>>] \in Row
        BY <2>1 DEF LedgerTypeOK, Keys
      <3>2. rows[<<j, c>>].state \in {"reconciled", "expired_spent", "released", "absent", "reserved"}
        BY <3>1 DEF Row, Settled
      <3>3. rows[<<j, c>>].state # "absent"
        BY <1>1, <2>1 DEF Family
      <3> QED
        BY <3>2, <3>3, <2>1, <1>1, <1>4 DEF Redelivery
    <2>3. ReleasedBelow(<<j, c>>)
      BY <2>1, <2>2 DEF FamilyInOrder, Keys
    <2> QED
      BY <1>2, <2>1, <2>2, <2>3 DEF ReleasedBelow
  <1> QED
    BY <1>1, <1>3, <1>4

-----------------------------------------------------------------------------
(* What a session may do to the ledger keeps the invariant *)

(* A transaction that holds nothing is begun or ended. *)
LEMMA BeginsOrEnds ==
  ASSUME LedgerInv, NEW s \in Sessions, NEW r \in Transaction \union {NoTx},
         tx' = [tx EXCEPT ![s] = r], r.held = 0, UNCHANGED <<ledger, now>>,
         r.op # "none" => r.row.day \in 0 .. DayOf(MaxTime),
         r.op = "reserve" =>
           /\ r.row.state = "reserved" /\ r.row.amount = 0
           /\ ReleasedBelow(r.key),
         r.op = "settle" =>
           /\ EndsWell(r.key, r.row.state, r.row.amount)
           /\ rows[r.key].state # "absent"
           /\ r.row.day = rows[r.key].day
           /\ r.row.expires = rows[r.key].expires
  PROVE  LedgerInv'
  <1>1. tx'[s] = r /\ \A q \in Sessions : q # s => tx'[q] = tx[q]
    BY DEF LedgerInv, LedgerTypeOK
  <1>2. rows' = rows /\ buckets' = buckets /\ now' = now
    BY DEF ledger
  <1>3. LedgerTypeOK'
    BY <1>2 DEF LedgerInv, LedgerTypeOK
  <1>4. NotDone'
    <2>1. r.op # "none" => r.held < Len(Plan(r))
      BY PlanOfReserve, PlanOfSettle DEF Transaction, NoTx
    <2> QED
      BY <1>1, <2>1 DEF LedgerInv, NotDone
  <1>5. Exclusive'
    BY <1>1 DEF LedgerInv, Exclusive
  <1>6. RoomKept'
    BY <1>1, <1>2 DEF LedgerInv, RoomKept, HasRoom
  <1>7. FamilyInOrder'
    BY <1>2 DEF LedgerInv, FamilyInOrder, ReleasedBelow
  <1>8. ReserveStands'
    BY <1>1, <1>2 DEF LedgerInv, ReserveStands, ReleasedBelow
  <1>9. SettleStands'
    BY <1>1, <1>2 DEF LedgerInv, SettleStands, EndsWell
  <1>10. \A q \in Sessions : tx'[q].op # "none" => tx'[q].row.day \in 0 .. DayOf(MaxTime)
    BY <1>1 DEF LedgerInv
  <1> QED
    BY <1>3, <1>4, <1>5, <1>6, <1>7, <1>8, <1>9, <1>10 DEF LedgerInv

(* A transaction that ends without a commit leaves the ledger as it was. *)
LEMMA Ends ==
  ASSUME LedgerInv, NEW s \in Sessions, End(s), UNCHANGED <<ledger, now>>
  PROVE  LedgerInv'
  <1>1. NoTx.held = 0 /\ NoTx.op = "none" /\ NoTx \in Transaction \union {NoTx}
    BY DEF NoTx
  <1> QED
    BY <1>1, BeginsOrEnds DEF End

(* The day and the lease of what a reserve begins are those of its clock. *)
LEMMA BeginReserveKeeps ==
  ASSUME LedgerInv, NEW s \in Sessions, NEW j \in Jobs, NEW t \in 0 .. now,
         Redelivery(j, t) = "open", BeginReserve(s, j, t)
  PROVE  LedgerInv'
  <1> DEFINE row == [state |-> "reserved", amount |-> 0, expires |-> t + Lease, day |-> DayOf(t)]
             r == [op |-> "reserve", key |-> NextKey(j), held |-> 0, row |-> row]
  <1>1. t \in 0 .. MaxTime
    BY LedgerAssumption DEF LedgerInv, LedgerTypeOK
  <1>2. DayOf(t) \in 0 .. DayOf(MaxTime) /\ DayOf(t) \in Nat
    BY <1>1, DaysInOrder
  <1>3. row \in Row /\ NextKey(j) \in Keys
    BY <1>1, <1>2, LedgerAssumption DEF Row, BeginReserve
  <1>4. ReleasedBelow(NextKey(j))
    BY <1>3, NextOverReleased DEF LedgerInv
  <1>5. r \in Transaction
    BY <1>3 DEF Transaction
  <1>6. tx' = [tx EXCEPT ![s] = r] /\ UNCHANGED <<ledger, now>>
    BY DEF BeginReserve
  <1> HIDE DEF row
  <1>7. row.state = "reserved" /\ row.amount = 0 /\ row.day = DayOf(t)
    BY DEF row
  <1>8. r.op = "reserve" /\ r.held = 0 /\ r.key = NextKey(j) /\ r.row = row
    OBVIOUS
  <1> HIDE DEF r
  <1> QED
    BY <1>2, <1>4, <1>5, <1>6, <1>7, <1>8, BeginsOrEnds

(* A settle is begun for the row it read. *)
LEMMA BeginSettleKeeps ==
  ASSUME LedgerInv, NEW s \in Sessions, NEW k \in Keys,
         NEW state \in Settled, NEW amount \in Nat, EndsWell(k, state, amount),
         BeginSettle(s, k, state, amount)
  PROVE  LedgerInv'
  <1> DEFINE row == [rows[k] EXCEPT !.state = state, !.amount = amount]
             r == [op |-> "settle", key |-> k, held |-> 0, row |-> row]
  <1>1. rows[k] \in Row /\ rows[k].day \in 0 .. DayOf(MaxTime) /\ rows[k].state = "reserved"
    BY DEF LedgerInv, LedgerTypeOK, BeginSettle
  <1>2. /\ row \in Row /\ row.state = state /\ row.amount = amount
        /\ row.day = rows[k].day /\ row.expires = rows[k].expires
    BY <1>1 DEF Row
  <1>3. tx' = [tx EXCEPT ![s] = r] /\ UNCHANGED <<ledger, now>>
    BY DEF BeginSettle
  <1> HIDE DEF row
  <1>4. r \in Transaction /\ r.op = "settle" /\ r.held = 0 /\ r.key = k /\ r.row = row
    BY <1>2 DEF Transaction
  <1> HIDE DEF r
  <1> QED
    BY <1>1, <1>2, <1>3, <1>4, BeginsOrEnds

(* A session takes a row that is free, and finds what it asked for there.  *)
LEMMA LockKeeps ==
  ASSUME LedgerInv, NEW s \in Sessions, NextLockIsFree(s), ~AtLast(s), Lock(s),
         tx[s].op = "reserve" => HasRoom(Needs(s), Estimate[tx[s].key[1]]),
         tx[s].op = "settle" /\ tx[s].held = 0 => StillReserved(tx[s].key),
         UNCHANGED <<ledger, now>>
  PROVE  LedgerInv'
  <1> DEFINE h == tx[s].held
  <1>1. /\ tx[s] \in Transaction /\ tx[s].op \in {"reserve", "settle"} /\ h \in Nat
        /\ h < Len(Plan(tx[s])) /\ h + 1 # Len(Plan(tx[s]))
    BY TxTyped DEF LedgerInv, NextLockIsFree, AtLast, NotDone
  <1>2. /\ tx'[s] = [tx[s] EXCEPT !.held = h + 1]
        /\ \A q \in Sessions : q # s => tx'[q] = tx[q]
    BY DEF LedgerInv, LedgerTypeOK, Lock
  <1>3. /\ tx'[s] \in Transaction /\ tx'[s].held = h + 1 /\ tx'[s].op = tx[s].op
        /\ tx'[s].key = tx[s].key /\ tx'[s].row = tx[s].row
    BY <1>1, <1>2 DEF Transaction
  <1>4. Plan(tx'[s]) = Plan(tx[s])
    BY <1>3 DEF Plan
  <1>5. rows' = rows /\ buckets' = buckets /\ now' = now
    BY DEF ledger
  <1>6. LedgerTypeOK'
    <2>1. tx' = [tx EXCEPT ![s] = tx'[s]]
      BY <1>2 DEF LedgerInv, LedgerTypeOK, Lock
    <2>2. tx' \in [Sessions -> Transaction \union {NoTx}]
      BY <1>3, <2>1 DEF LedgerInv, LedgerTypeOK
    <2> QED
      BY <1>5, <2>2 DEF LedgerInv, LedgerTypeOK
  <1>7. NotDone'
    <2>1. Len(Plan(tx[s])) \in {3, 4}
      BY <1>1, PlanOfReserve, PlanOfSettle
    <2>2. h + 1 < Len(Plan(tx[s]))
      BY <1>1, <2>1
    <2> QED
      BY <1>2, <1>3, <1>4, <2>2 DEF LedgerInv, NotDone
  <1>8. Exclusive'
    <2>1. \A i \in 1 .. h + 1 : i \in 1 .. h \/ Plan(tx[s])[i] = Needs(s)
      BY <1>1 DEF Needs
    <2>2. \A q \in Sessions : q # s => \A m \in 1 .. tx[q].held : Plan(tx[q])[m] # Needs(s)
      BY DEF NextLockIsFree, Waits, Holds
    <2>3. \A q \in Sessions : q # s =>
            \A i \in 1 .. h + 1, m \in 1 .. tx[q].held : Plan(tx[s])[i] # Plan(tx[q])[m]
      BY <2>1, <2>2 DEF LedgerInv, Exclusive
    <2>4. SUFFICES ASSUME NEW a \in Sessions, NEW b \in Sessions, a # b,
                          NEW i \in 1 .. tx'[a].held, NEW m \in 1 .. tx'[b].held
                   PROVE  Plan(tx'[a])[i] # Plan(tx'[b])[m]
      BY DEF Exclusive
    <2>5. CASE a = s
      <3>1. tx'[b] = tx[b] /\ Plan(tx'[a]) = Plan(tx[s]) /\ i \in 1 .. h + 1
        BY <1>2, <1>3, <1>4, <2>4, <2>5
      <3> QED
        BY <2>3, <2>4, <2>5, <3>1
    <2>6. CASE b = s
      <3>1. tx'[a] = tx[a] /\ Plan(tx'[b]) = Plan(tx[s]) /\ m \in 1 .. h + 1
        BY <1>2, <1>3, <1>4, <2>4, <2>6
      <3> QED
        BY <2>3, <2>4, <2>6, <3>1
    <2>7. CASE a # s /\ b # s
      BY <1>2, <2>4, <2>7 DEF LedgerInv, Exclusive
    <2> QED
      BY <2>5, <2>6, <2>7
  <1>9. RoomKept'
    <2>1. tx[s].op = "reserve" =>
            \A i \in 1 .. h + 1 : HasRoom(Plan(tx[s])[i], Estimate[tx[s].key[1]])
      BY <1>1 DEF LedgerInv, RoomKept, Needs
    <2> QED
      BY <1>2, <1>3, <1>4, <1>5, <2>1 DEF LedgerInv, RoomKept, HasRoom
  <1>10. FamilyInOrder'
    BY <1>5 DEF LedgerInv, FamilyInOrder, ReleasedBelow
  <1>14. \A q \in Sessions : tx'[q].op = tx[q].op /\ tx'[q].key = tx[q].key /\ tx'[q].row = tx[q].row
    BY <1>2, <1>3
  <1>11. ReserveStands'
    <2> SUFFICES ASSUME NEW q \in Sessions, tx'[q].op = "reserve"
                 PROVE  /\ tx[q].row.state = "reserved" /\ tx[q].row.amount = 0
                        /\ ReleasedBelow(tx[q].key)
      BY <1>14, <1>5 DEF ReserveStands, ReleasedBelow
    <2>1. tx[q].op = "reserve"
      BY <1>14
    <2> QED
      BY <2>1 DEF LedgerInv, ReserveStands
  <1>12. SettleStands'
    <2>1. tx[s].op = "settle" => rows[tx[s].key].state = "reserved"
      BY <1>1 DEF LedgerInv, SettleStands, StillReserved
    <2> SUFFICES ASSUME NEW q \in Sessions, tx'[q].op = "settle"
                 PROVE  /\ EndsWell(tx[q].key, tx[q].row.state, tx[q].row.amount)
                        /\ rows[tx[q].key].state # "absent"
                        /\ tx[q].row.day = rows[tx[q].key].day
                        /\ tx[q].row.expires = rows[tx[q].key].expires
                        /\ tx'[q].held > 0 => rows[tx[q].key].state = "reserved"
      BY <1>14, <1>5 DEF SettleStands, EndsWell
    <2>2. tx[q].op = "settle"
      BY <1>14
    <2> QED
      BY <1>2, <2>1, <2>2 DEF LedgerInv, SettleStands
  <1>13. \A q \in Sessions : tx'[q].op # "none" => tx'[q].row.day \in 0 .. DayOf(MaxTime)
    BY <1>2, <1>3 DEF LedgerInv
  <1> QED
    BY <1>6, <1>7, <1>8, <1>9, <1>10, <1>11, <1>12, <1>13 DEF LedgerInv

(* A session that has its last row is alone with every row of its plan.    *)
LEMMA AloneAtLast ==
  ASSUME LedgerInv, NEW s \in Sessions, NextLockIsFree(s), AtLast(s),
         NEW q \in Sessions, q # s
  PROVE  \A i \in 1 .. Len(Plan(tx[s])), m \in 1 .. tx[q].held : Plan(tx[s])[i] # Plan(tx[q])[m]
  <1>1. tx[s].held \in Nat /\ Len(Plan(tx[s])) = tx[s].held + 1
    BY TxTyped DEF LedgerInv, AtLast
  <1>2. \A i \in 1 .. Len(Plan(tx[s])) : i \in 1 .. tx[s].held \/ Plan(tx[s])[i] = Needs(s)
    BY <1>1 DEF Needs
  <1>3. \A m \in 1 .. tx[q].held : Plan(tx[q])[m] # Needs(s)
    BY DEF NextLockIsFree, Waits, Holds
  <1> QED
    BY <1>2, <1>3 DEF LedgerInv, Exclusive

(* The buckets a reservation names are there. *)
LEMMA PlanInBuckets ==
  ASSUME LedgerInv, NEW s \in Sessions, tx[s].op = "reserve"
  PROVE  \A i \in 1 .. Len(Plan(tx[s])) : Plan(tx[s])[i] \in BucketIds
  <1>1. tx[s].key[1] \in Jobs /\ tx[s].row.day \in 0 .. DayOf(MaxTime)
    BY TxTyped DEF LedgerInv, Keys
  <1>2. \A i \in 1 .. 3 : i = 1 \/ i = 2 \/ i = 3
    OBVIOUS
  <1>3. /\ <<"job", tx[s].key[1], 0>> \in BucketIds
        /\ <<"day", Tenant, tx[s].row.day>> \in BucketIds
        /\ <<"month", Tenant, 0>> \in BucketIds
    BY <1>1 DEF BucketIds
  <1> QED
    BY <1>2, <1>3, PlanOfReserve

(* A commit writes the row and credits the buckets of its own transaction. *)
LEMMA CommitKeeps ==
  ASSUME LedgerInv, NEW s \in Sessions, NextLockIsFree(s), AtLast(s), End(s),
         NEW reserved \in Int, NEW spent \in Nat,
         rows' = [rows EXCEPT ![tx[s].key] = tx[s].row],
         buckets' = Credit(Plan(tx[s]), reserved, spent),
         tx[s].op = "reserve" => rows[tx[s].key].state = "absent",
         UNCHANGED now
  PROVE  LedgerInv'
  <1> DEFINE k == tx[s].key
  <1>1. /\ tx[s].op \in {"reserve", "settle"} /\ k \in Keys /\ tx[s].row \in Row
        /\ tx[s].row.day \in 0 .. DayOf(MaxTime) /\ tx[s].held \in Nat
    BY TxTyped DEF LedgerInv, NextLockIsFree
  <1>2. /\ tx'[s] = NoTx /\ NoTx.op = "none" /\ NoTx.held = 0
        /\ \A q \in Sessions : q # s => tx'[q] = tx[q]
    BY DEF LedgerInv, LedgerTypeOK, End, NoTx
  <1>3. rows'[k] = tx[s].row /\ \A x \in Keys : x # k => rows'[x] = rows[x]
    BY <1>1 DEF LedgerInv, LedgerTypeOK
  <1>4. tx[s].op = "settle" =>
          /\ rows[k].state = "reserved"
          /\ tx[s].row.day = rows[k].day /\ tx[s].row.expires = rows[k].expires
    <2>1. tx[s].op = "settle" => tx[s].held > 0
      BY <1>1, PlanOfSettle DEF AtLast
    <2> QED
      BY <2>1 DEF LedgerInv, SettleStands
  <1>5. rows[k].state \in {"absent", "reserved"} /\ rows'[k].state # "absent"
    <2>1. tx[s].op = "settle" => tx[s].row.state # "absent"
      BY DEF LedgerInv, SettleStands, EndsWell
    <2>2. tx[s].op = "reserve" => tx[s].row.state = "reserved"
      BY DEF LedgerInv, ReserveStands
    <2> QED
      BY <1>1, <1>3, <1>4, <2>1, <2>2
  <1> HIDE DEF k
  <1>6. \A x \in Keys : ReleasedBelow(x) => ReleasedBelow(x)'
    BY <1>3, <1>5 DEF ReleasedBelow, Keys
  <1>7. LedgerTypeOK'
    <2>1. rows' \in [Keys -> Row]
      BY <1>1 DEF LedgerInv, LedgerTypeOK, k
    <2>2. \A x \in Keys : rows'[x].day \in 0 .. DayOf(MaxTime)
      BY <1>1, <1>3 DEF LedgerInv, LedgerTypeOK
    <2>3. \A b \in BucketIds : buckets[b].reserved + reserved \in Int /\ buckets[b].spent + spent \in Nat
      BY DEF LedgerInv, LedgerTypeOK
    <2>4. buckets' \in [BucketIds -> [reserved: Int, spent: Nat]]
      BY <2>3 DEF LedgerInv, LedgerTypeOK, Credit
    <2>5. tx' \in [Sessions -> Transaction \union {NoTx}]
      BY DEF LedgerInv, LedgerTypeOK, End
    <2> QED
      BY <2>1, <2>2, <2>4, <2>5 DEF LedgerInv, LedgerTypeOK
  <1>8. NotDone'
    BY <1>2 DEF LedgerInv, NotDone
  <1>9. Exclusive'
    BY <1>2 DEF LedgerInv, Exclusive
  <1>10. RoomKept'
    <2> SUFFICES ASSUME NEW q \in Sessions, tx'[q].op = "reserve", NEW i \in 1 .. tx'[q].held
                 PROVE  HasRoom(Plan(tx[q])[i], Estimate[tx[q].key[1]])'
      BY <1>2 DEF RoomKept
    <2>1. q # s /\ tx'[q] = tx[q]
      BY <1>2
    <2>2. Len(Plan(tx[q])) = 3 /\ tx[q].held \in Nat /\ tx[q].held < 3
      BY <2>1, PlanOfReserve, TxTyped DEF LedgerInv, NotDone
    <2>3. Plan(tx[q])[i] \in BucketIds
      BY <2>1, <2>2, PlanInBuckets
    <2>4. \A m \in 1 .. Len(Plan(tx[s])) : Plan(tx[s])[m] # Plan(tx[q])[i]
      BY <2>1, AloneAtLast
    <2>5. buckets'[Plan(tx[q])[i]] = buckets[Plan(tx[q])[i]]
      BY <2>3, <2>4 DEF Credit
    <2>6. HasRoom(Plan(tx[q])[i], Estimate[tx[q].key[1]])
      BY <2>1 DEF LedgerInv, RoomKept
    <2> QED
      BY <2>1, <2>5, <2>6 DEF HasRoom
  <1>11. FamilyInOrder'
    <2> SUFFICES ASSUME NEW x \in Keys, rows'[x].state # "absent" PROVE ReleasedBelow(x)
      BY <1>6 DEF FamilyInOrder
    <2>1. CASE x = k /\ tx[s].op = "reserve"
      BY <2>1 DEF LedgerInv, ReserveStands, k
    <2>2. CASE x # k \/ tx[s].op = "settle"
      BY <2>2, <1>3, <1>4, <1>5 DEF LedgerInv, FamilyInOrder
    <2> QED
      BY <1>1, <2>1, <2>2
  <1>12. ReserveStands'
    <2>1. \A q \in Sessions : tx'[q].op = "reserve" =>
            /\ tx'[q] = tx[q] /\ tx[q].key \in Keys
            /\ tx[q].row.state = "reserved" /\ tx[q].row.amount = 0
            /\ ReleasedBelow(tx[q].key)
      BY <1>2, TxTyped DEF LedgerInv, ReserveStands
    <2>2. \A q \in Sessions : tx'[q].op = "reserve" =>
            \A n \in 1 .. MaxAttempts :
              n < tx[q].key[2] => rows'[<<tx[q].key[1], n>>].state = "released"
      BY <1>6, <2>1 DEF ReleasedBelow
    <2> QED
      BY <2>1, <2>2 DEF ReserveStands, ReleasedBelow
  <1>13. SettleStands'
    <2> SUFFICES ASSUME NEW q \in Sessions, tx'[q].op = "settle"
                 PROVE  /\ EndsWell(tx[q].key, tx[q].row.state, tx[q].row.amount)
                        /\ rows'[tx[q].key].state # "absent"
                        /\ tx[q].row.day = rows'[tx[q].key].day
                        /\ tx[q].row.expires = rows'[tx[q].key].expires
                        /\ tx[q].held > 0 => rows'[tx[q].key].state = "reserved"
      BY <1>2 DEF SettleStands, EndsWell
    <2>1. q # s /\ tx'[q] = tx[q] /\ tx[q].op = "settle" /\ tx[q].key \in Keys /\ tx[q].held \in Nat
      BY <1>2, TxTyped DEF LedgerInv
    <2>2. CASE tx[q].key # k
      BY <1>3, <2>1, <2>2 DEF LedgerInv, SettleStands
    <2>3. CASE tx[q].key = k
      <3>1. tx[s].op = "settle"
        BY <1>1, <2>1, <2>3 DEF LedgerInv, SettleStands, k
      <3>2. Plan(tx[s])[1] = Plan(tx[q])[1] /\ 1 \in 1 .. Len(Plan(tx[s]))
        <4>1. Plan(tx[s])[1] = <<"row", tx[s].key[1], tx[s].key[2]>> /\ Len(Plan(tx[s])) = 4
          BY <3>1, PlanOfSettle
        <4>2. Plan(tx[q])[1] = <<"row", tx[q].key[1], tx[q].key[2]>>
          BY <2>1, PlanOfSettle
        <4> QED
          BY <2>3, <4>1, <4>2 DEF k
      <3>3. tx[q].held = 0
        <4>1. 1 \notin 1 .. tx[q].held
          BY <2>1, <3>2, AloneAtLast
        <4> QED
          BY <2>1, <4>1
      <3> QED
        BY <1>3, <1>4, <1>5, <2>1, <2>3, <3>1, <3>3 DEF LedgerInv, SettleStands
    <2> QED
      BY <2>2, <2>3
  <1>14. \A q \in Sessions : tx'[q].op # "none" => tx'[q].row.day \in 0 .. DayOf(MaxTime)
    BY <1>2 DEF LedgerInv
  <1> QED
    BY <1>7, <1>8, <1>9, <1>10, <1>11, <1>12, <1>13, <1>14 DEF LedgerInv

(* All that a step may do to the ledger. *)
LedgerOp(s) ==
  \/ \E j \in Jobs, t \in 0 .. now : Redelivery(j, t) = "open" /\ BeginReserve(s, j, t)
  \/ \E k \in Keys, state \in Settled, amount \in Nat :
       EndsWell(k, state, amount) /\ BeginSettle(s, k, state, amount)
  \/ Debit(s) \/ DebitRefused(s) \/ InsertReservation(s) \/ WorkKeyCollision(s)
  \/ LockForSettle(s) \/ SettleLost(s) \/ CommitSettle(s)
  \/ RollBack(s)

(* Every one of them keeps the invariant. *)
LEMMA OpKeeps ==
  ASSUME LedgerInv, NEW s \in Sessions, LedgerOp(s)
  PROVE  LedgerInv'
  <1>1. CASE \E j \in Jobs, t \in 0 .. now : Redelivery(j, t) = "open" /\ BeginReserve(s, j, t)
    BY <1>1, BeginReserveKeeps
  <1>2. CASE \E k \in Keys, state \in Settled, amount \in Nat :
               EndsWell(k, state, amount) /\ BeginSettle(s, k, state, amount)
    BY <1>2, BeginSettleKeeps
  <1>3. CASE Debit(s)
    BY <1>3, LockKeeps DEF Debit
  <1>4. CASE LockForSettle(s)
    BY <1>4, LockKeeps DEF LockForSettle
  <1>5. CASE DebitRefused(s) \/ WorkKeyCollision(s) \/ SettleLost(s) \/ RollBack(s)
    BY <1>5, Ends DEF DebitRefused, WorkKeyCollision, SettleLost, RollBack
  <1>6. CASE InsertReservation(s)
    <2>1. tx[s].op = "reserve" /\ tx[s].key \in Keys
      BY <1>6, TxTyped DEF InsertReservation, LedgerInv
    <2>2. Estimate[tx[s].key[1]] \in Int
      BY <2>1, LedgerAssumption DEF Keys
    <2> QED
      BY <1>6, <2>2, CommitKeeps DEF InsertReservation
  <1>7. CASE CommitSettle(s)
    <2>1. tx[s].op = "settle" /\ tx[s].key \in Keys /\ tx[s].row \in Row
      BY <1>7, TxTyped DEF CommitSettle, LedgerInv
    <2>2. 0 - Estimate[tx[s].key[1]] \in Int /\ tx[s].row.amount \in Nat
      BY <2>1, LedgerAssumption DEF Keys, Row
    <2> QED
      BY <1>7, <2>1, <2>2, CommitKeeps DEF CommitSettle
  <1> QED
    BY <1>1, <1>2, <1>3, <1>4, <1>5, <1>6, <1>7 DEF LedgerOp

-----------------------------------------------------------------------------
(* The workers *)

(* A worker that is not idle runs a job under a key. *)
LEMMA RunTyped ==
  ASSUME TypeOK, NEW w \in Workers, run[w].at # "idle"
  PROVE  run[w] \in [at: Places, job: Jobs, claim: Nat, time: Nat, key: Keys, outcome: Outcome]
  BY DEF TypeOK, Run, Idle

(* What a step does to the ledger is one of its operations or nothing. *)
LEMMA StepIsOp ==
  ASSUME TypeOK, LedgerInv, Step, UNCHANGED timing
  PROVE  \/ \E s \in Sessions : LedgerOp(s)
         \/ UNCHANGED <<ledger, tx>> /\ now' \in 0 .. MaxTime
  <1>1. ASSUME NEW w \in Workers,
               (\E j \in Jobs : Claim(w, j)) \/ Redelivered(w)
                 \/ Emit(w) \/ Dispatch(w) \/ Finish(w)
        PROVE  UNCHANGED <<ledger, tx>> /\ now' \in 0 .. MaxTime
    BY <1>1 DEF Claim, Redelivered, Emit, Dispatch, Finish, TypeOK, LedgerTypeOK
  <1>2. ASSUME NEW w \in Workers, Reserve(w)
        PROVE  LedgerOp(w)
    <2>1. run[w].job \in Jobs /\ run[w].time \in Nat
      BY <1>2, RunTyped DEF Reserve, At
    <2>2. PICK t \in run[w].time .. now :
            Redelivery(run[w].job, t) = "open" /\ BeginReserve(w, run[w].job, t)
      BY <1>2 DEF Reserve
    <2>3. t \in 0 .. now
      BY <2>1 DEF TypeOK, LedgerTypeOK
    <2> QED
      BY <2>1, <2>2, <2>3 DEF LedgerOp
  <1>3. ASSUME NEW w \in Workers, ReserveStep(w) \/ SettleStep(w) \/ Raise(w) \/ Crash(w)
        PROVE  LedgerOp(w)
    BY <1>3 DEF ReserveStep, SettleStep, Raise, Crash, LedgerOp
  <1>4. ASSUME NEW w \in Workers,
               (\E cost \in Costs : Reconcile(w, cost)) \/ ExpireOnTimeout(w) \/ Release(w)
        PROVE  LedgerOp(w) \/ UNCHANGED <<ledger, tx, now>>
    <2>1. run[w].key \in Keys
      BY <1>4, RunTyped DEF Reconcile, ExpireOnTimeout, Release, At
    <2>2. Estimate[run[w].key[1]] \in Nat
      BY <2>1, LedgerAssumption DEF Keys
    <2>3. CASE \E cost \in Costs : Reconcile(w, cost)
      BY <2>1, <2>3, PaidAssumption DEF Reconcile, LedgerOp, EndsWell, Settled
    <2>4. CASE ExpireOnTimeout(w)
      BY <2>1, <2>2, <2>4 DEF ExpireOnTimeout, LedgerOp, EndsWell, Settled
    <2>5. CASE Release(w)
      BY <2>1, <2>5 DEF Release, LedgerOp, EndsWell, Settled
    <2> QED
      BY <1>4, <2>3, <2>4, <2>5
  <1>5. ASSUME NEW s \in Sweepers, SweepReservation(s)
        PROVE  LedgerOp(s)
    <2>1. CASE \E k \in Keys : SelectAbandoned(s, k)
      <3>1. PICK k \in Keys : BeginSettle(s, k, "expired_spent", Estimate[k[1]])
        BY <2>1 DEF SelectAbandoned
      <3>2. Estimate[k[1]] \in Nat
        BY LedgerAssumption DEF Keys
      <3> QED
        BY <3>1, <3>2 DEF LedgerOp, EndsWell, Settled
    <2> QED
      BY <1>5, <2>1 DEF SweepReservation, LedgerOp
  <1>6. CASE (\E j \in Jobs : SweepJob(j) \/ Redrive(j)) \/ Finished
    BY <1>6 DEF SweepJob, Redrive, Finished, TypeOK, LedgerTypeOK
  <1>7. CASE Tick
    <2>1. timing.until \in 0 .. MaxTime
      BY PaidAssumption DEF TypeOK
    <2> QED
      BY <1>7, <2>1, LedgerAssumption DEF Tick, TypeOK, LedgerTypeOK
  <1>8. now \in 0 .. MaxTime /\ Workers \subseteq Sessions /\ Sweepers \subseteq Sessions
    BY PaidAssumption DEF TypeOK, LedgerTypeOK, Sweepers
  <1> QED
    BY <1>1, <1>2, <1>3, <1>4, <1>5, <1>6, <1>7, <1>8 DEF Step

WorkTyped == jobs \in [Jobs -> Job] /\ run \in [Workers -> Run] /\ calls \in [Keys -> SUBSET Nat]

(* A worker that is at work goes on to another place, maybe with another   *)
(* key, or with its outcome decided.                                       *)
LEMMA RunGoesOn ==
  ASSUME TypeOK, NEW w \in Workers, run[w].at # "idle", NEW place \in Places
  PROVE  /\ GoTo(w, place) => run' \in [Workers -> Run]
         /\ \A k \in Keys : HasReceipt(w, k) => run' \in [Workers -> Run]
         /\ \A o \in Outcome : Over(w, place, o) => run' \in [Workers -> Run]
  <1> DEFINE R == [at: Places, job: Jobs, claim: Nat, time: Nat, key: Keys, outcome: Outcome]
  <1>1. run[w] \in R /\ run \in [Workers -> Run] /\ R \subseteq Run
    BY RunTyped DEF TypeOK, Run
  <1>2. [run[w] EXCEPT !.at = place] \in R
    BY <1>1
  <1>3. \A k \in Keys : [run[w] EXCEPT !.at = "receipt", !.key = k, !.time = 0] \in R
    BY <1>1 DEF Places
  <1>4. \A o \in Outcome : [run[w] EXCEPT !.at = place, !.outcome = o, !.time = 0] \in R
    BY <1>1
  <1> HIDE DEF R
  <1>5. \A r \in R : [run EXCEPT ![w] = r] \in [Workers -> Run]
    BY <1>1
  <1>6. GoTo(w, place) => run' \in [Workers -> Run]
    BY <1>2, <1>5 DEF GoTo
  <1>7. ASSUME NEW k \in Keys, HasReceipt(w, k)
        PROVE  run' \in [Workers -> Run]
    <2>1. PICK r \in R : r = [run[w] EXCEPT !.at = "receipt", !.key = k, !.time = 0]
      BY <1>3
    <2>2. run' = [run EXCEPT ![w] = r]
      BY <1>7, <2>1 DEF HasReceipt
    <2> QED
      BY <1>5, <2>2
  <1>8. ASSUME NEW o \in Outcome, Over(w, place, o)
        PROVE  run' \in [Workers -> Run]
    <2>1. PICK r \in R : r = [run[w] EXCEPT !.at = place, !.outcome = o, !.time = 0]
      BY <1>4
    <2>2. run' = [run EXCEPT ![w] = r]
      BY <1>8, <2>1 DEF Over
    <2> QED
      BY <1>5, <2>2
  <1> QED
    BY <1>6, <1>7, <1>8

(* One job changes. *)
LEMMA JobGoesOn ==
  ASSUME TypeOK, NEW j \in Jobs, NEW r \in Job, jobs' = [jobs EXCEPT ![j] = r]
  PROVE  jobs' \in [Jobs -> Job]
  BY DEF TypeOK

(* The newest attempt of a unit that is not open is a reservation of it.   *)
LEMMA NewestIsKey ==
  ASSUME LedgerInv, NEW j \in Jobs, NEW t, Redelivery(j, t) # "open"
  PROVE  Newest(j) \in Keys
  <1> DEFINE c == Cardinality(Family(j))
  <1>1. c \in 0 .. MaxAttempts /\ Family(j) = 1 .. c /\ (c > 0 => Newest(j) = <<j, c>>)
    BY FamilyCounted DEF LedgerInv
  <1>2. ASSUME c = 0 PROVE FALSE
    <2>1. Family(j) = {}
      BY <1>1, <1>2
    <2> QED
      BY <2>1 DEF Redelivery
  <1> QED
    BY <1>1, <1>2, LedgerAssumption DEF Keys

(* The jobs, the workers and the calls stay what they are. *)
LEMMA WorkStaysTyped ==
  ASSUME TypeOK, LedgerInv, Step, UNCHANGED timing
  PROVE  WorkTyped'
  <1>0. /\ jobs \in [Jobs -> Job] /\ run \in [Workers -> Run] /\ calls \in [Keys -> SUBSET Nat]
        /\ timing.jobLease \in Nat /\ now \in Nat
    BY PaidAssumption DEF TypeOK, LedgerTypeOK
  <1>1. ASSUME NEW w \in Workers, NEW j \in Jobs, Claim(w, j)
        PROVE  WorkTyped'
    <2> DEFINE b == [jobs[j] EXCEPT !.state = "running", !.expires = now + timing.jobLease,
                                    !.runs = @ + 1]
               r == [at |-> "claimed", job |-> j, claim |-> jobs[j].runs + 1, time |-> now,
                     key |-> <<j, 1>>, outcome |-> "closed"]
    <2>1. b \in Job
      <3>1. jobs[j] \in Job /\ now + timing.jobLease \in Nat /\ jobs[j].runs + 1 \in Nat
        BY <1>0 DEF Job
      <3> QED
        BY <3>1 DEF Job
    <2>2. r \in Run
      <3>1. jobs[j].runs + 1 \in Nat
        BY <1>0 DEF Job
      <3> QED
        BY <1>0, <3>1, LedgerAssumption DEF Run, Places, Outcome, Keys
    <2>3. jobs' = [jobs EXCEPT ![j] = b] /\ run' = [run EXCEPT ![w] = r] /\ calls' = calls
      BY <1>1 DEF Claim
    <2> HIDE DEF b, r
    <2> QED
      BY <1>0, <2>1, <2>2, <2>3 DEF WorkTyped
  <1>2. ASSUME NEW w \in Workers, Finish(w)
        PROVE  WorkTyped'
    <2>1. run[w].job \in Jobs /\ run[w].outcome \in Outcome
      BY <1>2, RunTyped DEF Finish, At
    <2>2. \A f \in SUBSET Nat :
            [jobs[run[w].job] EXCEPT !.state = run[w].outcome, !.expires = 0, !.failed = f] \in Job
      BY <1>0, <2>1 DEF Job
    <2>5. /\ jobs[run[w].job].failed \in SUBSET Nat
          /\ jobs[run[w].job].failed \union {jobs[run[w].job].runs} \in SUBSET Nat
      BY <1>0, <2>1 DEF Job
    <2>3. jobs' \in [Jobs -> Job]
      BY <1>0, <1>2, <2>2, <2>5 DEF Finish
    <2>4. run' \in [Workers -> Run] /\ calls' = calls
      BY <1>0, <1>2 DEF Finish, Run
    <2> QED
      BY <1>0, <2>3, <2>4 DEF WorkTyped
  <1>3. ASSUME NEW w \in Workers, Reserve(w)
        PROVE  WorkTyped'
    BY <1>0, <1>3, RunGoesOn DEF Reserve, At, Places, WorkTyped
  <1>4. ASSUME NEW w \in Workers, Redelivered(w)
        PROVE  WorkTyped'
    <2>1. run[w].job \in Jobs /\ run[w].at # "idle"
      BY <1>4, RunTyped DEF Redelivered, At
    <2>2. PICK t : \/ Redelivery(run[w].job, t) = "live" /\ HasReceipt(w, Newest(run[w].job))
                   \/ Over(w, "settled", "closed")
      BY <1>4 DEF Redelivered
    <2>3. CASE Redelivery(run[w].job, t) = "live" /\ HasReceipt(w, Newest(run[w].job))
      BY <1>0, <1>4, <2>1, <2>3, NewestIsKey, RunGoesOn DEF Redelivered, WorkTyped, Places
    <2>4. CASE Over(w, "settled", "closed")
      BY <1>0, <1>4, <2>1, <2>4, RunGoesOn DEF Redelivered, WorkTyped, Places, Outcome
    <2> QED
      BY <2>2, <2>3, <2>4
  <1>5. ASSUME NEW w \in Workers, ReserveStep(w)
        PROVE  WorkTyped'
    <2>1. run[w].at # "idle" /\ "settled" \in Places /\ "receipt" \in Places /\ "closed" \in Outcome
      BY <1>5 DEF ReserveStep, At, Places, Outcome
    <2>2. CASE InsertReservation(w) /\ HasReceipt(w, tx[w].key)
      <3>1. tx[w].key \in Keys
        BY <2>2, PaidAssumption, TxTyped DEF LedgerInv, InsertReservation
      <3> QED
        BY <1>0, <1>5, <2>1, <2>2, <3>1, RunGoesOn DEF ReserveStep, WorkTyped
    <2>3. CASE run' = run \/ Over(w, "settled", "closed")
      BY <1>0, <1>5, <2>1, <2>3, RunGoesOn DEF ReserveStep, WorkTyped
    <2> QED
      BY <1>5, <2>2, <2>3 DEF ReserveStep
  <1>6. ASSUME NEW w \in Workers, Emit(w)
        PROVE  WorkTyped'
    <2>1. run[w].job \in Jobs /\ run[w].at # "idle"
      BY <1>6, RunTyped DEF Emit, At
    <2>2. [jobs[run[w].job] EXCEPT !.expires = now + timing.jobLease] \in Job
      BY <1>0, <2>1 DEF Job
    <2>3. jobs' \in [Jobs -> Job] /\ calls' = calls
      BY <1>0, <1>6, <2>2 DEF Emit
    <2>4. run' \in [Workers -> Run]
      BY <1>6, <2>1, RunGoesOn DEF Emit, Places
    <2> QED
      BY <1>0, <2>3, <2>4 DEF WorkTyped
  <1>14. ASSUME NEW w \in Workers, Dispatch(w)
         PROVE  WorkTyped'
    <2>1. run[w].key \in Keys /\ run[w].claim \in Nat /\ run[w].at # "idle"
      BY <1>14, RunTyped DEF Dispatch, At
    <2>2. calls' \in [Keys -> SUBSET Nat] /\ jobs' = jobs
      BY <1>0, <1>14, <2>1 DEF Dispatch
    <2>3. run' \in [Workers -> Run]
      BY <1>14, <2>1, RunGoesOn DEF Dispatch, Places
    <2> QED
      BY <1>0, <2>2, <2>3 DEF WorkTyped
  <1>7. ASSUME NEW w \in Workers, NEW cost \in Costs, Reconcile(w, cost)
        PROVE  WorkTyped'
    BY <1>0, <1>7, RunGoesOn DEF Reconcile, At, Places, WorkTyped
  <1>8. ASSUME NEW w \in Workers, ExpireOnTimeout(w)
        PROVE  WorkTyped'
    BY <1>0, <1>8, RunGoesOn DEF ExpireOnTimeout, At, Places, Outcome, WorkTyped
  <1>9. ASSUME NEW w \in Workers, Release(w)
        PROVE  WorkTyped'
    BY <1>0, <1>9, RunGoesOn DEF Release, At, Places, Outcome, WorkTyped
  <1>10. ASSUME NEW w \in Workers, SettleStep(w)
         PROVE  WorkTyped'
    BY <1>0, <1>10, RunGoesOn DEF SettleStep, At, Places, WorkTyped
  <1>11. ASSUME NEW w \in Workers, Crash(w)
         PROVE  WorkTyped'
    BY <1>0, <1>11 DEF Crash, Run, WorkTyped
  <1>15. ASSUME NEW w \in Workers, Raise(w)
         PROVE  WorkTyped'
    BY <1>0, <1>15, RunGoesOn DEF Raise, At, Places, Outcome, WorkTyped
  <1>12. ASSUME NEW j \in Jobs, SweepJob(j) \/ Redrive(j)
         PROVE  WorkTyped'
    <2>1. \A state \in {"timed_out", "ready"} :
            /\ [jobs[j] EXCEPT !.state = state] \in Job
            /\ [jobs[j] EXCEPT !.state = state, !.expires = 0] \in Job
      BY <1>0 DEF Job
    <2> QED
      BY <1>0, <1>12, <2>1 DEF SweepJob, Redrive, WorkTyped
  <1>13. CASE (\E s \in Sweepers : SweepReservation(s)) \/ Tick \/ Finished
    BY <1>0, <1>13 DEF SweepReservation, Tick, Finished, WorkTyped
  <1> QED
    BY <1>1, <1>2, <1>3, <1>4, <1>5, <1>6, <1>7, <1>8, <1>9, <1>10, <1>11, <1>12, <1>13,
       <1>14, <1>15 DEF Step

-----------------------------------------------------------------------------
(* The theorems *)

(* The ledger starts empty. *)
LEMMA Starts ==
  ASSUME Init
  PROVE  TypeOK /\ LedgerInv
  <1>1. LedgerTypeOK
    <2>1. 0 \in 0 .. MaxTime /\ DayOf(0) = 0 /\ 0 \in 0 .. DayOf(MaxTime)
      <3>1. 0 \in 0 .. MaxTime
        BY LedgerAssumption
      <3>2. DayOf(0) = 0
        BY LedgerAssumption DEF DayOf
      <3> QED
        BY <3>1, <3>2, DaysInOrder
    <2>2. Absent \in Row /\ Absent.day = 0
      BY DEF Absent, Row, Settled
    <2> QED
      BY <2>1, <2>2 DEF Init, LedgerInit, LedgerTypeOK
  <1>2. TypeOK
    BY <1>1 DEF Init, TypeOK, Job, Run
  <1>3. \A s \in Sessions : tx[s].op = "none" /\ tx[s].held = 0
    BY DEF Init, LedgerInit, NoTx
  <1>4. \A k \in Keys : rows[k].state = "absent"
    BY DEF Init, LedgerInit, Absent
  <1> QED
    BY <1>1, <1>2, <1>3, <1>4
    DEF LedgerInv, NotDone, Exclusive, RoomKept, FamilyInOrder, ReserveStands, SettleStands

(* Every step keeps the types and the invariant. *)
LEMMA Keeps ==
  ASSUME TypeOK, LedgerInv, [Next]_vars
  PROVE  TypeOK' /\ LedgerInv'
  <1>1. CASE Next
    <2>1. LedgerInv'
      <3>1. CASE \E s \in Sessions : LedgerOp(s)
        BY <3>1, OpKeeps
      <3>2. CASE UNCHANGED <<ledger, tx>> /\ now' \in 0 .. MaxTime
        <4>1. rows' = rows /\ buckets' = buckets /\ tx' = tx
          BY <3>2 DEF ledger
        <4> QED
          BY <3>2, <4>1 DEF LedgerInv, LedgerTypeOK, NotDone, Exclusive, RoomKept, HasRoom,
                            FamilyInOrder, ReleasedBelow, ReserveStands, SettleStands, EndsWell
      <3> QED
        BY <1>1, <3>1, <3>2, StepIsOp DEF Next
    <2>2. WorkTyped' /\ timing' = timing
      BY <1>1, WorkStaysTyped DEF Next
    <2> QED
      BY <2>1, <2>2 DEF TypeOK, LedgerInv, WorkTyped
  <1>2. CASE UNCHANGED vars
    BY <1>2 DEF vars, TypeOK, LedgerInv, LedgerTypeOK, NotDone, Exclusive, RoomKept, HasRoom,
                FamilyInOrder, ReleasedBelow, ReserveStands, SettleStands, EndsWell
  <1> QED
    BY <1>1, <1>2

(* What the ledger, the transactions and the workers hold is of its type.  *)
THEOREM LedgerTypeCorrect == Spec => []TypeOK
  BY Starts, Keeps, PTL DEF Spec

(* The invariant of the locks, the families and the room holds always.     *)
THEOREM LedgerInvariant == Spec => [](TypeOK /\ LedgerInv)
  BY Starts, Keeps, PTL DEF Spec

(* No unit of work is charged twice, however often its job is redelivered, *)
(* swept and re-driven: of two attempts the earlier was released.          *)
THEOREM ChargedOnceAlways == Spec => []ChargedOnce
  <1>1. ASSUME LedgerInv PROVE ChargedOnce
    <2> SUFFICES ASSUME NEW j \in Jobs
                 PROVE  Cardinality({k \in Keys :
                          k[1] = j /\ rows[k].state \notin {"absent", "released"}}) <= 1
      BY DEF ChargedOnce
    <2> DEFINE C == {k \in Keys : k[1] = j /\ rows[k].state \notin {"absent", "released"}}
    <2>1. ASSUME NEW a \in C, NEW b \in C PROVE a = b
      <3>1. /\ a = <<j, a[2]>> /\ b = <<j, b[2]>>
            /\ a[2] \in 1 .. MaxAttempts /\ b[2] \in 1 .. MaxAttempts
        BY DEF Keys
      <3>2. ReleasedBelow(a) /\ ReleasedBelow(b)
        BY <1>1 DEF LedgerInv, FamilyInOrder
      <3>3. ~(a[2] < b[2]) /\ ~(b[2] < a[2])
        BY <3>1, <3>2 DEF ReleasedBelow
      <3> QED
        BY <3>1, <3>3, LedgerAssumption
    <2> HIDE DEF C
    <2>2. ASSUME C = {} PROVE Cardinality(C) <= 1
      BY <2>2, FS_EmptySet
    <2>3. ASSUME C # {} PROVE Cardinality(C) <= 1
      <3>1. PICK a : C = {a}
        BY <2>1, <2>3
      <3> QED
        BY <3>1, FS_Singleton
    <2> QED
      BY <2>2, <2>3 DEF C
  <1> QED
    BY <1>1, LedgerInvariant, PTL

(* How far a transaction is in BUCKET_LOCK_ORDER, counting a row as 0. *)
Level(s) == IF tx[s].op = "reserve" THEN tx[s].held + 1 ELSE tx[s].held

Rank(r) == CASE r[1] = "row" -> 0 [] r[1] = "job" -> 1 [] r[1] = "day" -> 2 [] r[1] = "month" -> 3

(* What is waited for is held by one who is further on. *)
LEMMA WaitsForward ==
  ASSUME LedgerInv, NEW s \in Sessions, NEW q \in Sessions, Waits(s, q)
  PROVE  Level(s) < Level(q)
  <1>1. /\ tx[s].op \in {"reserve", "settle"}
        /\ tx[s].held \in Nat /\ tx[q].held \in Nat
        /\ tx[s].held < Len(Plan(tx[s]))
    BY TxTyped DEF LedgerInv, Waits, NotDone
  <1>2. PICK i \in 1 .. tx[q].held : Plan(tx[q])[i] = Needs(s)
    BY DEF Waits, Holds
  <1>3. tx[q].op \in {"reserve", "settle"} /\ tx[q].held < Len(Plan(tx[q]))
    BY <1>2, TxTyped DEF LedgerInv, NotDone
  <1>4. ASSUME NEW p \in Sessions, tx[p].op \in {"reserve", "settle"}, NEW n \in 1 .. Len(Plan(tx[p]))
        PROVE  Rank(Plan(tx[p])[n]) = IF tx[p].op = "reserve" THEN n ELSE n - 1
    <2>1. CASE tx[p].op = "reserve"
      <3>1. n = 1 \/ n = 2 \/ n = 3
        <4>1. Len(Plan(tx[p])) = 3
          BY <2>1, PlanOfReserve
        <4> QED
          BY <1>4, <4>1
      <3> QED
        BY <2>1, <3>1, PlanOfReserve DEF Rank
    <2>2. CASE tx[p].op = "settle"
      <3>1. n = 1 \/ n = 2 \/ n = 3 \/ n = 4
        <4>1. Len(Plan(tx[p])) = 4
          BY <2>2, PlanOfSettle
        <4> QED
          BY <1>4, <4>1
      <3> QED
        BY <2>2, <3>1, PlanOfSettle DEF Rank
    <2> QED
      BY <1>4, <2>1, <2>2
  <1>5. Len(Plan(tx[s])) \in Nat /\ Len(Plan(tx[q])) \in Nat
    BY <1>1, <1>3, PlanOfReserve, PlanOfSettle
  <1>6. Rank(Needs(s)) = Level(s)
    BY <1>1, <1>4, <1>5 DEF Needs, Level
  <1>7. Rank(Plan(tx[q])[i]) < Level(q)
    BY <1>1, <1>3, <1>4, <1>5 DEF Level
  <1> QED
    BY <1>2, <1>6, <1>7

(* Transactions that wait, wait in the order of BUCKET_LOCK_ORDER, so no   *)
(* set of them waits for itself, whatever reserves and settles there are.  *)
THEOREM NoDeadlockEver == Spec => []NoDeadlock
  <1>1. ASSUME LedgerInv PROVE NoDeadlock
    <2> SUFFICES ASSUME NEW S \in (SUBSET Sessions) \ {{}}
                 PROVE  \E s \in S : \A q \in S : ~Waits(s, q)
      BY DEF NoDeadlock
    <2>1. \A s \in S : Level(s) \in 0 .. 3
      <3> SUFFICES ASSUME NEW s \in S PROVE Level(s) \in 0 .. 3
        OBVIOUS
      <3>1. tx[s].op \in {"none", "reserve", "settle"} /\ tx[s].held \in Nat
        BY <1>1, TxTyped DEF LedgerInv
      <3>2. CASE tx[s].op = "none"
        BY <1>1, <3>2, TxTyped DEF LedgerInv, Level
      <3>3. CASE tx[s].op = "reserve"
        <4>1. Len(Plan(tx[s])) = 3
          BY <3>3, PlanOfReserve
        <4>2. tx[s].held < Len(Plan(tx[s])) /\ s \in Sessions
          BY <1>1, <3>3 DEF LedgerInv, NotDone
        <4> QED
          BY <3>1, <3>3, <4>1, <4>2 DEF Level
      <3>4. CASE tx[s].op = "settle"
        <4>1. Len(Plan(tx[s])) = 4
          BY <3>4, PlanOfSettle
        <4>2. tx[s].held < Len(Plan(tx[s])) /\ s \in Sessions
          BY <1>1, <3>4 DEF LedgerInv, NotDone
        <4> QED
          BY <3>1, <3>4, <4>1, <4>2 DEF Level
      <3> QED
        BY <3>1, <3>2, <3>3, <3>4
    <2>2. PICK s \in S : \A q \in S : Level(q) <= Level(s)
      <3>1. CASE \E s \in S : Level(s) = 3
        BY <2>1, <3>1
      <3>2. CASE (\A s \in S : Level(s) # 3) /\ \E s \in S : Level(s) = 2
        BY <2>1, <3>2
      <3>3. CASE (\A s \in S : Level(s) # 3 /\ Level(s) # 2) /\ \E s \in S : Level(s) = 1
        BY <2>1, <3>3
      <3>4. CASE \A s \in S : Level(s) # 3 /\ Level(s) # 2 /\ Level(s) # 1
        <4>1. \A s \in S : Level(s) = 0
          BY <2>1, <3>4
        <4>2. S # {}
          OBVIOUS
        <4> QED
          BY <4>1, <4>2
      <3> QED
        BY <3>1, <3>2, <3>3, <3>4
    <2>3. \A q \in S : ~Waits(s, q)
      <3> SUFFICES ASSUME NEW q \in S, Waits(s, q) PROVE FALSE
        OBVIOUS
      <3>1. Level(s) < Level(q)
        BY <1>1, WaitsForward
      <3> QED
        BY <2>1, <2>2, <3>1
    <2> QED
      BY <2>3
  <1> QED
    BY <1>1, LedgerInvariant, PTL

-----------------------------------------------------------------------------
(* The ledger is atomic *)

(* The buckets of a transaction are those the atomic ledger has for its    *)
(* unit and its day.                                                       *)
LEMMA NamedBuckets ==
  ASSUME LedgerInv, NEW s \in Sessions, tx[s].op \in {"reserve", "settle"}
  PROVE  LET names == {BucketsOf(<<tx[s].key[1], 1>>, tx[s].row.day)[i] : i \in 1 .. 3} IN
         \A b \in BucketIds :
           (\E i \in 1 .. Len(Plan(tx[s])) : Plan(tx[s])[i] = b) <=> b \in names
  <1> DEFINE job == <<"job", tx[s].key[1], 0>>
             day == <<"day", Tenant, tx[s].row.day>>
             month == <<"month", Tenant, 0>>
  <1>1. {BucketsOf(<<tx[s].key[1], 1>>, tx[s].row.day)[i] : i \in 1 .. 3} = {job, day, month}
    <2>1. 1 .. 3 = {1, 2, 3}
      OBVIOUS
    <2> QED
      BY <2>1 DEF BucketsOf
  <1>2. CASE tx[s].op = "reserve"
    <2>1. Len(Plan(tx[s])) = 3 /\ Plan(tx[s])[1] = job /\ Plan(tx[s])[2] = day /\ Plan(tx[s])[3] = month
      BY <1>2, PlanOfReserve
    <2>2. 1 .. 3 = {1, 2, 3}
      OBVIOUS
    <2> QED
      BY <1>1, <2>1, <2>2
  <1>3. CASE tx[s].op = "settle"
    <2>1. /\ Len(Plan(tx[s])) = 4 /\ Plan(tx[s])[1] = <<"row", tx[s].key[1], tx[s].key[2]>>
          /\ Plan(tx[s])[2] = job /\ Plan(tx[s])[3] = day /\ Plan(tx[s])[4] = month
      BY <1>3, PlanOfSettle
    <2>2. 1 .. 4 = {1, 2, 3, 4}
      OBVIOUS
    <2>3. \A b \in BucketIds : b # Plan(tx[s])[1]
      BY <2>1 DEF BucketIds
    <2> QED
      BY <1>1, <2>1, <2>2, <2>3
  <1> QED
    BY <1>2, <1>3

(* A reservation that commits is one step of the atomic ledger.            *)
LEMMA InsertRefines ==
  ASSUME LedgerInv, NEW s \in Sessions, InsertReservation(s)
  PROVE  Atomic!Next
  <1> DEFINE k == tx[s].key
             d == tx[s].row.day
  <1>1. /\ tx[s].op = "reserve" /\ k \in Keys /\ k[1] \in Jobs /\ tx[s].row \in Row
        /\ d \in 0 .. DayOf(MaxTime) /\ tx[s].held \in Nat
    BY TxTyped DEF LedgerInv, InsertReservation, Keys
  <1>2. /\ rows[k].state = "absent" /\ ReleasedBelow(k)
        /\ tx[s].row.state = "reserved" /\ tx[s].row.amount = 0
    BY <1>1 DEF LedgerInv, InsertReservation, ReserveStands
  <1>3. /\ BucketsOn[k[1]][d] = {BucketsOf(<<k[1], 1>>, d)[i] : i \in 1 .. 3}
        /\ k[1] \in DOMAIN BucketsOn /\ d \in DOMAIN BucketsOn[k[1]]
    BY <1>1 DEF BucketsOn
  <1>4. \A i \in 1 .. Len(Plan(tx[s])) : HasRoom(Plan(tx[s])[i], Estimate[k[1]])
    <2>1. Len(Plan(tx[s])) = tx[s].held + 1
      BY DEF InsertReservation, AtLast
    <2>2. \A i \in 1 .. Len(Plan(tx[s])) : i \in 1 .. tx[s].held \/ Plan(tx[s])[i] = Needs(s)
      BY <1>1, <2>1 DEF Needs
    <2> QED
      BY <1>1, <2>2 DEF LedgerInv, RoomKept, InsertReservation
  <1>5. \A b \in BucketsOn[k[1]][d] : b \in BucketIds
    BY <1>1, <1>3 DEF BucketIds, BucketsOf
  <1>6. \A b \in BucketsOn[k[1]][d] :
          buckets[b].reserved + buckets[b].spent + Estimate[k[1]] <= Ceiling[b[1]]
    <2> SUFFICES ASSUME NEW b \in BucketsOn[k[1]][d]
                 PROVE  buckets[b].reserved + buckets[b].spent + Estimate[k[1]] <= Ceiling[b[1]]
      OBVIOUS
    <2>1. PICK i \in 1 .. Len(Plan(tx[s])) : Plan(tx[s])[i] = b
      BY <1>1, <1>3, <1>5, NamedBuckets
    <2> QED
      BY <1>4, <2>1 DEF HasRoom
  <1>7. rows' = [rows EXCEPT ![k] = tx[s].row] /\ rows'[k] = tx[s].row
    BY <1>1 DEF InsertReservation, LedgerInv, LedgerTypeOK
  <1>8. tx[s].row = [state |-> "reserved", amount |-> 0, expires |-> rows'[k].expires, day |-> d]
    BY <1>1, <1>2, <1>7 DEF Row
  <1>9. buckets' = [b \in BucketIds |->
           IF b \in BucketsOn[k[1]][d]
           THEN [reserved |-> buckets[b].reserved + Estimate[k[1]], spent |-> buckets[b].spent + 0]
           ELSE buckets[b]]
    BY <1>1, <1>3, NamedBuckets DEF InsertReservation, Credit
  <1>10. \A n \in 1 .. MaxAttempts : n < k[2] => rows[<<k[1], n>>].state = "released"
    BY <1>2 DEF ReleasedBelow
  <1>11. k \in Atomic!Keys
    BY <1>1 DEF Keys, Atomic!Keys
  <1>12. Atomic!Reserve(k, d, rows'[k].expires)
    <2>1. rows' = [rows EXCEPT ![k] =
            [state |-> "reserved", amount |-> 0, expires |-> rows'[k].expires, day |-> d]]
      BY <1>7, <1>8
    <2>2. buckets' = Atomic!Moved(k, d, Estimate[k[1]], 0)
      BY <1>9 DEF Atomic!Moved
    <2> QED
      BY <1>2, <1>5, <1>6, <1>10, <2>1, <2>2 DEF Atomic!Reserve, CeilingOn
  <1> QED
    BY <1>3, <1>11, <1>12 DEF Atomic!Next

(* So is a settle. *)
LEMMA SettleRefines ==
  ASSUME LedgerInv, NEW s \in Sessions, CommitSettle(s)
  PROVE  Atomic!Next
  <1> DEFINE k == tx[s].key
             d == rows[k].day
  <1>1. /\ tx[s].op = "settle" /\ k \in Keys /\ k[1] \in Jobs /\ tx[s].row \in Row
        /\ tx[s].held \in Nat /\ rows[k] \in Row
    BY TxTyped DEF LedgerInv, CommitSettle, Keys, LedgerTypeOK
  <1>2. tx[s].held > 0
    BY <1>1, PlanOfSettle DEF CommitSettle, AtLast
  <1>3. /\ EndsWell(k, tx[s].row.state, tx[s].row.amount) /\ rows[k].state = "reserved"
        /\ tx[s].row.day = d /\ tx[s].row.expires = rows[k].expires
    BY <1>1, <1>2 DEF LedgerInv, SettleStands
  <1>4. d \in 0 .. DayOf(MaxTime)
    BY <1>1 DEF LedgerInv, LedgerTypeOK
  <1>5. BucketsOn[k[1]][d] = {BucketsOf(<<k[1], 1>>, d)[i] : i \in 1 .. 3}
    BY <1>1, <1>4 DEF BucketsOn
  <1>6. rows' = [rows EXCEPT ![k] = tx[s].row] /\ rows'[k] = tx[s].row
    BY <1>1 DEF CommitSettle, LedgerInv, LedgerTypeOK
  <1>7. tx[s].row = [rows[k] EXCEPT !.state = tx[s].row.state, !.amount = tx[s].row.amount]
    BY <1>1, <1>3 DEF Row
  <1>8. rows' = [rows EXCEPT ![k].state = rows'[k].state, ![k].amount = rows'[k].amount]
    BY <1>6, <1>7
  <1>9. buckets' = [b \in BucketIds |->
           IF b \in BucketsOn[k[1]][d]
           THEN [reserved |-> buckets[b].reserved + (0 - Estimate[k[1]]),
                 spent |-> buckets[b].spent + rows'[k].amount]
           ELSE buckets[b]]
    <2>1. \A b \in BucketIds :
            (\E i \in 1 .. Len(Plan(tx[s])) : Plan(tx[s])[i] = b) <=> b \in BucketsOn[k[1]][d]
      <3>1. \A b \in BucketIds :
              (\E i \in 1 .. Len(Plan(tx[s])) : Plan(tx[s])[i] = b)
                <=> b \in {BucketsOf(<<k[1], 1>>, tx[s].row.day)[i] : i \in 1 .. 3}
        BY <1>1, NamedBuckets
      <3>2. BucketsOn[k[1]][d] = {BucketsOf(<<k[1], 1>>, tx[s].row.day)[i] : i \in 1 .. 3}
        BY <1>3, <1>5
      <3> QED
        BY <3>1, <3>2
    <2> QED
      BY <1>6, <2>1 DEF CommitSettle, Credit
  <1>10. k \in Atomic!Keys
    BY <1>1 DEF Keys, Atomic!Keys
  <1>11. Atomic!Settle(k, rows'[k].state, rows'[k].amount)
    BY <1>3, <1>6, <1>8, <1>9 DEF Atomic!Settle, Atomic!Moved, EndsWell
  <1> QED
    BY <1>10, <1>11 DEF Atomic!Next

(* A step is one of the atomic ledger, or leaves the ledger alone.         *)
LEMMA StepIsAtomic ==
  ASSUME TypeOK, LedgerInv, [Next]_vars
  PROVE  Atomic!Next \/ UNCHANGED Atomic!ledger
  <1>1. ASSUME NEW s \in Sessions, LedgerOp(s)
        PROVE  Atomic!Next \/ UNCHANGED Atomic!ledger
    <2>1. CASE InsertReservation(s)
      BY <2>1, InsertRefines
    <2>2. CASE CommitSettle(s)
      BY <2>2, SettleRefines
    <2>3. CASE ~InsertReservation(s) /\ ~CommitSettle(s)
      BY <1>1, <2>3 DEF LedgerOp, BeginReserve, BeginSettle, Debit, DebitRefused, WorkKeyCollision,
                        LockForSettle, SettleLost, RollBack, ledger, Atomic!ledger
    <2> QED
      BY <2>1, <2>2, <2>3
  <1>2. CASE UNCHANGED <<ledger, tx>>
    BY <1>2 DEF ledger, Atomic!ledger
  <1>3. CASE UNCHANGED vars
    BY <1>3 DEF vars, Atomic!ledger
  <1> QED
    BY <1>1, <1>2, <1>3, StepIsOp DEF Next

(* The ledger implements the atomic one: what is read and debited one      *)
(* bucket after the other, under the locks of BUCKET_LOCK_ORDER, has the   *)
(* effect of one step, and nothing but a commit has any.                   *)
THEOREM LedgerIsAtomic == Spec => ImplementsAtomicLedger
  <1>1. Init => Atomic!Init
    BY DEF Init, LedgerInit, Atomic!Init, Absent, Keys, Atomic!Keys
  <1>2. TypeOK /\ LedgerInv /\ [Next]_vars => [Atomic!Next]_(Atomic!ledger)
    BY StepIsAtomic
  <1> QED
    BY <1>1, <1>2, LedgerInvariant, PTL DEF Spec, ImplementsAtomicLedger, Atomic!Spec

-----------------------------------------------------------------------------
(* Balances and ceilings *)

(* What a reservation does to the rows and to each bucket. *)
Opened(k) ==
  /\ rows[k].state = "absent"
  /\ rows'[k].state = "reserved"
  /\ \A b \in BucketIds :
       IF Debits(k, b)'
       THEN /\ HasRoom(b, Estimate[k[1]])
            /\ buckets'[b].reserved = buckets[b].reserved + Estimate[k[1]]
            /\ buckets'[b].spent = buckets[b].spent
       ELSE buckets'[b] = buckets[b]

(* What a settlement does to them. *)
Closed(k) ==
  /\ rows[k].state = "reserved"
  /\ rows'[k].state \in Settled
  /\ EndsWell(k, rows'[k].state, rows'[k].amount)
  /\ \A b \in BucketIds : Debits(k, b)' <=> Debits(k, b)
  /\ \A b \in BucketIds :
       IF Debits(k, b)
       THEN /\ buckets'[b].reserved = buckets[b].reserved - Estimate[k[1]]
            /\ buckets'[b].spent = buckets[b].spent + rows'[k].amount
       ELSE buckets'[b] = buckets[b]

(* The buckets an attempt debits do not depend on its number. *)
LEMMA DebitsNamed ==
  ASSUME NEW k \in Keys, NEW day \in 0 .. DayOf(MaxTime), NEW b
  PROVE  (\E i \in 1 .. 3 : BucketsOf(k, day)[i] = b)
           <=> b \in BucketsOn[k[1]][day]
  <1>1. k[1] \in Jobs
    BY DEF Keys
  <1>2. \A i \in 1 .. 3 : BucketsOf(k, day)[i] = BucketsOf(<<k[1], 1>>, day)[i]
    BY DEF BucketsOf
  <1> QED
    BY <1>1, <1>2 DEF BucketsOn

(* A step opens a reservation, settles one or leaves the ledger alone. *)
LEMMA LedgerSteps ==
  ASSUME TypeOK, LedgerInv, TypeOK', [Next]_vars
  PROVE  \/ UNCHANGED <<rows, buckets>>
         \/ \E k \in Keys : /\ \A x \in Keys : x # k => rows'[x] = rows[x]
                            /\ Opened(k) \/ Closed(k)
  <1>1. /\ rows \in [Keys -> Row] /\ rows' \in [Keys -> Row]
        /\ \A k \in Keys : rows[k].day \in 0 .. DayOf(MaxTime) /\ rows'[k].day \in 0 .. DayOf(MaxTime)
    BY DEF TypeOK, LedgerTypeOK
  <1>2. \A k \in Keys, b \in BucketIds :
          /\ Debits(k, b) <=> b \in BucketsOn[k[1]][rows[k].day]
          /\ Debits(k, b)' <=> b \in BucketsOn[k[1]][rows'[k].day]
    BY <1>1, DebitsNamed DEF Debits
  <1>3. \A k \in Keys : k[1] \in Jobs /\ Estimate[k[1]] \in Nat
    BY LedgerAssumption DEF Keys
  <1>4. \A b \in BucketIds : buckets[b].reserved \in Int /\ buckets[b].spent \in Nat
    BY DEF TypeOK, LedgerTypeOK
  <1>5. ASSUME NEW k \in Keys, NEW day \in 0 .. DayOf(MaxTime), NEW expires,
               Atomic!Reserve(k, day, expires)
        PROVE  (\A x \in Keys : x # k => rows'[x] = rows[x]) /\ Opened(k)
    <2>1. /\ rows[k].state = "absent"
          /\ rows' = [rows EXCEPT ![k] =
               [state |-> "reserved", amount |-> 0, expires |-> expires, day |-> day]]
          /\ buckets' = Atomic!Moved(k, day, Estimate[k[1]], 0)
          /\ \A b \in BucketsOn[k[1]][day] :
               buckets[b].reserved + buckets[b].spent + Estimate[k[1]]
                 <= CeilingOn[b]
      BY <1>5 DEF Atomic!Reserve
    <2>2. /\ rows'[k].state = "reserved" /\ rows'[k].day = day
          /\ \A x \in Keys : x # k => rows'[x] = rows[x]
      BY <1>1, <2>1
    <2>3. \A b \in BucketIds :
            buckets'[b] = IF b \in BucketsOn[k[1]][day]
                          THEN [reserved |-> buckets[b].reserved + Estimate[k[1]],
                                spent |-> buckets[b].spent + 0]
                          ELSE buckets[b]
      BY <2>1 DEF Atomic!Moved
    <2>4. \A b \in BucketIds : Debits(k, b)' <=> b \in BucketsOn[k[1]][day]
      BY <1>2, <2>2
    <2>5. ASSUME NEW b \in BucketIds, b \in BucketsOn[k[1]][day]
          PROVE  HasRoom(b, Estimate[k[1]])
      BY <2>1, <2>5 DEF HasRoom, CeilingOn
    <2>6. ASSUME NEW b \in BucketIds
          PROVE  IF Debits(k, b)'
                 THEN /\ HasRoom(b, Estimate[k[1]])
                      /\ buckets'[b].reserved = buckets[b].reserved + Estimate[k[1]]
                      /\ buckets'[b].spent = buckets[b].spent
                 ELSE buckets'[b] = buckets[b]
      <3>1. CASE b \in BucketsOn[k[1]][day]
        <4>1. Debits(k, b)' /\ HasRoom(b, Estimate[k[1]])
          BY <2>4, <2>5, <3>1
        <4> DEFINE reserved == buckets[b].reserved + Estimate[k[1]]
                   spent == buckets[b].spent + 0
        <4>2. buckets'[b].reserved = reserved /\ buckets'[b].spent = spent
          <5>1. buckets'[b] = [reserved |-> reserved, spent |-> spent]
            BY <2>3, <3>1
          <5> HIDE DEF reserved, spent
          <5> QED
            BY <5>1
        <4>3. buckets'[b].spent = buckets[b].spent
          BY <1>4, <4>2
        <4> QED
          BY <4>1, <4>2, <4>3
      <3>2. CASE b \notin BucketsOn[k[1]][day]
        <4>1. buckets'[b] = buckets[b]
          BY <2>3, <3>2
        <4>2. ~Debits(k, b)'
          BY <2>4, <3>2
        <4> QED
          BY <4>1, <4>2
      <3> QED
        BY <3>1, <3>2
    <2> QED
      BY <2>1, <2>2, <2>6 DEF Opened
  <1>6. ASSUME NEW k \in Keys, Atomic!Settle(k, rows'[k].state, rows'[k].amount)
        PROVE  (\A x \in Keys : x # k => rows'[x] = rows[x]) /\ Closed(k)
    <2> DEFINE state == rows'[k].state
               amount == rows'[k].amount
    <2>1. /\ rows[k].state = "reserved"
          /\ EndsWell(k, state, amount)
          /\ rows' = [rows EXCEPT ![k].state = state, ![k].amount = amount]
          /\ buckets' = Atomic!Moved(k, rows[k].day, 0 - Estimate[k[1]], amount)
      BY <1>6 DEF Atomic!Settle, EndsWell
    <2>2. state \in Settled
      BY <2>1 DEF EndsWell, Settled
    <2> HIDE DEF state, amount
    <2>3. /\ rows'[k].day = rows[k].day
          /\ \A x \in Keys : x # k => rows'[x] = rows[x]
      BY <1>1, <2>1 DEF Row
    <2>4. \A b \in BucketIds :
            buckets'[b] = IF b \in BucketsOn[k[1]][rows[k].day]
                          THEN [reserved |-> buckets[b].reserved + (0 - Estimate[k[1]]),
                                spent |-> buckets[b].spent + amount]
                          ELSE buckets[b]
      BY <2>1 DEF Atomic!Moved
    <2>5. \A b \in BucketIds : (Debits(k, b)' <=> b \in BucketsOn[k[1]][rows[k].day])
                              /\ (Debits(k, b) <=> b \in BucketsOn[k[1]][rows[k].day])
      BY <1>2, <2>3
    <2>6. ASSUME NEW b \in BucketIds
          PROVE  IF Debits(k, b)
                 THEN /\ buckets'[b].reserved = buckets[b].reserved - Estimate[k[1]]
                      /\ buckets'[b].spent = buckets[b].spent + amount
                 ELSE buckets'[b] = buckets[b]
      <3>1. CASE b \in BucketsOn[k[1]][rows[k].day]
        <4>1. Debits(k, b)
          BY <2>5, <3>1
        <4> DEFINE reserved == buckets[b].reserved + (0 - Estimate[k[1]])
                   spent == buckets[b].spent + amount
        <4>2. buckets'[b].reserved = reserved /\ buckets'[b].spent = spent
          <5>1. buckets'[b] = [reserved |-> reserved, spent |-> spent]
            BY <2>4, <3>1
          <5> HIDE DEF reserved, spent
          <5> QED
            BY <5>1
        <4>3. buckets'[b].reserved = buckets[b].reserved - Estimate[k[1]]
          BY <1>3, <1>4, <4>2
        <4> QED
          BY <4>1, <4>2, <4>3
      <3>2. CASE b \notin BucketsOn[k[1]][rows[k].day]
        <4>1. buckets'[b] = buckets[b]
          BY <2>4, <3>2
        <4>2. ~Debits(k, b)
          BY <2>5, <3>2
        <4> QED
          BY <4>1, <4>2
      <3> QED
        BY <3>1, <3>2
    <2>7. \A b \in BucketIds : Debits(k, b)' <=> Debits(k, b)
      BY <2>5
    <2>8. Closed(k)
      BY <2>1, <2>2, <2>6, <2>7 DEF Closed, state, amount
    <2> QED
      BY <2>3, <2>8
  <1>7. CASE Atomic!Next
    <2>1. PICK k \in Keys : \/ \E day \in DOMAIN BucketsOn[k[1]] : Atomic!Reserve(k, day, rows'[k].expires)
                            \/ Atomic!Settle(k, rows'[k].state, rows'[k].amount)
      BY <1>7 DEF Atomic!Next, Atomic!Keys, Keys
    <2>2. DOMAIN BucketsOn[k[1]] = 0 .. DayOf(MaxTime)
      BY <1>3 DEF BucketsOn
    <2> QED
      BY <1>5, <1>6, <2>1, <2>2
  <1>8. CASE UNCHANGED Atomic!ledger
    BY <1>8 DEF Atomic!ledger
  <1> QED
    BY <1>7, <1>8, StepIsAtomic

(* What a bucket's sums are taken of. *)
Counted(b) ==
  IsFiniteSet(Units(Held(b))) /\ IsFiniteSet(Units(Charged(b))) /\ IsFiniteSet(Units(Overage(b)))

(* The sums of every bucket are finite, and the bucket agrees with them. *)
Balance == LedgerBalances /\ WithinCeilings /\ \A b \in BucketIds : Counted(b)

(* Amounts are natural numbers. *)
LEMMA AmountsTyped ==
  ASSUME TypeOK, NEW b \in BucketIds
  PROVE  Held(b) \in [Keys -> Nat] /\ Charged(b) \in [Keys -> Nat] /\ Overage(b) \in [Keys -> Nat]
  <1>1. \A k \in Keys : Estimate[k[1]] \in Nat /\ rows[k].amount \in Nat
    BY LedgerAssumption DEF Keys, TypeOK, LedgerTypeOK, Row
  <1>2. \A k \in Keys : rows[k].amount > Estimate[k[1]] => rows[k].amount - Estimate[k[1]] \in Nat
    BY <1>1
  <1> QED
    BY <1>1, <1>2 DEF Held, Charged, Overage

(* And stay so. *)
LEMMA AmountsStayTyped ==
  ASSUME TypeOK', NEW b \in BucketIds
  PROVE  Held(b)' \in [Keys -> Nat] /\ Charged(b)' \in [Keys -> Nat] /\ Overage(b)' \in [Keys -> Nat]
  <1>1. \A k \in Keys : Estimate[k[1]] \in Nat /\ rows'[k].amount \in Nat
    BY LedgerAssumption DEF Keys, TypeOK, LedgerTypeOK, Row
  <1>2. \A k \in Keys : rows'[k].amount > Estimate[k[1]] => rows'[k].amount - Estimate[k[1]] \in Nat
    BY <1>1
  <1> QED
    BY <1>1, <1>2 DEF Held, Charged, Overage

(* A ceiling is a natural number. *)
LEMMA CeilingTyped ==
  ASSUME NEW b \in BucketIds
  PROVE  Ceiling[b[1]] \in Nat
  <1>1. b[1] \in Kinds
    BY DEF BucketIds, Kinds
  <1> QED
    BY <1>1, LedgerAssumption

(* The amounts of an attempt whose row is as it was are as they were. *)
LEMMA OthersUnmoved ==
  ASSUME NEW x \in Keys, rows'[x] = rows[x], NEW b \in BucketIds
  PROVE  Held(b)'[x] = Held(b)[x] /\ Charged(b)'[x] = Charged(b)[x] /\ Overage(b)'[x] = Overage(b)[x]
  BY DEF Held, Charged, Overage, Debits

(* What a reservation adds to the sums of a bucket. *)
LEMMA OpenedAmounts ==
  ASSUME NEW k \in Keys, Opened(k), NEW b \in BucketIds
  PROVE  /\ Held(b)[k] = 0 /\ Held(b)'[k] = (IF Debits(k, b)' THEN Estimate[k[1]] ELSE 0)
         /\ Charged(b)[k] = 0 /\ Charged(b)'[k] = 0
         /\ Overage(b)[k] = 0 /\ Overage(b)'[k] = 0
  <1>1. /\ rows[k].state = "absent" /\ rows'[k].state = "reserved"
    BY DEF Opened
  <1> QED
    BY <1>1 DEF Held, Charged, Overage, Settled

(* What a settlement moves from one sum to the other. *)
LEMMA ClosedAmounts ==
  ASSUME TypeOK', NEW k \in Keys, Closed(k), NEW b \in BucketIds
  PROVE  /\ Held(b)[k] = (IF Debits(k, b) THEN Estimate[k[1]] ELSE 0) /\ Held(b)'[k] = 0
         /\ Charged(b)[k] = 0
         /\ Charged(b)'[k] = (IF Debits(k, b) THEN rows'[k].amount ELSE 0)
         /\ Overage(b)[k] = 0
         /\ Debits(k, b) => Overage(b)'[k] >= rows'[k].amount - Estimate[k[1]]
  <1>1. /\ rows[k].state = "reserved" /\ rows'[k].state \in Settled
        /\ EndsWell(k, rows'[k].state, rows'[k].amount)
        /\ Debits(k, b)' <=> Debits(k, b)
    BY DEF Closed
  <1>2. Estimate[k[1]] \in Nat /\ rows'[k].amount \in Nat
    BY LedgerAssumption DEF Keys, TypeOK, LedgerTypeOK, Row
  <1>3. Held(b)[k] = (IF Debits(k, b) THEN Estimate[k[1]] ELSE 0) /\ Held(b)'[k] = 0
    BY <1>1 DEF Held, Settled
  <1>4. Charged(b)[k] = 0 /\ Charged(b)'[k] = (IF Debits(k, b) THEN rows'[k].amount ELSE 0)
    BY <1>1 DEF Charged, Settled
  <1>5. Overage(b)[k] = 0
    BY <1>1 DEF Overage
  <1>6. ASSUME Debits(k, b)
        PROVE  Overage(b)'[k] >= rows'[k].amount - Estimate[k[1]]
    <2>1. Overage(b)'[k] = IF rows'[k].state = "reconciled" /\ rows'[k].amount > Estimate[k[1]]
                           THEN rows'[k].amount - Estimate[k[1]] ELSE 0
      BY <1>1, <1>6 DEF Overage
    <2>2. rows'[k].state # "reconciled" => rows'[k].amount <= Estimate[k[1]]
      BY <1>1, <1>2 DEF EndsWell
    <2> QED
      BY <1>2, <2>1, <2>2
  <1> QED
    BY <1>3, <1>4, <1>5, <1>6

(* Every step keeps the balance. *)
LEMMA BalanceKeeps ==
  ASSUME TypeOK, LedgerInv, TypeOK', Balance, [Next]_vars
  PROVE  Balance'
  <1>1. CASE UNCHANGED <<rows, buckets>>
    BY <1>1 DEF Balance, Counted, LedgerBalances, WithinCeilings, Held, Charged, Overage, Debits
  <1>2. ASSUME NEW k \in Keys, \A x \in Keys : x # k => rows'[x] = rows[x], Opened(k) \/ Closed(k)
        PROVE  Balance'
    <2> SUFFICES ASSUME NEW b \in BucketIds
                 PROVE  /\ Counted(b)'
                        /\ buckets'[b].reserved = Total(Held(b)')
                        /\ buckets'[b].spent = Total(Charged(b)')
                        /\ buckets'[b].reserved + buckets'[b].spent
                             <= Ceiling[b[1]] + Total(Overage(b)')
      BY DEF Balance, LedgerBalances, WithinCeilings, Total, Units
    <2> DEFINE held == Held(b)     heldNext == Held(b)'
               charged == Charged(b)  chargedNext == Charged(b)'
               overage == Overage(b)  overageNext == Overage(b)'
    <2>1. /\ held \in [Keys -> Nat] /\ heldNext \in [Keys -> Nat]
          /\ charged \in [Keys -> Nat] /\ chargedNext \in [Keys -> Nat]
          /\ overage \in [Keys -> Nat] /\ overageNext \in [Keys -> Nat]
      BY AmountsTyped, AmountsStayTyped
    <2>2. \A x \in Keys : x # k =>
            heldNext[x] = held[x] /\ chargedNext[x] = charged[x] /\ overageNext[x] = overage[x]
      BY <1>2, OthersUnmoved
    <2>3. /\ IsFiniteSet(Units(held)) /\ IsFiniteSet(Units(charged)) /\ IsFiniteSet(Units(overage))
          /\ buckets[b].reserved = Total(held) /\ buckets[b].spent = Total(charged)
          /\ buckets[b].reserved + buckets[b].spent <= Ceiling[b[1]] + Total(overage)
      BY DEF Balance, Counted, LedgerBalances, WithinCeilings
    <2>4. ASSUME IsFiniteSet(Units(heldNext)), IsFiniteSet(Units(chargedNext)),
                 IsFiniteSet(Units(overageNext))
          PROVE  Counted(b)'
      BY <2>4 DEF Counted, Units
    <2>5. Opened(k) =>
            /\ held[k] = 0 /\ heldNext[k] = (IF Debits(k, b)' THEN Estimate[k[1]] ELSE 0)
            /\ charged[k] = 0 /\ chargedNext[k] = 0
            /\ overage[k] = 0 /\ overageNext[k] = 0
      BY OpenedAmounts
    <2>6. Closed(k) =>
            /\ held[k] = (IF Debits(k, b) THEN Estimate[k[1]] ELSE 0) /\ heldNext[k] = 0
            /\ charged[k] = 0 /\ chargedNext[k] = (IF Debits(k, b) THEN rows'[k].amount ELSE 0)
            /\ overage[k] = 0
            /\ Debits(k, b) => overageNext[k] >= rows'[k].amount - Estimate[k[1]]
      BY ClosedAmounts
    <2>7. /\ Estimate[k[1]] \in Nat /\ rows'[k].amount \in Nat /\ Ceiling[b[1]] \in Nat
      BY LedgerAssumption, CeilingTyped DEF Keys, TypeOK, LedgerTypeOK, Row
    <2> HIDE DEF held, heldNext, charged, chargedNext, overage, overageNext
    <2>8. /\ IsFiniteSet(Units(heldNext)) /\ Total(held) \in Nat /\ Total(heldNext) \in Nat
          /\ Total(heldNext) = Total(held) - held[k] + heldNext[k]
      <3>1. /\ held \in [Keys -> Nat] /\ heldNext \in [Keys -> Nat]
            /\ \A x \in Keys : x # k => heldNext[x] = held[x]
            /\ IsFiniteSet(Units(held))
        BY <2>1, <2>2, <2>3
      <3> QED
        BY <3>1, TotalMoves
    <2>9. /\ IsFiniteSet(Units(chargedNext)) /\ Total(charged) \in Nat /\ Total(chargedNext) \in Nat
          /\ Total(chargedNext) = Total(charged) - charged[k] + chargedNext[k]
      <3>1. /\ charged \in [Keys -> Nat] /\ chargedNext \in [Keys -> Nat]
            /\ \A x \in Keys : x # k => chargedNext[x] = charged[x]
            /\ IsFiniteSet(Units(charged))
        BY <2>1, <2>2, <2>3
      <3> QED
        BY <3>1, TotalMoves
    <2>10. /\ IsFiniteSet(Units(overageNext)) /\ Total(overage) \in Nat /\ Total(overageNext) \in Nat
           /\ Total(overageNext) = Total(overage) - overage[k] + overageNext[k]
      <3>1. /\ overage \in [Keys -> Nat] /\ overageNext \in [Keys -> Nat]
            /\ \A x \in Keys : x # k => overageNext[x] = overage[x]
            /\ IsFiniteSet(Units(overage))
        BY <2>1, <2>2, <2>3
      <3> QED
        BY <3>1, TotalMoves
    <2>11. overageNext[k] \in Nat
      BY <2>1
    <2>12. CASE Opened(k)
      <3>1. /\ Total(heldNext) = Total(held) + (IF Debits(k, b)' THEN Estimate[k[1]] ELSE 0)
            /\ Total(chargedNext) = Total(charged) /\ Total(overageNext) = Total(overage)
        BY <2>5, <2>7, <2>8, <2>9, <2>10, <2>12
      <3>2. CASE Debits(k, b)'
        <4>1. /\ buckets[b].reserved + buckets[b].spent + Estimate[k[1]] <= Ceiling[b[1]]
              /\ buckets'[b].reserved = buckets[b].reserved + Estimate[k[1]]
              /\ buckets'[b].spent = buckets[b].spent
          BY <2>12, <3>2 DEF Opened, HasRoom
        <4> QED
          BY <2>3, <2>4, <2>7, <2>8, <2>9, <2>10, <3>1, <3>2, <4>1
             DEF heldNext, chargedNext, overageNext
      <3>3. CASE ~Debits(k, b)'
        <4>1. buckets'[b] = buckets[b]
          BY <2>12, <3>3 DEF Opened
        <4> QED
          BY <2>3, <2>4, <2>7, <2>8, <2>9, <2>10, <3>1, <3>3, <4>1
             DEF heldNext, chargedNext, overageNext
      <3> QED
        BY <3>2, <3>3
    <2>13. CASE Closed(k)
      <3>1. CASE Debits(k, b)
        <4>1. /\ buckets'[b].reserved = buckets[b].reserved - Estimate[k[1]]
              /\ buckets'[b].spent = buckets[b].spent + rows'[k].amount
          BY <2>13, <3>1 DEF Closed
        <4>2. /\ Total(heldNext) = Total(held) - Estimate[k[1]]
              /\ Total(chargedNext) = Total(charged) + rows'[k].amount
              /\ Total(overageNext) >= Total(overage) + (rows'[k].amount - Estimate[k[1]])
          BY <2>6, <2>7, <2>8, <2>9, <2>10, <2>11, <2>13, <3>1
        <4>3. buckets'[b].reserved = Total(heldNext) /\ buckets'[b].spent = Total(chargedNext)
          BY <2>3, <4>1, <4>2
        <4>4. buckets'[b].reserved + buckets'[b].spent <= Ceiling[b[1]] + Total(overageNext)
          BY <2>3, <2>7, <2>8, <2>9, <2>10, <4>1, <4>2
        <4> QED
          BY <2>4, <2>8, <2>9, <2>10, <4>3, <4>4 DEF heldNext, chargedNext, overageNext
      <3>2. CASE ~Debits(k, b)
        <4>1. buckets'[b] = buckets[b]
          BY <2>13, <3>2 DEF Closed
        <4>2. /\ Total(heldNext) = Total(held) /\ Total(chargedNext) = Total(charged)
              /\ Total(overageNext) >= Total(overage)
          BY <2>6, <2>8, <2>9, <2>10, <2>11, <2>13, <3>2
        <4>3. buckets'[b].reserved = Total(heldNext) /\ buckets'[b].spent = Total(chargedNext)
          BY <2>3, <4>1, <4>2
        <4>4. buckets'[b].reserved + buckets'[b].spent <= Ceiling[b[1]] + Total(overageNext)
          BY <2>3, <2>7, <2>8, <2>9, <2>10, <4>1, <4>2
        <4> QED
          BY <2>4, <2>8, <2>9, <2>10, <4>3, <4>4 DEF heldNext, chargedNext, overageNext
      <3> QED
        BY <3>1, <3>2
    <2> QED
      BY <1>2, <2>12, <2>13
  <1> QED
    BY <1>1, <1>2, LedgerSteps

(* Empty buckets agree with the sums of no rows. *)
LEMMA BalanceStarts ==
  ASSUME Init
  PROVE  Balance
  <1>1. \A k \in Keys : rows[k].state = "absent"
    BY DEF Init, LedgerInit, Absent
  <1>2. ASSUME NEW b \in BucketIds
        PROVE  /\ Counted(b)
               /\ Total(Held(b)) = 0 /\ Total(Charged(b)) = 0 /\ Total(Overage(b)) = 0
               /\ buckets[b].reserved = 0 /\ buckets[b].spent = 0 /\ Ceiling[b[1]] \in Nat
    <2>1. \A k \in DOMAIN Held(b) : Held(b)[k] = 0
      BY <1>1 DEF Held
    <2>2. \A k \in DOMAIN Charged(b) : Charged(b)[k] = 0
      BY <1>1 DEF Charged, Settled
    <2>3. \A k \in DOMAIN Overage(b) : Overage(b)[k] = 0
      BY <1>1 DEF Overage
    <2>4. buckets[b].reserved = 0 /\ buckets[b].spent = 0
      BY DEF Init, LedgerInit
    <2> QED
      BY <2>1, <2>2, <2>3, <2>4, TotalOfNothing, CeilingTyped DEF Counted
  <1> QED
    BY <1>2 DEF Balance, LedgerBalances, WithinCeilings

(* The sums of the ledger are finite and its buckets agree with them. *)
THEOREM BalanceInvariant == Spec => []Balance
  <1>1. Init => Balance
    BY BalanceStarts
  <1>2. TypeOK /\ LedgerInv /\ TypeOK' /\ Balance /\ [Next]_vars => Balance'
    BY BalanceKeeps
  <1> QED
    BY <1>1, <1>2, LedgerInvariant, PTL DEF Spec

(* Each bucket holds what its reservations hold and has spent what they    *)
(* were settled for, however reserves, settles, sweeps and crashes are     *)
(* interleaved.                                                            *)
THEOREM LedgerAlwaysBalances == Spec => []LedgerBalances
  <1>1. Balance => LedgerBalances
    BY DEF Balance
  <1> QED
    BY <1>1, BalanceInvariant, PTL

(* No ceiling is passed by more than what calls cost over their estimates, *)
(* however many reservations are taken at once.                            *)
THEOREM CeilingsRespected == Spec => []WithinCeilings
  <1>1. Balance => WithinCeilings
    BY DEF Balance
  <1> QED
    BY <1>1, BalanceInvariant, PTL

-----------------------------------------------------------------------------
(* Paid calls, where leases nest and no handler refuses what it reserved for *)

First(j) == <<j, 1>>

(* The unit is paid for, or taken to be. *)
Ended(j) == rows[First(j)].state \in {"reconciled", "expired_spent"}

(* Where a worker is before it has its answer from reserve(), and where it *)
(* has a receipt.                                                          *)
Preparing(w) == run[w].at \in {"claimed", "reserving"}
Paying(w)    == run[w].at \in {"receipt", "announced", "calling", "settling"}

(* The job's last claim was followed by a failure. *)
LastFailed(j) == jobs[j].runs \in jobs[j].failed

(* A unit has one attempt, nothing hands it back, and a call is made under *)
(* what is there.                                                          *)
KeyCovered(k) ==
  /\ rows[k].state # "released"
  /\ rows[k].state # "absent" => k[2] = 1
  /\ rows[k].state = "absent" => calls[k] = {}
  /\ rows[k].state = "reserved" => rows[k].expires <= now + Lease
  /\ \A n \in calls[k] : n <= jobs[k[1]].runs

(* A reservation is for the unit of the worker that takes it and ends with *)
(* the worker's patience and the lease; what a worker settles is its own.  *)
TxCovered(s) ==
  /\ tx[s].op = "settle" =>
       /\ tx[s].row.state # "released"
       /\ s \in Workers => run[s].at = "settling" /\ tx[s].key = run[s].key
  /\ tx[s].op = "reserve" =>
       /\ s \in Workers /\ run[s].at = "reserving"
       /\ tx[s].key = First(run[s].job)
       /\ tx[s].row.expires <= run[s].time + timing.patience + Lease
       /\ tx[s].row.expires <= now + Lease

(* Until a worker has its answer its job stays its own, unless the unit or *)
(* the job has ended or the job has failed since; and once it has a        *)
(* receipt the reservation is there.                                       *)
RunCovered(w) ==
  LET j == run[w].job
  IN  /\ run[w].at # "idle" => run[w].claim <= jobs[j].runs
      /\ Preparing(w) =>
           /\ run[w].time <= now /\ now <= run[w].time + timing.patience
           /\ \/ Ended(j)
              \/ jobs[j].state = "closed"
              \/ jobs[j].state = "running" /\ jobs[j].expires >= run[w].time + timing.jobLease
              \/ jobs[j].state # "running" /\ LastFailed(j)
      /\ Paying(w) => run[w].key = First(j) /\ rows[First(j)].state # "absent"

(* A job that may be claimed has no live reservation unless it failed, and *)
(* one that runs has none that outlives its lease.                         *)
JobCovered(j) ==
  /\ \A f \in jobs[j].failed : f <= jobs[j].runs
  /\ rows[First(j)].state = "reserved" =>
       /\ jobs[j].state = "running" => rows[First(j)].expires <= jobs[j].expires
       /\ jobs[j].state \in {"ready", "failed_provider", "timed_out"} =>
            rows[First(j)].expires < now \/ LastFailed(j)

Covered ==
  /\ \A k \in Keys : KeyCovered(k)
  /\ \A s \in Sessions : TxCovered(s)
  /\ \A w \in Workers : RunCovered(w)
  /\ \A j \in Jobs : JobCovered(j)

(* The types the coverage of calls is about.                               *)
LEMMA CoverTyped ==
  ASSUME TypeOK
  PROVE  /\ now \in Nat /\ Lease \in Nat
         /\ timing.jobLease \in Nat /\ timing.patience \in Nat
         /\ \A j \in Jobs : First(j) \in Keys /\ First(j)[1] = j /\ First(j)[2] = 1
         /\ \A j \in Jobs : /\ jobs[j] \in Job /\ jobs[j].expires \in Nat /\ jobs[j].runs \in Nat
                            /\ jobs[j].failed \in SUBSET Nat
         /\ \A k \in Keys : /\ rows[k] \in Row /\ rows[k].expires \in Nat /\ calls[k] \in SUBSET Nat
                            /\ k[1] \in Jobs /\ k[2] \in Nat /\ (k[2] = 1 => k = First(k[1]))
         /\ \A w \in Workers : run[w].at # "idle" =>
              /\ run[w].job \in Jobs /\ run[w].key \in Keys /\ run[w].time \in Nat
              /\ run[w].outcome \in Outcome /\ run[w].at \in Places /\ run[w].claim \in Nat
  <1>1. now \in Nat /\ Lease \in Nat /\ timing.jobLease \in Nat /\ timing.patience \in Nat
    BY LedgerAssumption, PaidAssumption DEF TypeOK, LedgerTypeOK
  <1>2. \A j \in Jobs : First(j) \in Keys /\ First(j)[1] = j /\ First(j)[2] = 1
    BY LedgerAssumption DEF Keys, First
  <1>3. \A j \in Jobs : /\ jobs[j] \in Job /\ jobs[j].expires \in Nat /\ jobs[j].runs \in Nat
                        /\ jobs[j].failed \in SUBSET Nat
    BY DEF TypeOK, Job
  <1>4. \A k \in Keys : rows[k] \in Row /\ rows[k].expires \in Nat /\ calls[k] \in SUBSET Nat
    BY DEF TypeOK, LedgerTypeOK, Row
  <1>5. \A k \in Keys : k[1] \in Jobs /\ k[2] \in Nat /\ (k[2] = 1 => k = First(k[1]))
    BY DEF Keys, First
  <1>6. \A w \in Workers : run[w].at # "idle" =>
          /\ run[w].job \in Jobs /\ run[w].key \in Keys /\ run[w].time \in Nat
          /\ run[w].outcome \in Outcome /\ run[w].at \in Places /\ run[w].claim \in Nat
    BY RunTyped
  <1> QED
    BY <1>1, <1>2, <1>3, <1>4, <1>5, <1>6

(* What a worker's move leaves as it was. *)
LEMMA RunMoves ==
  ASSUME TypeOK, NEW w \in Workers, run[w].at # "idle"
  PROVE  /\ \A place \in Places : GoTo(w, place) =>
              /\ run'[w].at = place /\ run'[w].job = run[w].job /\ run'[w].time = run[w].time
              /\ run'[w].key = run[w].key /\ run'[w].claim = run[w].claim
              /\ \A v \in Workers : v # w => run'[v] = run[v]
         /\ \A place \in Places, o \in Outcome : Over(w, place, o) =>
              /\ run'[w].at = place /\ run'[w].job = run[w].job
              /\ run'[w].key = run[w].key /\ run'[w].claim = run[w].claim
              /\ \A v \in Workers : v # w => run'[v] = run[v]
         /\ \A k \in Keys : HasReceipt(w, k) =>
              /\ run'[w].at = "receipt" /\ run'[w].job = run[w].job /\ run'[w].key = k
              /\ run'[w].claim = run[w].claim
              /\ \A v \in Workers : v # w => run'[v] = run[v]
  <1>1. run[w] \in [at: Places, job: Jobs, claim: Nat, time: Nat, key: Keys, outcome: Outcome]
    BY RunTyped
  <1>2. run \in [Workers -> Run]
    BY DEF TypeOK
  <1>3. ASSUME NEW place \in Places, GoTo(w, place)
        PROVE  /\ run'[w].at = place /\ run'[w].job = run[w].job /\ run'[w].time = run[w].time
               /\ run'[w].key = run[w].key /\ run'[w].claim = run[w].claim
               /\ \A v \in Workers : v # w => run'[v] = run[v]
    BY <1>1, <1>2, <1>3 DEF GoTo
  <1>4. ASSUME NEW place \in Places, NEW o \in Outcome, Over(w, place, o)
        PROVE  /\ run'[w].at = place /\ run'[w].job = run[w].job
               /\ run'[w].key = run[w].key /\ run'[w].claim = run[w].claim
               /\ \A v \in Workers : v # w => run'[v] = run[v]
    BY <1>1, <1>2, <1>4 DEF Over
  <1>5. ASSUME NEW k \in Keys, HasReceipt(w, k)
        PROVE  /\ run'[w].at = "receipt" /\ run'[w].job = run[w].job /\ run'[w].key = k
               /\ run'[w].claim = run[w].claim
               /\ \A v \in Workers : v # w => run'[v] = run[v]
    BY <1>1, <1>2, <1>5 DEF HasReceipt
  <1> QED
    BY <1>3, <1>4, <1>5

(* Where the rows, the jobs and the calls stay, one session's move keeps   *)
(* what is covered if it keeps what is its own.                            *)
LEMMA OneMoves ==
  ASSUME TypeOK, Covered, NEW s \in Sessions,
         UNCHANGED <<rows, now, timing, jobs, calls>>,
         \A q \in Sessions : q # s => tx'[q] = tx[q],
         \A v \in Workers : v # s => run'[v] = run[v],
         TxCovered(s)',
         s \in Workers => RunCovered(s)'
  PROVE  Covered'
  <1>1. /\ rows' = rows /\ now' = now /\ timing' = timing /\ jobs' = jobs /\ calls' = calls
        /\ \A j : (Ended(j)' <=> Ended(j)) /\ (LastFailed(j)' <=> LastFailed(j))
    BY DEF Ended, LastFailed
  <1>2. ASSUME NEW k \in Keys PROVE KeyCovered(k)'
    BY <1>1 DEF Covered, KeyCovered
  <1>3. ASSUME NEW q \in Sessions PROVE TxCovered(q)'
    <2>1. CASE q = s
      BY <2>1
    <2>2. CASE q # s
      <3>1. tx'[q] = tx[q] /\ (q \in Workers => run'[q] = run[q])
        BY <2>2
      <3> QED
        BY <1>1, <3>1 DEF Covered, TxCovered
    <2> QED
      BY <2>1, <2>2
  <1>4. ASSUME NEW v \in Workers PROVE RunCovered(v)'
    <2>1. CASE v = s
      BY <2>1
    <2>2. CASE v # s
      <3>1. run'[v] = run[v] /\ RunCovered(v)
        BY <2>2 DEF Covered
      <3> QED
        BY <1>1, <3>1 DEF RunCovered, Preparing, Paying, First
    <2> QED
      BY <2>1, <2>2
  <1>6. ASSUME NEW j \in Jobs PROVE JobCovered(j)'
    BY <1>1 DEF Covered, JobCovered, First
  <1> QED
    BY <1>2, <1>3, <1>4, <1>6 DEF Covered

(* Of a unit whose only attempt is never handed back, what reserve() may   *)
(* find: nothing, and it takes the first attempt; a live reservation, of   *)
(* that attempt; or an end.                                                *)
LEMMA FirstAnswers ==
  ASSUME TypeOK, LedgerInv, Covered, NEW j \in Jobs, NEW t
  PROVE  /\ Redelivery(j, t) = "open" => NextKey(j) = First(j)
         /\ Redelivery(j, t) = "live" =>
              /\ Newest(j) = First(j)
              /\ rows[First(j)].state = "reserved" /\ ~(rows[First(j)].expires < t)
  <1> DEFINE c == Cardinality(Family(j))
  <1>1. c \in 0 .. MaxAttempts /\ Family(j) = 1 .. c /\ (c > 0 => Newest(j) = <<j, c>>)
    BY FamilyCounted DEF LedgerInv
  <1>2. c = 0 \/ c = 1
    <2>1. ASSUME c > 1 PROVE FALSE
      <3>1. c \in Family(j)
        BY <1>1, <2>1
      <3>2. rows[<<j, c>>].state # "absent" /\ <<j, c>> \in Keys
        BY <3>1 DEF Family, Keys
      <3>3. c = 1
        BY <3>2 DEF Covered, KeyCovered
      <3> QED
        BY <2>1, <3>3
    <2> QED
      BY <1>1, <2>1
  <1>3. CASE c = 0
    <2>1. Family(j) = {}
      BY <1>1, <1>3
    <2>2. Redelivery(j, t) = "open"
      BY <2>1 DEF Redelivery
    <2> QED
      BY <1>3, <2>2 DEF NextKey, First
  <1>4. CASE c = 1
    <2>1. Family(j) = {1} /\ Newest(j) = First(j)
      BY <1>1, <1>4 DEF First
    <2>2. /\ rows[First(j)].state # "absent" /\ rows[First(j)].state # "released"
          /\ rows[First(j)].state \in Settled \union {"absent", "reserved"}
      <3>1. First(j) \in Keys /\ rows[First(j)] \in Row
        BY CoverTyped
      <3>2. rows[First(j)].state # "absent"
        BY <2>1 DEF Family, First
      <3> QED
        BY <3>1, <3>2 DEF Covered, KeyCovered, Row
    <2>3. CASE rows[First(j)].state = "reserved"
      BY <2>1, <2>3 DEF Redelivery
    <2>4. CASE rows[First(j)].state \in {"reconciled", "expired_spent"}
      BY <2>1, <2>4 DEF Redelivery
    <2> QED
      BY <2>2, <2>3, <2>4 DEF Settled
  <1> QED
    BY <1>2, <1>3, <1>4

(* reserve() begins for the unit's first attempt.                          *)
LEMMA ReserveCovers ==
  ASSUME TypeOK, LedgerInv, Covered, NEW w \in Workers, Reserve(w), timing' = timing
  PROVE  Covered'
  <1> DEFINE j == run[w].job
  <1>1. /\ run[w].at = "claimed" /\ w \in Sessions /\ j \in Jobs /\ run[w].time \in Nat /\ now \in Nat
        /\ Lease \in Nat /\ timing.patience \in Nat
    BY PaidAssumption, CoverTyped DEF Reserve, At
  <1>2. PICK t \in run[w].time .. now : Redelivery(j, t) = "open" /\ BeginReserve(w, j, t)
    BY DEF Reserve
  <1>3. t \in Nat /\ t <= now
    BY <1>1, <1>2
  <1>4. UNCHANGED <<rows, now, timing, jobs, calls>> /\ GoTo(w, "reserving")
    BY <1>2 DEF Reserve, BeginReserve, ledger
  <1>5. /\ run'[w].at = "reserving" /\ run'[w].job = j /\ run'[w].time = run[w].time
        /\ run'[w].claim = run[w].claim
        /\ \A v \in Workers : v # w => run'[v] = run[v]
    BY <1>1, <1>4, RunMoves DEF Places
  <1>6. /\ tx'[w].op = "reserve" /\ tx'[w].key = First(j) /\ tx'[w].row.expires = t + Lease
        /\ \A q \in Sessions : q # w => tx'[q] = tx[q]
    <2>1. NextKey(j) = First(j)
      BY <1>1, <1>2, FirstAnswers
    <2> QED
      BY <1>1, <1>2, <2>1 DEF BeginReserve, TypeOK, LedgerTypeOK
  <1>7. run[w].time <= now /\ now <= run[w].time + timing.patience
    BY <1>1 DEF Covered, RunCovered, Preparing
  <1>8. TxCovered(w)'
    BY <1>1, <1>3, <1>4, <1>5, <1>6, <1>7 DEF TxCovered, First
  <1>9. RunCovered(w)'
    <2>1. RunCovered(w)
      BY DEF Covered
    <2> QED
      BY <1>1, <1>4, <1>5, <2>1 DEF RunCovered, Preparing, Paying, Ended, LastFailed, First
  <1> QED
    BY <1>1, <1>4, <1>5, <1>6, <1>8, <1>9, OneMoves

(* A worker leaves off, with no transaction left.                          *)
LEMMA OutcomeCovers ==
  ASSUME TypeOK, Covered, NEW w \in Workers,
         UNCHANGED <<rows, now, timing, jobs, calls>>,
         \A q \in Sessions : q # w => tx'[q] = tx[q],
         \A v \in Workers : v # w => run'[v] = run[v],
         tx'[w].op = "none",
         run'[w].at \in {"idle", "refused", "settled"},
         run'[w].at # "idle" =>
           run[w].at # "idle" /\ run'[w].job = run[w].job /\ run'[w].claim = run[w].claim
  PROVE  Covered'
  <1>1. w \in Sessions
    BY PaidAssumption
  <1>2. TxCovered(w)'
    BY DEF TxCovered
  <1>3. RunCovered(w)'
    BY DEF Covered, RunCovered, Preparing, Paying
  <1> QED
    BY <1>1, <1>2, <1>3, OneMoves

(* A worker is in a transaction only where it reserves or settles.         *)
LEMMA NoTxElsewhere ==
  ASSUME TypeOK, Covered, NEW w \in Workers, run[w].at \notin {"reserving", "settling"}
  PROVE  tx[w].op = "none"
  <1>1. w \in Sessions
    BY PaidAssumption
  <1>2. tx[w].op \in {"reserve", "settle", "none"}
    BY <1>1 DEF TypeOK, LedgerTypeOK, Transaction, NoTx
  <1>3. TxCovered(w)
    BY <1>1 DEF Covered
  <1> QED
    BY <1>2, <1>3 DEF TxCovered

(* A redelivery finds the unit's answer.                                   *)
LEMMA RedeliveredCovers ==
  ASSUME TypeOK, LedgerInv, Covered, NEW w \in Workers, Redelivered(w), timing' = timing
  PROVE  Covered'
  <1> DEFINE j == run[w].job
  <1>1. run[w].at = "claimed" /\ j \in Jobs /\ w \in Sessions /\ First(j) \in Keys
    BY PaidAssumption, CoverTyped DEF Redelivered, At
  <1>2. UNCHANGED <<rows, now, timing, jobs, calls, tx>>
    BY DEF Redelivered, ledger
  <1>3. tx'[w].op = "none" /\ TxCovered(w)'
    BY <1>1, <1>2, NoTxElsewhere DEF TxCovered
  <1>4. ASSUME NEW t, Redelivery(j, t) = "live", HasReceipt(w, Newest(j))
        PROVE  Covered'
    <2>1. rows[First(j)].state = "reserved" /\ Newest(j) = First(j)
      BY <1>1, <1>4, FirstAnswers
    <2>2. /\ run'[w].at = "receipt" /\ run'[w].job = j /\ run'[w].key = First(j)
          /\ run'[w].claim = run[w].claim
          /\ \A v \in Workers : v # w => run'[v] = run[v]
      BY <1>1, <1>4, <2>1, RunMoves
    <2>3. RunCovered(w)'
      BY <1>1, <1>2, <2>1, <2>2 DEF Covered, RunCovered, Preparing, Paying, First
    <2> QED
      BY <1>1, <1>2, <1>3, <2>2, <2>3, OneMoves
  <1>5. CASE Over(w, "settled", "closed")
    <2>1. /\ run'[w].at = "settled" /\ run'[w].job = j /\ run'[w].claim = run[w].claim
          /\ \A v \in Workers : v # w => run'[v] = run[v]
      BY <1>1, <1>5, RunMoves DEF Places, Outcome
    <2> QED
      BY <1>1, <1>2, <1>3, <2>1, OutcomeCovers
  <1> QED
    BY <1>4, <1>5 DEF Redelivered

(* Another lock of a transaction is nothing to a call.                     *)
LEMMA LockCovers ==
  ASSUME TypeOK, Covered, NEW s \in Sessions, Lock(s), tx[s].op # "none",
         UNCHANGED <<rows, now, timing, jobs, calls, run>>
  PROVE  Covered'
  <1>1. /\ tx'[s].op = tx[s].op /\ tx'[s].key = tx[s].key /\ tx'[s].row = tx[s].row
        /\ \A q \in Sessions : q # s => tx'[q] = tx[q]
    BY DEF Lock, TypeOK, LedgerTypeOK, Transaction, NoTx
  <1>2. TxCovered(s)'
    BY <1>1 DEF Covered, TxCovered
  <1>3. s \in Workers => RunCovered(s)'
    BY DEF Covered, RunCovered, Preparing, Paying, Ended, LastFailed
  <1> QED
    BY <1>1, <1>2, <1>3, OneMoves


(* A settle begins: of a worker that has made its call, or of the sweep.   *)
LEMMA BeginSettleCovers ==
  ASSUME TypeOK, Covered, NEW s \in Sessions, NEW k \in Keys, NEW state \in Settled \ {"released"},
         NEW amount, BeginSettle(s, k, state, amount),
         UNCHANGED <<timing, jobs, calls>>,
         \A v \in Workers : v # s => run'[v] = run[v],
         s \in Workers =>
           /\ run[s].at = "calling" /\ k = run[s].key
           /\ run'[s].at = "settling" /\ run'[s].job = run[s].job /\ run'[s].key = run[s].key
           /\ run'[s].claim = run[s].claim
  PROVE  Covered'
  <1>1. UNCHANGED <<rows, now, timing, jobs, calls>>
    BY DEF BeginSettle, ledger
  <1>2. /\ tx'[s].op = "settle" /\ tx'[s].key = k /\ tx'[s].row.state = state
        /\ \A q \in Sessions : q # s => tx'[q] = tx[q]
    BY CoverTyped DEF BeginSettle, TypeOK, LedgerTypeOK, Row
  <1>3. TxCovered(s)'
    BY <1>2 DEF TxCovered
  <1>4. ASSUME s \in Workers
        PROVE  RunCovered(s)'
    <2>1. RunCovered(s)
      BY <1>4 DEF Covered
    <2> QED
      BY <1>1, <1>4, <2>1 DEF RunCovered, Preparing, Paying, Ended, First
  <1> QED
    BY <1>1, <1>2, <1>3, <1>4, OneMoves

(* A worker that has a receipt finds its unit's row.                       *)
LEMMA PayingRow ==
  ASSUME TypeOK, Covered, NEW w \in Workers, Paying(w)
  PROVE  run[w].key = First(run[w].job) /\ run[w].key \in Keys /\ run[w].job \in Jobs
  <1>1. run[w].at # "idle"
    BY DEF Paying
  <1> QED
    BY <1>1, CoverTyped DEF Covered, RunCovered

(* The provider has answered.                                              *)
LEMMA ReconcileCovers ==
  ASSUME TypeOK, LedgerInv, Covered, NEW w \in Workers, NEW cost \in Costs, Reconcile(w, cost),
         timing' = timing
  PROVE  Covered'
  <1> DEFINE k == run[w].key
  <1>1. /\ run[w].at = "calling" /\ w \in Sessions /\ jobs' = jobs /\ calls' = calls
        /\ "settling" \in Places /\ "settled" \in Places /\ "refused" \in Places
    BY PaidAssumption DEF Reconcile, At, Places
  <1>2. k \in Keys
    BY <1>1, PayingRow DEF Paying
  <1>3. CASE BeginSettle(w, k, "reconciled", cost) /\ GoTo(w, "settling")
    <2>1. /\ run'[w].at = "settling" /\ run'[w].job = run[w].job /\ run'[w].key = k
          /\ run'[w].claim = run[w].claim
          /\ \A v \in Workers : v # w => run'[v] = run[v]
      BY <1>1, <1>3, RunMoves
    <2> QED
      BY <1>1, <1>2, <1>3, <2>1, BeginSettleCovers DEF Settled
  <1>4. ASSUME NEW place \in {"settled", "refused"}, GoTo(w, place), UNCHANGED <<ledger, tx, now>>
        PROVE  Covered'
    <2>1. /\ run'[w].at = place /\ run'[w].job = run[w].job /\ run'[w].claim = run[w].claim
          /\ \A v \in Workers : v # w => run'[v] = run[v]
      BY <1>1, <1>4, RunMoves
    <2>2. UNCHANGED <<rows, now, timing, jobs, calls, tx>> /\ tx'[w].op = "none"
      BY <1>1, <1>4, NoTxElsewhere DEF ledger
    <2> QED
      BY <1>1, <1>4, <2>1, <2>2, OutcomeCovers
  <1> QED
    BY <1>3, <1>4 DEF Reconcile

(* The provider has not answered in time.                                  *)
LEMMA ExpireCovers ==
  ASSUME TypeOK, LedgerInv, Covered, NEW w \in Workers, ExpireOnTimeout(w), timing' = timing
  PROVE  Covered'
  <1> DEFINE k == run[w].key
  <1>1. /\ run[w].at = "calling" /\ w \in Sessions /\ jobs' = jobs /\ calls' = calls
        /\ "settling" \in Places /\ "refused" \in Places /\ "failed_provider" \in Outcome
    BY PaidAssumption DEF ExpireOnTimeout, At, Places, Outcome
  <1>2. k \in Keys
    BY <1>1, PayingRow DEF Paying
  <1>3. CASE BeginSettle(w, k, "expired_spent", Estimate[k[1]]) /\ Over(w, "settling", "failed_provider")
    <2>1. /\ run'[w].at = "settling" /\ run'[w].job = run[w].job /\ run'[w].key = k
          /\ run'[w].claim = run[w].claim
          /\ \A v \in Workers : v # w => run'[v] = run[v]
      BY <1>1, <1>3, RunMoves
    <2> QED
      BY <1>1, <1>2, <1>3, <2>1, BeginSettleCovers DEF Settled
  <1>4. CASE Over(w, "refused", "failed_provider") /\ UNCHANGED <<ledger, tx, now>>
    <2>1. /\ run'[w].at = "refused" /\ run'[w].job = run[w].job /\ run'[w].claim = run[w].claim
          /\ \A v \in Workers : v # w => run'[v] = run[v]
      BY <1>1, <1>4, RunMoves
    <2>2. UNCHANGED <<rows, now, timing, jobs, calls, tx>> /\ tx'[w].op = "none"
      BY <1>1, <1>4, NoTxElsewhere DEF ledger
    <2> QED
      BY <1>1, <2>1, <2>2, OutcomeCovers
  <1> QED
    BY <1>3, <1>4 DEF ExpireOnTimeout

(* A transaction is rolled back under its worker, whose statement raised,  *)
(* or with it.                                                             *)
LEMMA RollBackCovers ==
  ASSUME TypeOK, Covered, NEW w \in Workers, Raise(w) \/ Crash(w), timing' = timing
  PROVE  Covered'
  <1>1. w \in Sessions /\ run[w].at # "idle"
    BY PaidAssumption DEF Raise, Crash, At
  <1>2. UNCHANGED <<rows, now, timing, jobs, calls>>
    BY DEF Raise, Crash, RollBack, ledger
  <1>3. tx'[w].op = "none" /\ \A q \in Sessions : q # w => tx'[q] = tx[q]
    BY <1>1 DEF Raise, Crash, RollBack, End, TypeOK, LedgerTypeOK, NoTx
  <1>4. CASE Raise(w)
    <2>1. /\ run'[w].at = "refused" /\ run'[w].job = run[w].job /\ run'[w].claim = run[w].claim
          /\ \A v \in Workers : v # w => run'[v] = run[v]
      BY <1>1, <1>4, RunMoves DEF Raise, Places, Outcome
    <2> QED
      BY <1>1, <1>2, <1>3, <2>1, OutcomeCovers
  <1>5. CASE Crash(w)
    <2>1. run'[w].at = "idle" /\ \A v \in Workers : v # w => run'[v] = run[v]
      BY <1>5 DEF Crash, Idle, TypeOK
    <2> QED
      BY <1>2, <1>3, <2>1, OutcomeCovers
  <1> QED
    BY <1>4, <1>5

(* A settle commits: the row it ends was held, and the unit has ended.     *)
LEMMA CommitCovers ==
  ASSUME TypeOK, LedgerInv, Covered, NEW s \in Sessions, CommitSettle(s),
         UNCHANGED <<timing, jobs, calls>>,
         \A v \in Workers : v # s => run'[v] = run[v],
         s \in Workers =>
           run'[s].at = "settled" /\ run'[s].job = run[s].job /\ run'[s].claim = run[s].claim
  PROVE  Covered'
  <1> DEFINE k == tx[s].key
             i == k[1]
  <1>1. /\ tx[s].op = "settle" /\ k \in Keys /\ i \in Jobs /\ tx[s].row \in Row /\ tx[s].held \in Nat
    BY TxTyped, CoverTyped DEF LedgerInv, CommitSettle
  <1>2. tx[s].held > 0
    BY <1>1, PlanOfSettle DEF CommitSettle, AtLast
  <1>3. /\ EndsWell(k, tx[s].row.state, tx[s].row.amount) /\ rows[k].state = "reserved"
    BY <1>1, <1>2 DEF LedgerInv, SettleStands
  <1>4. tx[s].row.state \in {"reconciled", "expired_spent"}
    BY <1>1, <1>3 DEF EndsWell, Covered, TxCovered
  <1>5. k = First(i)
    BY <1>1, <1>3, CoverTyped DEF Covered, KeyCovered
  <1>6. rows'[k] = tx[s].row /\ \A x \in Keys : x # k => rows'[x] = rows[x]
    BY <1>1 DEF CommitSettle, TypeOK, LedgerTypeOK
  <1>7. /\ now' = now /\ timing' = timing /\ jobs' = jobs /\ calls' = calls
        /\ tx'[s].op = "none" /\ \A q \in Sessions : q # s => tx'[q] = tx[q]
    BY DEF CommitSettle, End, TypeOK, LedgerTypeOK, NoTx
  <1>8. \A j \in Jobs :
          /\ Ended(j) => Ended(j)'
          /\ rows'[First(j)].state = "reserved" => rows'[First(j)] = rows[First(j)]
          /\ rows'[First(j)].state = "absent" => rows[First(j)].state = "absent"
    <2>1. \A j \in Jobs : First(j) \in Keys /\ (First(j) # k => rows'[First(j)] = rows[First(j)])
      BY <1>6, CoverTyped
    <2>2. /\ rows[k].state = "reserved" /\ rows'[k].state \in {"reconciled", "expired_spent"}
      BY <1>3, <1>4, <1>6
    <2> HIDE DEF k
    <2> QED
      BY <2>1, <2>2 DEF Ended
  <1>9. ASSUME NEW x \in Keys PROVE KeyCovered(x)'
    <2>1. KeyCovered(x)
      BY DEF Covered
    <2>2. CASE x = k
      BY <1>1, <1>3, <1>4, <1>6, <1>7, <2>1, <2>2 DEF KeyCovered
    <2>3. CASE x # k
      BY <1>6, <1>7, <2>1, <2>3 DEF KeyCovered
    <2> QED
      BY <2>2, <2>3
  <1>10. ASSUME NEW q \in Sessions PROVE TxCovered(q)'
    <2>1. CASE q = s
      BY <1>7, <2>1 DEF TxCovered
    <2>2. CASE q # s
      <3>1. TxCovered(q) /\ tx'[q] = tx[q] /\ (q \in Workers => run'[q] = run[q])
        BY <1>7, <2>2 DEF Covered
      <3> QED
        BY <1>7, <3>1 DEF TxCovered
    <2> QED
      BY <2>1, <2>2
  <1>11. ASSUME NEW v \in Workers PROVE RunCovered(v)'
    <2>1. RunCovered(v) /\ (run[v].at # "idle" => run[v].job \in Jobs)
      BY CoverTyped DEF Covered
    <2>2. CASE v # s
      <3>1. run'[v] = run[v]
        BY <2>2
      <3>2. CASE run[v].at = "idle"
        BY <3>1, <3>2 DEF RunCovered, Preparing, Paying
      <3>3. CASE run[v].at # "idle"
        <4>1. /\ Ended(run[v].job) => Ended(run[v].job)'
              /\ rows'[First(run[v].job)].state = "absent" => rows[First(run[v].job)].state = "absent"
          BY <1>8, <2>1, <3>3
        <4>2. Ended(run[v].job)' <=> rows'[First(run'[v].job)].state \in {"reconciled", "expired_spent"}
          BY <3>1 DEF Ended, First
        <4> QED
          BY <1>7, <2>1, <3>1, <4>1, <4>2 DEF RunCovered, Preparing, Paying, Ended, LastFailed, First
      <3> QED
        BY <3>2, <3>3
    <2>3. CASE v = s
      <3>1. ~Preparing(v)' /\ ~Paying(v)'
        BY <2>3 DEF Preparing, Paying
      <3>2. TxCovered(s)
        BY DEF Covered
      <3>3. run[s].at = "settling"
        BY <1>1, <2>3, <3>2 DEF TxCovered
      <3> QED
        BY <1>7, <2>1, <2>3, <3>1, <3>3 DEF RunCovered
    <2> QED
      BY <2>2, <2>3
  <1>13. ASSUME NEW j \in Jobs PROVE JobCovered(j)'
    <2>1. JobCovered(j)
      BY DEF Covered
    <2> QED
      BY <1>7, <1>8, <2>1 DEF JobCovered, LastFailed, First
  <1> QED
    BY <1>9, <1>10, <1>11, <1>13 DEF Covered

(* A worker settles.                                                       *)
LEMMA SettleStepCovers ==
  ASSUME TypeOK, LedgerInv, Covered, NEW w \in Workers, SettleStep(w), timing' = timing
  PROVE  Covered'
  <1>1. /\ run[w].at = "settling" /\ w \in Sessions /\ jobs' = jobs /\ calls' = calls
        /\ "settled" \in Places /\ "refused" \in Places
    BY PaidAssumption DEF SettleStep, At, Places
  <1>2. CASE LockForSettle(w) /\ UNCHANGED run
    BY <1>1, <1>2, LockCovers DEF LockForSettle, ledger
  <1>3. CASE SettleLost(w) /\ GoTo(w, "refused")
    <2>1. /\ run'[w].at = "refused" /\ run'[w].job = run[w].job /\ run'[w].claim = run[w].claim
          /\ \A v \in Workers : v # w => run'[v] = run[v]
      BY <1>1, <1>3, RunMoves
    <2>2. UNCHANGED <<rows, now, timing, jobs, calls>>
      BY <1>1, <1>3 DEF SettleLost, ledger
    <2>3. tx'[w].op = "none" /\ \A q \in Sessions : q # w => tx'[q] = tx[q]
      BY <1>1, <1>3 DEF SettleLost, End, TypeOK, LedgerTypeOK, NoTx
    <2> QED
      BY <1>1, <2>1, <2>2, <2>3, OutcomeCovers
  <1>4. CASE CommitSettle(w) /\ GoTo(w, "settled")
    <2>1. /\ run'[w].at = "settled" /\ run'[w].job = run[w].job /\ run'[w].claim = run[w].claim
          /\ \A v \in Workers : v # w => run'[v] = run[v]
      BY <1>1, <1>4, RunMoves
    <2> QED
      BY <1>1, <1>4, <2>1, CommitCovers
  <1> QED
    BY <1>2, <1>3, <1>4 DEF SettleStep

(* So does the sweep, whose sessions are no worker's.                      *)
LEMMA SweepReservationCovers ==
  ASSUME TypeOK, LedgerInv, Covered, NEW s \in Sweepers, SweepReservation(s), timing' = timing
  PROVE  Covered'
  <1>1. s \in Sessions /\ s \notin Workers /\ jobs' = jobs /\ calls' = calls /\ run' = run
    BY DEF Sweepers, SweepReservation
  <1>2. ASSUME NEW k \in Keys, SelectAbandoned(s, k)
        PROVE  Covered'
    <2>1. BeginSettle(s, k, "expired_spent", Estimate[k[1]])
      BY <1>2 DEF SelectAbandoned
    <2> QED
      BY <1>1, <2>1, BeginSettleCovers DEF Settled
  <1>3. CASE LockForSettle(s)
    BY <1>1, <1>3, LockCovers DEF LockForSettle, ledger
  <1>4. CASE SettleLost(s) \/ RollBack(s)
    <2>1. UNCHANGED <<rows, now, timing, jobs, calls>>
      BY <1>1, <1>4 DEF SettleLost, RollBack, ledger
    <2>2. tx'[s].op = "none" /\ \A q \in Sessions : q # s => tx'[q] = tx[q]
      BY <1>1, <1>4 DEF SettleLost, RollBack, End, TypeOK, LedgerTypeOK, NoTx
    <2>3. TxCovered(s)'
      BY <2>2 DEF TxCovered
    <2> QED
      BY <1>1, <2>1, <2>2, <2>3, OneMoves
  <1>5. CASE CommitSettle(s)
    BY <1>1, <1>5, CommitCovers
  <1> QED
    BY <1>2, <1>3, <1>4, <1>5 DEF SweepReservation

(* A reservation commits, in time for the lease of its job to cover it.    *)
LEMMA InsertCovers ==
  ASSUME TypeOK, LedgerInv, Covered, LeasesNest, NEW w \in Workers,
         InsertReservation(w), run[w].at = "reserving", HasReceipt(w, tx[w].key),
         UNCHANGED <<timing, jobs, calls>>
  PROVE  Covered'
  <1> DEFINE j == run[w].job
             k == First(j)
             lapse == tx[w].row.expires
  <1>1. /\ w \in Sessions /\ tx[w].op = "reserve" /\ tx[w].row.state = "reserved" /\ tx[w].row \in Row
        /\ j \in Jobs /\ k \in Keys /\ k[1] = j /\ k[2] = 1 /\ run[w].time \in Nat /\ lapse \in Nat
        /\ now \in Nat /\ Lease \in Nat /\ timing.patience \in Nat /\ timing.jobLease \in Nat
        /\ jobs[j].expires \in Nat
    <2>1. w \in Sessions /\ tx[w].op = "reserve"
      BY PaidAssumption DEF InsertReservation
    <2>2. tx[w].row \in Row /\ tx[w].row.state = "reserved"
      BY <2>1, TxTyped DEF LedgerInv, ReserveStands
    <2> QED
      BY <2>1, <2>2, CoverTyped DEF Row
  <1>2. tx[w].key = k /\ lapse <= run[w].time + timing.patience + Lease /\ lapse <= now + Lease
    BY <1>1 DEF Covered, TxCovered
  <1>3. rows[k].state = "absent"
    BY <1>1, <1>2 DEF InsertReservation
  <1>4. /\ rows'[k] = tx[w].row /\ \A x \in Keys : x # k => rows'[x] = rows[x]
    BY <1>1, <1>2 DEF InsertReservation, TypeOK, LedgerTypeOK
  <1>5. /\ now' = now /\ timing' = timing /\ jobs' = jobs /\ calls' = calls
        /\ tx'[w].op = "none" /\ \A q \in Sessions : q # w => tx'[q] = tx[q]
    BY <1>1 DEF InsertReservation, End, TypeOK, LedgerTypeOK, NoTx
  <1>6. /\ run'[w].at = "receipt" /\ run'[w].job = j /\ run'[w].key = k
        /\ run'[w].claim = run[w].claim
        /\ \A v \in Workers : v # w => run'[v] = run[v]
    BY <1>1, <1>2, RunMoves
  <1>7. ~Ended(j)
    BY <1>3 DEF Ended
  <1>8. \A i \in Jobs : i # j => rows'[First(i)] = rows[First(i)]
    BY <1>4, CoverTyped DEF First
  <1>9. \/ jobs[j].state = "closed"
        \/ jobs[j].state = "running" /\ jobs[j].expires >= run[w].time + timing.jobLease
        \/ jobs[j].state # "running" /\ LastFailed(j)
    BY <1>7 DEF Covered, RunCovered, Preparing
  <1> HIDE DEF k, lapse
  <1>10. ASSUME NEW x \in Keys PROVE KeyCovered(x)'
    <2>1. KeyCovered(x)
      BY DEF Covered
    <2>2. CASE x = k
      BY <1>1, <1>2, <1>3, <1>4, <1>5, <2>1, <2>2 DEF KeyCovered, lapse
    <2>3. CASE x # k
      BY <1>4, <1>5, <2>1, <2>3 DEF KeyCovered
    <2> QED
      BY <2>2, <2>3
  <1>11. ASSUME NEW q \in Sessions PROVE TxCovered(q)'
    <2>1. CASE q = w
      BY <1>5, <2>1 DEF TxCovered
    <2>2. CASE q # w
      <3>1. TxCovered(q) /\ tx'[q] = tx[q] /\ (q \in Workers => run'[q] = run[q])
        BY <1>5, <1>6, <2>2 DEF Covered
      <3> QED
        BY <1>5, <3>1 DEF TxCovered
    <2> QED
      BY <2>1, <2>2
  <1>12. ASSUME NEW v \in Workers PROVE RunCovered(v)'
    <2>1. RunCovered(v) /\ (run[v].at # "idle" => run[v].job \in Jobs)
      BY CoverTyped DEF Covered
    <2>2. CASE v = w
      BY <1>1, <1>3, <1>4, <1>5, <1>6, <2>1, <2>2 DEF RunCovered, Preparing, Paying, k
    <2>3. CASE v # w /\ run[v].at = "idle"
      BY <1>6, <2>3 DEF RunCovered, Preparing, Paying
    <2>4. CASE v # w /\ run[v].at # "idle" /\ run[v].job = j
      <3>1. run'[v] = run[v] /\ rows'[First(j)].state = "reserved" /\ rows[First(j)].state = "absent"
        BY <1>1, <1>3, <1>4, <1>6, <2>4 DEF k
      <3>2. Preparing(v) =>
              /\ run[v].time <= now /\ now <= run[v].time + timing.patience
              /\ \/ jobs[j].state = "closed"
                 \/ jobs[j].state = "running" /\ jobs[j].expires >= run[v].time + timing.jobLease
                 \/ jobs[j].state # "running" /\ jobs[j].runs \in jobs[j].failed
        BY <1>7, <2>1, <2>4 DEF RunCovered, LastFailed
      <3> QED
        BY <1>5, <2>1, <2>4, <3>1, <3>2 DEF RunCovered, Preparing, Paying, LastFailed, First
    <2>5. CASE v # w /\ run[v].at # "idle" /\ run[v].job # j
      <3>1. rows'[First(run[v].job)] = rows[First(run[v].job)] /\ run'[v] = run[v]
        BY <1>6, <1>8, <2>1, <2>5
      <3> QED
        BY <1>5, <2>1, <3>1 DEF RunCovered, Preparing, Paying, Ended, LastFailed, First
    <2> QED
      BY <2>2, <2>3, <2>4, <2>5
  <1>14. ASSUME NEW i \in Jobs PROVE JobCovered(i)'
    <2>0. JobCovered(i) /\ (LastFailed(i)' <=> LastFailed(i))
      BY <1>5 DEF Covered, LastFailed
    <2>1. CASE i = j
      <3>1. jobs[j].state = "running" => lapse <= jobs[j].expires
        BY <1>1, <1>2, <1>9 DEF LeasesNest
      <3>2. jobs[j].state \in {"ready", "failed_provider", "timed_out"} => LastFailed(j)
        BY <1>9
      <3>3. rows'[First(i)].expires = lapse /\ First(i)' = First(i)
        BY <1>4, <2>1 DEF k, lapse, First
      <3> QED
        BY <1>5, <2>0, <2>1, <3>1, <3>2, <3>3 DEF JobCovered
    <2>2. CASE i # j
      <3>1. rows'[First(i)] = rows[First(i)]
        BY <1>8, <2>2
      <3> QED
        BY <1>5, <2>0, <3>1 DEF JobCovered, First
    <2> QED
      BY <2>1, <2>2
  <1> QED
    BY <1>10, <1>11, <1>12, <1>14 DEF Covered

(* reserve() goes on.                                                      *)
LEMMA ReserveStepCovers ==
  ASSUME TypeOK, LedgerInv, Covered, LeasesNest, NEW w \in Workers, ReserveStep(w), timing' = timing
  PROVE  Covered'
  <1>1. /\ run[w].at = "reserving" /\ w \in Sessions /\ jobs' = jobs /\ calls' = calls
        /\ "settled" \in Places /\ "closed" \in Outcome
    BY PaidAssumption DEF ReserveStep, At, Places, Outcome
  <1>2. CASE Debit(w) /\ UNCHANGED run
    BY <1>1, <1>2, LockCovers DEF Debit, ledger
  <1>3. CASE (DebitRefused(w) \/ WorkKeyCollision(w)) /\ Over(w, "settled", "closed")
    <2>1. /\ run'[w].at = "settled" /\ run'[w].job = run[w].job /\ run'[w].claim = run[w].claim
          /\ \A v \in Workers : v # w => run'[v] = run[v]
      BY <1>1, <1>3, RunMoves
    <2>2. UNCHANGED <<rows, now, timing, jobs, calls>>
      BY <1>1, <1>3 DEF DebitRefused, WorkKeyCollision, ledger
    <2>3. tx'[w].op = "none" /\ \A q \in Sessions : q # w => tx'[q] = tx[q]
      BY <1>1, <1>3 DEF DebitRefused, WorkKeyCollision, End, TypeOK, LedgerTypeOK, NoTx
    <2> QED
      BY <1>1, <2>1, <2>2, <2>3, OutcomeCovers
  <1>4. CASE InsertReservation(w) /\ HasReceipt(w, tx[w].key)
    BY <1>1, <1>4, InsertCovers
  <1> QED
    BY <1>2, <1>3, <1>4 DEF ReserveStep

(* Where neither the rows nor the transactions of the ledger change, what  *)
(* is covered is a matter of the jobs, the calls and the workers.          *)
LEMMA LedgerStays ==
  ASSUME TypeOK, Covered, UNCHANGED <<rows, tx, now, timing>>,
         \A k \in Keys : /\ \A n \in calls'[k] : n <= jobs'[k[1]].runs
                         /\ rows[k].state = "absent" => calls'[k] = {},
         \A w \in Workers : tx[w].op # "none" => run'[w] = run[w],
         \A w \in Workers : RunCovered(w)',
         \A j \in Jobs : JobCovered(j)'
  PROVE  Covered'
  <1>1. ASSUME NEW k \in Keys PROVE KeyCovered(k)'
    BY DEF Covered, KeyCovered
  <1>2. ASSUME NEW s \in Sessions PROVE TxCovered(s)'
    BY NoTxElsewhere DEF Covered, TxCovered
  <1> QED
    BY <1>1, <1>2 DEF Covered

(* An event renews the lease of a running job.                             *)
LEMMA EmitCovers ==
  ASSUME TypeOK, LedgerInv, Covered, LeasesNest, NEW w \in Workers, Emit(w), timing' = timing
  PROVE  Covered'
  <1> DEFINE j == run[w].job
  <1>1. /\ run[w].at = "receipt" /\ j \in Jobs /\ First(j) \in Keys /\ "announced" \in Places
        /\ now \in Nat /\ Lease \in Nat /\ timing.patience \in Nat /\ timing.jobLease \in Nat
    BY CoverTyped DEF Emit, At, Places
  <1>2. UNCHANGED <<rows, tx, now, timing, calls>>
    BY DEF Emit, ledger
  <1>3. /\ run'[w].at = "announced" /\ run'[w].job = j /\ run'[w].key = run[w].key
        /\ run'[w].claim = run[w].claim
        /\ \A v \in Workers : v # w => run'[v] = run[v]
    BY <1>1, RunMoves DEF Emit
  <1>4. \A i \in Jobs :
          /\ jobs'[i].state = jobs[i].state /\ jobs'[i].runs = jobs[i].runs
          /\ jobs'[i].failed = jobs[i].failed
          /\ \/ jobs'[i] = jobs[i]
             \/ jobs[i].state = "running" /\ jobs'[i].expires = now + timing.jobLease
    <2>1. jobs \in [Jobs -> Job]
      BY DEF TypeOK
    <2>2. CASE jobs' = jobs
      BY <2>2
    <2>3. CASE jobs[j].state = "running" /\ jobs' = [jobs EXCEPT ![j].expires = now + timing.jobLease]
      BY <1>1, <2>1, <2>3 DEF Job
    <2> QED
      BY <2>2, <2>3 DEF Emit
  <1>5. tx[w].op = "none"
    BY <1>1, NoTxElsewhere
  <1>6. \A k \in Keys : /\ \A n \in calls'[k] : n <= jobs'[k[1]].runs
                        /\ rows[k].state = "absent" => calls'[k] = {}
    BY <1>2, <1>4, CoverTyped DEF Covered, KeyCovered
  <1>7. \A i \in Jobs : LastFailed(i)' <=> LastFailed(i)
    BY <1>4 DEF LastFailed
  <1>8. ASSUME NEW v \in Workers PROVE RunCovered(v)'
    <2>1. RunCovered(v) /\ (run[v].at # "idle" => run[v].job \in Jobs /\ run[v].time \in Nat)
      BY CoverTyped DEF Covered
    <2>2. CASE v = w
      <3>1. run[w].key = First(j) /\ rows[First(j)].state # "absent" /\ run[w].claim <= jobs[j].runs
        BY <1>1, <2>1, <2>2 DEF RunCovered, Paying
      <3> QED
        BY <1>1, <1>2, <1>3, <1>4, <2>2, <3>1 DEF RunCovered, Preparing, Paying, First
    <2>3. CASE v # w /\ run[v].at = "idle"
      BY <1>3, <2>3 DEF RunCovered, Preparing, Paying
    <2>4. CASE v # w /\ run[v].at # "idle"
      <3>1. run'[v] = run[v] /\ run[v].job \in Jobs /\ run[v].time \in Nat
        BY <1>3, <2>1, <2>4
      <3> DEFINE i == run[v].job
      <3>2. /\ jobs'[i].state = jobs[i].state /\ jobs'[i].runs = jobs[i].runs
            /\ jobs'[i].failed = jobs[i].failed
            /\ \/ jobs'[i] = jobs[i]
               \/ jobs[i].state = "running" /\ jobs'[i].expires = now + timing.jobLease
        BY <1>4, <3>1
      <3>3. ASSUME Preparing(v)
            PROVE  /\ run[v].time <= now /\ now <= run[v].time + timing.patience
                   /\ \/ Ended(i)
                      \/ jobs'[i].state = "closed"
                      \/ jobs'[i].state = "running" /\ jobs'[i].expires >= run[v].time + timing.jobLease
                      \/ jobs'[i].state # "running" /\ jobs'[i].runs \in jobs'[i].failed
        BY <1>1, <2>1, <3>1, <3>2, <3>3 DEF RunCovered, LastFailed
      <3>4. run[v].claim <= jobs'[i].runs
        BY <2>1, <2>4, <3>2 DEF RunCovered
      <3>5. Paying(v) => run[v].key = First(i) /\ rows[First(i)].state # "absent"
        BY <2>1 DEF RunCovered
      <3> QED
        BY <1>2, <3>1, <3>3, <3>4, <3>5 DEF RunCovered, Preparing, Paying, Ended, LastFailed, First
    <2> QED
      BY <2>2, <2>3, <2>4
  <1>9. ASSUME NEW i \in Jobs PROVE JobCovered(i)'
    <2>1. JobCovered(i) /\ First(i) \in Keys
      BY CoverTyped DEF Covered
    <2>2. rows[First(i)].state = "reserved" =>
            rows[First(i)].expires <= now + Lease /\ rows[First(i)].expires \in Nat
      BY <2>1, CoverTyped DEF Covered, KeyCovered
    <2>3. timing.jobLease >= Lease
      BY <1>1 DEF LeasesNest
    <2>4. /\ jobs'[i].state = jobs[i].state /\ jobs'[i].runs = jobs[i].runs
          /\ jobs'[i].failed = jobs[i].failed
          /\ jobs'[i] = jobs[i] \/ jobs'[i].expires = now + timing.jobLease
      BY <1>4
    <2>5. LastFailed(i)' <=> LastFailed(i)
      BY <1>7
    <2> QED
      BY <1>1, <1>2, <2>1, <2>2, <2>3, <2>4, <2>5 DEF JobCovered, First
  <1>10. \A v \in Workers : tx[v].op # "none" => run'[v] = run[v]
    BY <1>3, <1>5
  <1> QED
    BY <1>2, <1>6, <1>8, <1>9, <1>10, LedgerStays

(* A paid call is made, under a reservation that is there.                 *)
LEMMA DispatchCovers ==
  ASSUME TypeOK, Covered, NEW w \in Workers, Dispatch(w), timing' = timing
  PROVE  Covered'
  <1> DEFINE j == run[w].job
             k == First(j)
  <1>1. run[w].at = "announced" /\ j \in Jobs /\ k \in Keys /\ k[1] = j /\ "calling" \in Places
    BY CoverTyped DEF Dispatch, At, Places
  <1>2. /\ run[w].key = k /\ rows[k].state # "absent" /\ run[w].claim <= jobs[j].runs
    BY <1>1 DEF Covered, RunCovered, Paying
  <1>3. UNCHANGED <<rows, tx, now, timing, jobs>>
    BY DEF Dispatch, ledger
  <1>4. /\ run'[w].at = "calling" /\ run'[w].job = j /\ run'[w].key = k
        /\ run'[w].claim = run[w].claim
        /\ \A v \in Workers : v # w => run'[v] = run[v]
    BY <1>1, <1>2, RunMoves DEF Dispatch
  <1>5. calls'[k] = calls[k] \union {run[w].claim} /\ \A x \in Keys : x # k => calls'[x] = calls[x]
    BY <1>1, <1>2 DEF Dispatch, TypeOK
  <1> HIDE DEF k
  <1>6. \A x \in Keys : /\ \A n \in calls'[x] : n <= jobs'[x[1]].runs
                        /\ rows[x].state = "absent" => calls'[x] = {}
    BY <1>1, <1>2, <1>3, <1>5 DEF Covered, KeyCovered
  <1>7. tx[w].op = "none"
    BY <1>1, NoTxElsewhere
  <1>8. ASSUME NEW v \in Workers PROVE RunCovered(v)'
    <2>1. RunCovered(v)
      BY DEF Covered
    <2>2. CASE v = w
      BY <1>2, <1>3, <1>4, <2>2 DEF RunCovered, Preparing, Paying, First, k
    <2>3. CASE v # w
      <3>1. run'[v] = run[v]
        BY <1>4, <2>3
      <3> QED
        BY <1>3, <2>1, <3>1 DEF RunCovered, Preparing, Paying, Ended, LastFailed, First
    <2> QED
      BY <2>2, <2>3
  <1>9. ASSUME NEW i \in Jobs PROVE JobCovered(i)'
    BY <1>3 DEF Covered, JobCovered, LastFailed, First
  <1>10. \A v \in Workers : tx[v].op # "none" => run'[v] = run[v]
    BY <1>4, <1>7
  <1> QED
    BY <1>3, <1>6, <1>8, <1>9, <1>10, LedgerStays

(* A job is claimed: whoever else prepares for it finds it running for     *)
(* longer than before.                                                     *)
LEMMA ClaimCovers ==
  ASSUME TypeOK, LedgerInv, Covered, LeasesNest, NEW w \in Workers, NEW j \in Jobs, Claim(w, j),
         timing' = timing
  PROVE  Covered'
  <1>1. /\ run[w].at = "idle" /\ jobs[j].state = "ready" /\ jobs[j].runs \in Nat
        /\ now \in Nat /\ Lease \in Nat /\ timing.patience \in Nat /\ timing.jobLease \in Nat
    BY CoverTyped DEF Claim, At
  <1>2. UNCHANGED <<rows, tx, now, timing, calls>>
    BY DEF Claim, ledger
  <1>3. /\ run'[w].at = "claimed" /\ run'[w].job = j /\ run'[w].time = now
        /\ run'[w].claim = jobs[j].runs + 1
        /\ \A v \in Workers : v # w => run'[v] = run[v]
    BY DEF Claim, TypeOK
  <1>4. /\ jobs'[j].state = "running" /\ jobs'[j].expires = now + timing.jobLease
        /\ jobs'[j].runs = jobs[j].runs + 1 /\ jobs'[j].failed = jobs[j].failed
        /\ \A i \in Jobs : i # j => jobs'[i] = jobs[i]
    BY DEF Claim, TypeOK, Job
  <1>5. tx[w].op = "none"
    BY <1>1, NoTxElsewhere
  <1>6. \A x \in Keys : /\ \A n \in calls'[x] : n <= jobs'[x[1]].runs
                        /\ rows[x].state = "absent" => calls'[x] = {}
    <2> SUFFICES ASSUME NEW x \in Keys, NEW n \in calls[x] PROVE n <= jobs'[x[1]].runs
      BY <1>2 DEF Covered, KeyCovered
    <2>1. n <= jobs[x[1]].runs /\ n \in Nat /\ x[1] \in Jobs /\ jobs[x[1]].runs \in Nat
      BY CoverTyped DEF Covered, KeyCovered
    <2>2. x[1] # j => jobs'[x[1]] = jobs[x[1]]
      BY <1>4, <2>1
    <2> QED
      BY <1>4, <2>1, <2>2
  <1>7. ASSUME NEW v \in Workers PROVE RunCovered(v)'
    <2>1. CASE v = w
      BY <1>1, <1>2, <1>3, <1>4, <2>1 DEF RunCovered, Preparing, Paying, First
    <2>2. CASE v # w /\ run[v].at = "idle"
      BY <1>3, <2>2 DEF RunCovered, Preparing, Paying
    <2>3. CASE v # w /\ run[v].at # "idle" /\ run[v].job # j
      <3>1. run'[v] = run[v] /\ RunCovered(v) /\ jobs'[run[v].job] = jobs[run[v].job]
        BY <1>3, <1>4, <2>3, CoverTyped DEF Covered
      <3> QED
        BY <1>2, <3>1 DEF RunCovered, Preparing, Paying, Ended, LastFailed, First
    <2>4. CASE v # w /\ run[v].at # "idle" /\ run[v].job = j
      <3>1. run'[v] = run[v] /\ RunCovered(v) /\ run[v].time \in Nat /\ run[v].claim \in Nat
        BY <1>3, <2>4, CoverTyped DEF Covered
      <3>2. run[v].claim <= jobs'[j].runs
        BY <1>1, <1>4, <2>4, <3>1 DEF RunCovered
      <3>3. Preparing(v) =>
              /\ run[v].time <= now /\ now <= run[v].time + timing.patience
              /\ jobs'[j].state = "running" /\ jobs'[j].expires >= run[v].time + timing.jobLease
        BY <1>1, <1>4, <3>1 DEF RunCovered
      <3>4. Paying(v) => run[v].key = First(j) /\ rows[First(j)].state # "absent"
        BY <2>4, <3>1 DEF RunCovered
      <3> QED
        BY <1>2, <2>4, <3>1, <3>2, <3>3, <3>4 DEF RunCovered, Preparing, Paying, First
    <2> QED
      BY <2>1, <2>2, <2>3, <2>4
  <1>8. ASSUME NEW i \in Jobs PROVE JobCovered(i)'
    <2>1. JobCovered(i) /\ rows[First(i)].expires \in Nat /\ First(i) \in Keys
      BY CoverTyped DEF Covered
    <2>2. CASE i = j
      <3>1. rows[First(i)].state = "reserved" => rows[First(i)].expires <= now + timing.jobLease
        <4>1. rows[First(i)].state = "reserved" => rows[First(i)].expires <= now + Lease
          BY <2>1 DEF Covered, KeyCovered
        <4> QED
          BY <1>1, <2>1, <4>1 DEF LeasesNest
      <3>2. \A f \in jobs[j].failed : f \in Nat /\ f <= jobs[j].runs
        BY <2>1, <2>2, CoverTyped DEF JobCovered
      <3>3. \A f \in jobs[j].failed : f <= jobs[j].runs + 1
        BY <1>1, <3>2
      <3> QED
        BY <1>2, <1>4, <2>2, <3>1, <3>3 DEF JobCovered, First
    <2>3. CASE i # j
      BY <1>2, <1>4, <2>1, <2>3 DEF JobCovered, LastFailed, First
    <2> QED
      BY <2>2, <2>3
  <1>9. \A v \in Workers : tx[v].op # "none" => run'[v] = run[v]
    BY <1>3, <1>5
  <1> QED
    BY <1>2, <1>6, <1>7, <1>8, <1>9, LedgerStays

(* The rest of what happens to a job: it ends, or the failure of its last  *)
(* claim is recorded, or whoever prepares for it has ended with it.        *)
LEMMA JobMoves ==
  ASSUME TypeOK, Covered, UNCHANGED <<rows, tx, now, timing, calls>>,
         NEW j \in Jobs, \A i \in Jobs : i # j => jobs'[i] = jobs[i],
         \A v \in Workers : run'[v] = run[v] \/ (run'[v].at = "idle" /\ tx[v].op = "none"),
         jobs'[j].runs = jobs[j].runs,
         \A f \in jobs'[j].failed : f <= jobs[j].runs,
         \/ jobs'[j].state = "closed"
         \/ /\ jobs'[j].state \in {"ready", "failed_provider"}
            /\ jobs[j].runs \in jobs'[j].failed
         \/ /\ \A v \in Workers : Preparing(v) /\ run[v].job = j => Ended(j)
            /\ jobs'[j].state \in {"ready", "timed_out"}
            /\ rows[First(j)].state = "reserved" => rows[First(j)].expires < now
  PROVE  Covered'
  <1>1. \A x \in Keys : /\ \A n \in calls'[x] : n <= jobs'[x[1]].runs
                        /\ rows[x].state = "absent" => calls'[x] = {}
    BY CoverTyped DEF Covered, KeyCovered
  <1>2. ASSUME NEW v \in Workers PROVE RunCovered(v)'
    <2>1. CASE run'[v].at = "idle"
      BY <2>1 DEF RunCovered, Preparing, Paying
    <2>2. CASE run'[v] = run[v] /\ run[v].at # "idle"
      <3> DEFINE i == run[v].job
      <3>1. RunCovered(v) /\ i \in Jobs
        BY <2>2, CoverTyped DEF Covered
      <3>2. jobs'[i].runs = jobs[i].runs
        BY <3>1
      <3>3. Preparing(v) =>
              \/ jobs'[i] = jobs[i]
              \/ jobs'[i].state = "closed"
              \/ jobs'[i].state # "running" /\ jobs'[i].runs \in jobs'[i].failed
              \/ Ended(i)
        BY <3>1
      <3>4. Preparing(v) =>
              /\ run[v].time <= now /\ now <= run[v].time + timing.patience
              /\ \/ Ended(i)
                 \/ jobs'[i].state = "closed"
                 \/ jobs'[i].state = "running" /\ jobs'[i].expires >= run[v].time + timing.jobLease
                 \/ jobs'[i].state # "running" /\ jobs'[i].runs \in jobs'[i].failed
        BY <3>1, <3>3 DEF RunCovered, LastFailed
      <3>5. run[v].claim <= jobs'[i].runs
        BY <2>2, <3>1, <3>2 DEF RunCovered
      <3>6. Paying(v) => run[v].key = First(i) /\ rows[First(i)].state # "absent"
        BY <3>1 DEF RunCovered
      <3> QED
        BY <2>2, <3>4, <3>5, <3>6 DEF RunCovered, Preparing, Paying, Ended, LastFailed, First
    <2>3. CASE run'[v] = run[v] /\ run[v].at = "idle"
      BY <2>3 DEF RunCovered, Preparing, Paying
    <2> QED
      BY <2>1, <2>2, <2>3
  <1>3. ASSUME NEW i \in Jobs PROVE JobCovered(i)'
    <2>1. JobCovered(i)
      BY DEF Covered
    <2>2. CASE i = j
      BY <2>2 DEF JobCovered, LastFailed, First
    <2>3. CASE i # j
      BY <2>1, <2>3 DEF JobCovered, LastFailed, First
    <2> QED
      BY <2>2, <2>3
  <1>4. \A v \in Workers : tx[v].op # "none" => run'[v] = run[v]
    OBVIOUS
  <1> QED
    BY <1>1, <1>2, <1>3, <1>4, LedgerStays

(* An outcome is recorded, a failure with the claims it came after.        *)
LEMMA FinishCovers ==
  ASSUME TypeOK, Covered, NEW w \in Workers, Finish(w), timing' = timing
  PROVE  Covered'
  <1> DEFINE j == run[w].job
  <1>1. /\ run[w].at \in {"refused", "settled"} /\ j \in Jobs /\ jobs \in [Jobs -> Job]
        /\ run[w].outcome \in {"closed", "failed_provider"}
        /\ jobs[j].runs \in Nat
    BY CoverTyped DEF Finish, At, TypeOK, Outcome
  <1>2. UNCHANGED <<rows, tx, now, timing, calls>> /\ tx[w].op = "none"
    BY <1>1, NoTxElsewhere DEF Finish, ledger
  <1>3. run'[w].at = "idle" /\ \A v \in Workers : v # w => run'[v] = run[v]
    BY DEF Finish, Idle, TypeOK
  <1>4. \A f \in jobs[j].failed : f <= jobs[j].runs
    BY <1>1 DEF Covered, JobCovered
  <1>5. CASE jobs[j].state = "running"
    <2>1. /\ jobs'[j].state = run[w].outcome /\ jobs'[j].runs = jobs[j].runs
          /\ jobs'[j].failed = IF run[w].outcome = "failed_provider"
                               THEN jobs[j].failed \union {jobs[j].runs} ELSE jobs[j].failed
          /\ \A i \in Jobs : i # j => jobs'[i] = jobs[i]
      BY <1>1, <1>5 DEF Finish, Job
    <2>2. \A f \in jobs'[j].failed : f <= jobs[j].runs
      BY <1>1, <1>4, <2>1
    <2>3. \/ jobs'[j].state = "closed"
          \/ jobs'[j].state \in {"ready", "failed_provider"} /\ jobs[j].runs \in jobs'[j].failed
      BY <1>1, <2>1
    <2> QED
      BY <1>1, <1>2, <1>3, <2>1, <2>2, <2>3, JobMoves
  <1>6. CASE jobs[j].state # "running"
    <2>1. jobs' = jobs
      BY <1>6 DEF Finish
    <2>2. w \in Sessions /\ tx'[w].op = "none"
      BY <1>2, PaidAssumption
    <2> QED
      BY <1>2, <1>3, <2>1, <2>2, OutcomeCovers
  <1> QED
    BY <1>5, <1>6

(* A swept job's lease is over, and a worker that prepares has not waited  *)
(* that long.                                                              *)
LEMMA SweepJobCovers ==
  ASSUME TypeOK, Covered, LeasesNest, NEW j \in Jobs, SweepJob(j), timing' = timing
  PROVE  Covered'
  <1>1. /\ jobs[j].state = "running" /\ jobs[j].expires < now
        /\ now \in Nat /\ Lease \in Nat /\ timing.patience \in Nat /\ timing.jobLease \in Nat
        /\ jobs[j].expires \in Nat
    BY CoverTyped DEF SweepJob
  <1>2. UNCHANGED <<rows, tx, now, timing, calls, run>>
    BY DEF SweepJob, ledger
  <1>3. /\ jobs'[j].state = "timed_out" /\ jobs'[j].runs = jobs[j].runs
        /\ jobs'[j].failed = jobs[j].failed
        /\ \A i \in Jobs : i # j => jobs'[i] = jobs[i]
    BY DEF SweepJob, TypeOK, Job
  <1>4. ASSUME NEW v \in Workers, Preparing(v), run[v].job = j
        PROVE  Ended(j)
    <2>1. run[v].time \in Nat
      BY <1>4, CoverTyped DEF Preparing
    <2>2. \/ Ended(j)
          \/ /\ now <= run[v].time + timing.patience
             /\ jobs[j].expires >= run[v].time + timing.jobLease
      BY <1>1, <1>4 DEF Covered, RunCovered
    <2> QED
      BY <1>1, <2>1, <2>2 DEF LeasesNest
  <1>5. rows[First(j)].state = "reserved" => rows[First(j)].expires < now
    <2>1. rows[First(j)].expires \in Nat
      BY CoverTyped
    <2> QED
      BY <1>1, <2>1 DEF Covered, JobCovered
  <1>6. \A f \in jobs'[j].failed : f <= jobs[j].runs
    BY <1>3 DEF Covered, JobCovered
  <1> QED
    BY <1>2, <1>3, <1>4, <1>5, <1>6, JobMoves

(* A job that is re-driven has failed, or none is at work before a call.   *)
LEMMA RedriveCovers ==
  ASSUME TypeOK, Covered, NEW j \in Jobs, Redrive(j), timing' = timing
  PROVE  Covered'
  <1>1. jobs[j].state \in {"failed_provider", "timed_out"}
    BY DEF Redrive
  <1>2. UNCHANGED <<rows, tx, now, timing, calls, run>>
    BY DEF Redrive, ledger
  <1>3. /\ jobs'[j].state = "ready" /\ jobs'[j].runs = jobs[j].runs
        /\ jobs'[j].failed = jobs[j].failed
        /\ \A i \in Jobs : i # j => jobs'[i] = jobs[i]
    BY DEF Redrive, TypeOK, Job
  <1>4. \A f \in jobs'[j].failed : f <= jobs[j].runs
    BY <1>3 DEF Covered, JobCovered
  <1>5. CASE LastFailed(j)
    BY <1>2, <1>3, <1>4, <1>5, JobMoves DEF LastFailed
  <1>6. CASE ~LastFailed(j)
    <2>1. ASSUME NEW v \in Workers, Preparing(v), run[v].job = j
          PROVE  Ended(j)
      BY <1>1, <1>6, <2>1 DEF Covered, RunCovered
    <2>2. rows[First(j)].state = "reserved" => rows[First(j)].expires < now
      BY <1>1, <1>6 DEF Covered, JobCovered
    <2> QED
      BY <1>2, <1>3, <1>4, <2>1, <2>2, JobMoves
  <1> QED
    BY <1>5, <1>6

(* The clock does not pass a worker's patience.                            *)
LEMMA TickCovers ==
  ASSUME TypeOK, Covered, Tick, timing' = timing
  PROVE  Covered'
  <1>1. /\ now' = now + 1 /\ now \in Nat /\ Lease \in Nat /\ timing.patience \in Nat
        /\ UNCHANGED <<rows, tx, jobs, run, calls>>
    BY CoverTyped DEF Tick, ledger
  <1>2. ASSUME NEW k \in Keys PROVE KeyCovered(k)'
    BY <1>1, CoverTyped DEF Covered, KeyCovered
  <1>3. ASSUME NEW s \in Sessions PROVE TxCovered(s)'
    <2>1. tx[s].op = "reserve" => tx[s].row.expires \in Nat
      BY TxTyped DEF TypeOK, Row
    <2> QED
      BY <1>1, <2>1 DEF Covered, TxCovered
  <1>4. ASSUME NEW v \in Workers PROVE RunCovered(v)'
    <2>1. RunCovered(v)
      BY DEF Covered
    <2>2. Preparing(v) => run[v].time \in Nat /\ now < run[v].time + timing.patience
      BY CoverTyped DEF Preparing, Tick, At
    <2>3. Preparing(v) => run[v].time <= now + 1 /\ now + 1 <= run[v].time + timing.patience
      BY <1>1, <2>1, <2>2 DEF RunCovered
    <2> QED
      BY <1>1, <2>1, <2>3 DEF RunCovered, Preparing, Paying, Ended, LastFailed, First
  <1>5. ASSUME NEW j \in Jobs PROVE JobCovered(j)'
    <2>1. JobCovered(j) /\ rows[First(j)].expires \in Nat
      BY CoverTyped DEF Covered
    <2> QED
      BY <1>1, <2>1 DEF JobCovered, LastFailed, First
  <1> QED
    BY <1>2, <1>3, <1>4, <1>5 DEF Covered

(* Every step covers the calls, where the leases nest and no handler       *)
(* declines.                                                               *)
LEMMA CoversOn ==
  ASSUME TypeOK, LedgerInv, Covered, LeasesNest, timing.decliners = {}, [Next]_vars
  PROVE  Covered'
  <1>1. CASE Next
    <2>1. timing' = timing /\ Step
      BY <1>1 DEF Next
    <2>2. ASSUME NEW w \in Workers
          PROVE  /\ \A j \in Jobs : Claim(w, j) => Covered'
                 /\ Reserve(w) => Covered'
                 /\ Redelivered(w) => Covered'
                 /\ ReserveStep(w) => Covered'
                 /\ Emit(w) => Covered'
                 /\ Dispatch(w) => Covered'
                 /\ \A cost \in Costs : Reconcile(w, cost) => Covered'
                 /\ ExpireOnTimeout(w) => Covered'
                 /\ ~Release(w)
                 /\ SettleStep(w) => Covered'
                 /\ Finish(w) => Covered'
                 /\ Raise(w) \/ Crash(w) => Covered'
      <3>1. ~Release(w)
        BY DEF Release
      <3> QED
        BY <2>1, <3>1, ClaimCovers, ReserveCovers, RedeliveredCovers, ReserveStepCovers, EmitCovers,
           DispatchCovers, ReconcileCovers, ExpireCovers, SettleStepCovers, FinishCovers,
           RollBackCovers
    <2>3. \A j \in Jobs : SweepJob(j) \/ Redrive(j) => Covered'
      BY <2>1, SweepJobCovers, RedriveCovers
    <2>4. \A s \in Sweepers : SweepReservation(s) => Covered'
      BY <2>1, SweepReservationCovers
    <2>5. Tick => Covered'
      BY <2>1, TickCovers
    <2>6. Finished => Covered'
      <3>1. Finished => UNCHANGED <<rows, tx, now, timing, jobs, run, calls>>
        BY <2>1 DEF Finished, ledger
      <3> QED
        BY <3>1 DEF Covered, KeyCovered, TxCovered, RunCovered, JobCovered,
                    Preparing, Paying, Ended, LastFailed, First
    <2> QED
      BY <2>1, <2>2, <2>3, <2>4, <2>5, <2>6 DEF Step
  <1>2. CASE UNCHANGED vars
    BY <1>2 DEF vars, Covered, KeyCovered, TxCovered, RunCovered, JobCovered,
                Preparing, Paying, Ended, LastFailed, First
  <1> QED
    BY <1>1, <1>2

(* At first nothing is reserved and nobody is at work.                     *)
LEMMA CoverStarts ==
  ASSUME Init
  PROVE  Covered
  <1>1. \A k \in Keys : rows[k].state = "absent" /\ calls[k] = {}
    BY DEF Init, LedgerInit, Absent
  <1>2. \A j \in Jobs : First(j) \in Keys
    BY LedgerAssumption DEF First, Keys
  <1>3. /\ \A s \in Sessions : tx[s].op = "none"
        /\ \A w \in Workers : run[w].at = "idle"
        /\ \A j \in Jobs : jobs[j].failed = {}
    BY DEF Init, LedgerInit, NoTx, Idle
  <1> QED
    BY <1>1, <1>2, <1>3 DEF Covered, KeyCovered, TxCovered, RunCovered, JobCovered,
                            Preparing, Paying

-----------------------------------------------------------------------------
(* Who may still call *)

(* A worker has a receipt it has not used, or it will get one: its unit    *)
(* has no row yet, or one that is live at the time of its claim.           *)
MayCall(w) ==
  LET row == rows[First(run[w].job)]
  IN  \/ run[w].at \in {"receipt", "announced"}
      \/ Preparing(w) /\ row.state = "absent"
      \/ run[w].at = "claimed" /\ row.state = "reserved" /\ ~(row.expires < run[w].time)

(* The job failed between two of its claims, whichever came first. *)
Between(j, n, m) == \E f \in jobs[j].failed : n <= f /\ f < m
Apart(j, n, m)   == Between(j, n, m) \/ Between(j, m, n)

(* Those who may call and those who have called did so apart.              *)
Callers ==
  /\ \A w, v \in Workers :
       w # v /\ MayCall(w) /\ MayCall(v) /\ run[w].job = run[v].job =>
         Apart(run[w].job, run[w].claim, run[v].claim)
  /\ \A w \in Workers :
       MayCall(w) => \A n \in calls[First(run[w].job)] : Apart(run[w].job, n, run[w].claim)
  /\ \A k \in Keys : \A n, m \in calls[k] : n < m => Between(k[1], n, m)

(* A unit's row is as it was, or was not there, or has ended.              *)
LEMMA RowGoesOn ==
  ASSUME TypeOK, LedgerInv, TypeOK', [Next]_vars, NEW j \in Jobs
  PROVE  \/ rows'[First(j)] = rows[First(j)]
         \/ rows[First(j)].state = "absent"
         \/ rows'[First(j)].state \in Settled
  <1>1. First(j) \in Keys
    BY CoverTyped
  <1>2. CASE UNCHANGED <<rows, buckets>>
    BY <1>2
  <1>3. ASSUME NEW k \in Keys, \A x \in Keys : x # k => rows'[x] = rows[x], Opened(k) \/ Closed(k)
        PROVE  \/ rows'[First(j)] = rows[First(j)]
               \/ rows[First(j)].state = "absent"
               \/ rows'[First(j)].state \in Settled
    BY <1>1, <1>3 DEF Opened, Closed
  <1> QED
    BY <1>2, <1>3, LedgerSteps

(* A worker that stays where it is may call after a step only if it might  *)
(* before.                                                                 *)
LEMMA StillMayCall ==
  ASSUME TypeOK, LedgerInv, TypeOK', [Next]_vars, NEW w \in Workers, run'[w] = run[w], MayCall(w)'
  PROVE  MayCall(w)
  <1>1. CASE run[w].at \in {"receipt", "announced"}
    BY <1>1 DEF MayCall
  <1>2. CASE run[w].at \notin {"receipt", "announced"}
    <2>1. run[w].at \in {"claimed", "reserving"}
      BY <1>2 DEF MayCall, Preparing
    <2>2. run[w].job \in Jobs
      BY <2>1, CoverTyped
    <2> DEFINE k == First(run[w].job)
    <2>3. \/ rows'[k].state = "absent"
          \/ run[w].at = "claimed" /\ rows'[k].state = "reserved" /\ ~(rows'[k].expires < run[w].time)
      BY <1>2 DEF MayCall, First
    <2>4. \/ rows'[k] = rows[k]
          \/ rows[k].state = "absent"
          \/ rows'[k].state \in Settled
      BY <2>2, RowGoesOn
    <2>5. \/ rows[k].state = "absent"
          \/ run[w].at = "claimed" /\ rows[k].state = "reserved" /\ ~(rows[k].expires < run[w].time)
      BY <2>3, <2>4 DEF Settled
    <2> QED
      BY <2>1, <2>5 DEF MayCall, Preparing
  <1> QED
    BY <1>1, <1>2

(* A step of a worker that has claimed a job and does not decline.         *)
Works(w) ==
  \/ Reserve(w) \/ Redelivered(w) \/ ReserveStep(w)
  \/ Emit(w) \/ Dispatch(w)
  \/ \E cost \in Costs : Reconcile(w, cost)
  \/ ExpireOnTimeout(w) \/ SettleStep(w)
  \/ Finish(w) \/ Raise(w) \/ Crash(w)

(* So may one that moves, unless it has just claimed its job.              *)
LEMMA MovesToCall ==
  ASSUME TypeOK, LedgerInv, Covered, NEW w \in Workers, MayCall(w)', Works(w)
  PROVE  MayCall(w) /\ run'[w].job = run[w].job /\ run'[w].claim = run[w].claim
  <1> DEFINE j == run[w].job
             k == First(j)
  <1>1. /\ run[w].at # "idle" /\ j \in Jobs /\ k \in Keys /\ run[w].time \in Nat /\ now \in Nat
        /\ w \in Sessions
    <2>1. run[w].at # "idle"
      BY DEF Works, Reserve, Redelivered, ReserveStep, Emit, Dispatch, Reconcile, ExpireOnTimeout,
             SettleStep, Finish, Raise, Crash, At
    <2> QED
      BY <2>1, CoverTyped, PaidAssumption
  <1>2. run'[w].at \in {"claimed", "reserving", "receipt", "announced"}
    BY DEF MayCall, Preparing
  <1>3. CASE Reserve(w)
    <2>1. PICK t \in run[w].time .. now : Redelivery(j, t) = "open" /\ BeginReserve(w, j, t)
      BY <1>3 DEF Reserve
    <2>2. UNCHANGED rows /\ GoTo(w, "reserving") /\ run[w].at = "claimed"
      BY <1>3, <2>1 DEF Reserve, BeginReserve, ledger, At
    <2>3. run'[w].at = "reserving" /\ run'[w].job = j /\ run'[w].claim = run[w].claim
      BY <1>1, <2>2, RunMoves DEF Places
    <2>4. rows[k].state = "absent"
      BY <2>2, <2>3 DEF MayCall, First
    <2> QED
      BY <2>2, <2>3, <2>4 DEF MayCall, Preparing
  <1>4. CASE Redelivered(w)
    <2>1. ~Over(w, "settled", "closed")
      BY <1>1, <1>2, RunMoves DEF Places, Outcome
    <2>2. PICK t \in run[w].time .. now : Redelivery(j, t) = "live" /\ HasReceipt(w, Newest(j))
      BY <1>4, <2>1 DEF Redelivered
    <2>3. /\ rows[k].state = "reserved" /\ ~(rows[k].expires < t) /\ Newest(j) = k
          /\ rows[k].expires \in Nat
      BY <1>1, <2>2, FirstAnswers, CoverTyped
    <2>4. run'[w].job = j /\ run'[w].claim = run[w].claim
      BY <1>1, <2>2, <2>3, RunMoves
    <2>5. run[w].at = "claimed" /\ ~(rows[k].expires < run[w].time)
      BY <1>1, <1>4, <2>2, <2>3 DEF Redelivered, At
    <2> QED
      BY <2>3, <2>4, <2>5 DEF MayCall
  <1>5. CASE ReserveStep(w)
    <2>1. run[w].at = "reserving"
      BY <1>5 DEF ReserveStep, At
    <2>2. ~Over(w, "settled", "closed")
      BY <1>1, <1>2, RunMoves DEF Places, Outcome
    <2>3. CASE Debit(w) /\ UNCHANGED run
      <3>1. rows' = rows /\ run' = run
        BY <2>3 DEF Debit, ledger
      <3> QED
        BY <3>1 DEF MayCall, Preparing, First
    <2>4. CASE InsertReservation(w) /\ HasReceipt(w, tx[w].key)
      <3>1. tx[w].op = "reserve" /\ rows[tx[w].key].state = "absent"
        BY <2>4 DEF InsertReservation
      <3>2. tx[w].key = k
        BY <1>1, <3>1 DEF Covered, TxCovered
      <3>3. run'[w].job = j /\ run'[w].claim = run[w].claim
        BY <1>1, <2>4, <3>2, RunMoves
      <3> QED
        BY <2>1, <3>1, <3>2, <3>3 DEF MayCall, Preparing
    <2> QED
      BY <1>5, <2>2, <2>3, <2>4 DEF ReserveStep
  <1>6. CASE Emit(w)
    <2>1. run[w].at = "receipt" /\ GoTo(w, "announced") /\ "announced" \in Places
      BY <1>6 DEF Emit, At, Places
    <2>2. run'[w].job = j /\ run'[w].claim = run[w].claim
      BY <1>1, <2>1, RunMoves
    <2> QED
      BY <2>1, <2>2 DEF MayCall
  <1>7. ASSUME \/ Dispatch(w)
               \/ \E cost \in Costs : Reconcile(w, cost)
               \/ ExpireOnTimeout(w) \/ SettleStep(w)
               \/ Raise(w)
        PROVE  FALSE
    <2>1. \A place \in {"calling", "settling", "settled", "refused"} :
            /\ ~GoTo(w, place)
            /\ \A o \in Outcome : ~Over(w, place, o)
      BY <1>1, <1>2, RunMoves DEF Places
    <2>2. "failed_provider" \in Outcome
      BY DEF Outcome
    <2>3. SettleStep(w) /\ run' = run /\ run[w].at = "settling"
      BY <1>7, <2>1, <2>2 DEF Dispatch, Reconcile, ExpireOnTimeout, SettleStep, Raise, At
    <2> QED
      BY <1>2, <2>3
  <1>8. ASSUME Finish(w) \/ Crash(w)
        PROVE  FALSE
    <2>1. run'[w].at = "idle"
      BY <1>8 DEF Finish, Crash, Idle, TypeOK
    <2> QED
      BY <1>2, <2>1
  <1> QED
    BY <1>3, <1>4, <1>5, <1>6, <1>7, <1>8 DEF Works

(* A failure once recorded stays.                                          *)
LEMMA FailuresStay ==
  ASSUME TypeOK, Step, NEW i \in Jobs
  PROVE  jobs[i].failed \subseteq jobs'[i].failed
  <1>1. jobs \in [Jobs -> Job]
    BY DEF TypeOK
  <1>2. CASE jobs' = jobs
    BY <1>2
  <1>3. ASSUME NEW w \in Workers, NEW j \in Jobs, Claim(w, j)
        PROVE  jobs[i].failed \subseteq jobs'[i].failed
    BY <1>1, <1>3 DEF Claim, Job
  <1>4. ASSUME NEW w \in Workers, Finish(w)
        PROVE  jobs[i].failed \subseteq jobs'[i].failed
    BY <1>1, <1>4 DEF Finish, Job
  <1>5. ASSUME NEW w \in Workers, Emit(w)
        PROVE  jobs[i].failed \subseteq jobs'[i].failed
    BY <1>1, <1>5 DEF Emit, Job
  <1>6. ASSUME NEW j \in Jobs, SweepJob(j) \/ Redrive(j)
        PROVE  jobs[i].failed \subseteq jobs'[i].failed
    BY <1>1, <1>6 DEF SweepJob, Redrive, Job
  <1> QED
    BY <1>2, <1>3, <1>4, <1>5, <1>6
       DEF Step, Reserve, Redelivered, ReserveStep, Dispatch, Reconcile, ExpireOnTimeout, Release,
           SettleStep, Raise, Crash, SweepReservation, Tick, Finished

(* Who may call and who has called stay apart where nobody comes to a call *)
(* who could not before, and who calls could.                              *)
LEMMA CallersStay ==
  ASSUME TypeOK, Callers,
         \A i \in Jobs : jobs[i].failed \subseteq jobs'[i].failed,
         \A w \in Workers : MayCall(w)' =>
           MayCall(w) /\ run'[w].job = run[w].job /\ run'[w].claim = run[w].claim,
         \/ calls' = calls
         \/ \E u \in Workers :
              /\ MayCall(u) /\ ~MayCall(u)'
              /\ calls' = [calls EXCEPT ![First(run[u].job)] = @ \union {run[u].claim}]
  PROVE  Callers'
  <1>1. ASSUME NEW j \in Jobs, NEW n, NEW m, Between(j, n, m)
        PROVE  \E f \in jobs'[j].failed : n <= f /\ f < m
    BY <1>1 DEF Between
  <1>2. ASSUME NEW w \in Workers, MayCall(w)
        PROVE  run[w].job \in Jobs /\ run[w].claim \in Nat
    <2>1. run[w].at # "idle"
      BY <1>2 DEF MayCall, Preparing
    <2> QED
      BY <2>1, CoverTyped
  <1>3. ASSUME NEW w \in Workers, NEW v \in Workers, w # v, MayCall(w)', MayCall(v)',
               run'[w].job = run'[v].job
        PROVE  Apart(run[w].job, run[w].claim, run[v].claim)'
    <2>1. /\ run[w].job \in Jobs /\ run'[w].job = run[w].job
          /\ run'[w].claim = run[w].claim /\ run'[v].claim = run[v].claim
          /\ Apart(run[w].job, run[w].claim, run[v].claim)
      BY <1>2, <1>3 DEF Callers
    <2> QED
      BY <1>1, <2>1 DEF Apart, Between
  <1>4. ASSUME NEW w \in Workers, MayCall(w)', NEW n \in calls'[First(run'[w].job)]
        PROVE  Apart(run[w].job, n, run[w].claim)'
    <2>1. /\ MayCall(w) /\ run[w].job \in Jobs /\ run'[w].job = run[w].job
          /\ run'[w].claim = run[w].claim /\ First(run[w].job) \in Keys
      BY <1>2, <1>4, CoverTyped
    <2>2. Apart(run[w].job, n, run[w].claim)
      <3>1. CASE n \in calls[First(run[w].job)]
        BY <2>1, <3>1 DEF Callers
      <3>2. CASE n \notin calls[First(run[w].job)]
        <4>1. PICK u \in Workers :
                /\ MayCall(u) /\ ~MayCall(u)'
                /\ calls' = [calls EXCEPT ![First(run[u].job)] = @ \union {run[u].claim}]
          BY <1>4, <2>1, <3>2
        <4>2. First(run[u].job) = First(run[w].job) /\ n = run[u].claim
          BY <1>4, <2>1, <3>2, <4>1 DEF TypeOK
        <4>3. run[u].job = run[w].job /\ u # w
          BY <1>4, <4>1, <4>2 DEF First
        <4> QED
          BY <2>1, <4>1, <4>2, <4>3 DEF Callers
      <3> QED
        BY <3>1, <3>2
    <2> QED
      BY <1>1, <2>1, <2>2 DEF Apart, Between
  <1>5. ASSUME NEW k \in Keys, NEW n \in calls'[k], NEW m \in calls'[k], n < m
        PROVE  Between(k[1], n, m)'
    <2>1. k[1] \in Jobs /\ calls[k] \in SUBSET Nat
      BY CoverTyped
    <2>2. Between(k[1], n, m)
      <3>1. CASE n \in calls[k] /\ m \in calls[k]
        BY <1>5, <3>1 DEF Callers
      <3>2. CASE ~(n \in calls[k] /\ m \in calls[k])
        <4>1. PICK u \in Workers :
                /\ MayCall(u) /\ ~MayCall(u)'
                /\ calls' = [calls EXCEPT ![First(run[u].job)] = @ \union {run[u].claim}]
          BY <1>5, <3>2
        <4>2. run[u].job \in Jobs /\ run[u].claim \in Nat
          BY <1>2, <4>1
        <4>3. /\ k = First(run[u].job) /\ k[1] = run[u].job
              /\ n \in calls[k] \union {run[u].claim} /\ m \in calls[k] \union {run[u].claim}
          BY <1>5, <3>2, <4>1, <4>2 DEF TypeOK, First
        <4>4. CASE n = run[u].claim /\ m \in calls[k]
          <5>1. Apart(k[1], m, n)
            BY <4>1, <4>3, <4>4 DEF Callers
          <5> QED
            BY <1>5, <2>1, <4>2, <4>4, <5>1, CoverTyped DEF Apart, Between
        <4>5. CASE m = run[u].claim /\ n \in calls[k]
          <5>1. Apart(k[1], n, m)
            BY <4>1, <4>3, <4>5 DEF Callers
          <5> QED
            BY <1>5, <2>1, <4>2, <4>5, <5>1, CoverTyped DEF Apart, Between
        <4>6. ~(n = run[u].claim /\ m = run[u].claim)
          BY <1>5, <4>2
        <4> QED
          BY <3>2, <4>3, <4>4, <4>5, <4>6
      <3> QED
        BY <3>1, <3>2
    <2> QED
      BY <1>1, <2>1, <2>2 DEF Between
  <1> QED
    BY <1>3, <1>4, <1>5 DEF Callers

(* Who claims a job may call only if nobody may and nobody has, or the job *)
(* failed since they claimed it.                                           *)
LEMMA ClaimsApart ==
  ASSUME TypeOK, Covered, Callers, NEW w \in Workers, NEW j \in Jobs, Claim(w, j)
  PROVE  Callers'
  <1>1. /\ run[w].at = "idle" /\ jobs[j].state = "ready" /\ jobs[j].runs \in Nat /\ First(j) \in Keys
        /\ jobs[j].failed \in SUBSET Nat
    BY CoverTyped DEF Claim, At
  <1>2. rows' = rows /\ calls' = calls
    BY DEF Claim, ledger
  <1>3. /\ run'[w].at = "claimed" /\ run'[w].job = j /\ run'[w].time = now
        /\ run'[w].claim = jobs[j].runs + 1
        /\ \A v \in Workers : v # w => run'[v] = run[v]
    BY DEF Claim, TypeOK
  <1>4. \A i \in Jobs : jobs'[i].failed = jobs[i].failed
    BY DEF Claim, TypeOK, Job
  <1>5. ASSUME NEW v \in Workers, v # w, MayCall(v)'
        PROVE  MayCall(v) /\ run[v].job \in Jobs /\ run[v].claim \in Nat
    <2>1. MayCall(v)
      BY <1>2, <1>3, <1>5 DEF MayCall, Preparing, First
    <2>2. run[v].at # "idle"
      BY <2>1 DEF MayCall, Preparing
    <2> QED
      BY <2>1, <2>2, CoverTyped
  <1>6. MayCall(w)' => rows[First(j)].state = "absent" \/ LastFailed(j)
    <2>1. MayCall(w)' =>
            \/ rows[First(j)].state = "absent"
            \/ rows[First(j)].state = "reserved" /\ ~(rows[First(j)].expires < now)
      BY <1>2, <1>3 DEF MayCall, Preparing, First
    <2> QED
      BY <1>1, <2>1 DEF Covered, JobCovered
  <1>7. ASSUME MayCall(w)', NEW v \in Workers, v # w, MayCall(v), run[v].job = j
        PROVE  Between(j, run[v].claim, jobs[j].runs + 1)
    <2>1. run[v].at # "idle" /\ RunCovered(v)
      BY <1>7 DEF MayCall, Preparing, Covered
    <2>2. run[v].claim <= jobs[j].runs
      BY <1>7, <2>1 DEF RunCovered
    <2>3. LastFailed(j)
      <3>1. CASE rows[First(j)].state = "absent"
        <4>1. Preparing(v) /\ ~Ended(j)
          BY <1>7, <2>1, <3>1 DEF MayCall, Preparing, Paying, RunCovered, Ended
        <4> QED
          BY <1>1, <1>7, <2>1, <4>1 DEF RunCovered
      <3> QED
        BY <1>6, <1>7, <3>1
    <2>4. jobs[j].runs < jobs[j].runs + 1
      BY <1>1
    <2> QED
      BY <2>2, <2>3, <2>4 DEF Between, LastFailed
  <1>8. ASSUME MayCall(w)', NEW n \in calls[First(j)]
        PROVE  Between(j, n, jobs[j].runs + 1)
    <2>1. rows[First(j)].state # "absent" /\ n <= jobs[j].runs
      BY <1>1, <1>8, CoverTyped DEF Covered, KeyCovered
    <2>2. jobs[j].runs < jobs[j].runs + 1
      BY <1>1
    <2> QED
      BY <1>6, <1>8, <2>1, <2>2 DEF Between, LastFailed
  <1>9. ASSUME NEW u \in Workers, NEW v \in Workers, u # v, MayCall(u)', MayCall(v)',
               run'[u].job = run'[v].job
        PROVE  Apart(run[u].job, run[u].claim, run[v].claim)'
    <2>1. CASE u # w /\ v # w
      <3>1. /\ run'[u] = run[u] /\ run'[v] = run[v] /\ run[u].job \in Jobs
            /\ Apart(run[u].job, run[u].claim, run[v].claim)
        BY <1>3, <1>5, <1>9, <2>1 DEF Callers
      <3> QED
        BY <1>4, <3>1 DEF Apart, Between
    <2>2. CASE u = w
      <3>1. /\ run'[v] = run[v] /\ MayCall(v) /\ run[v].job = j
            /\ Between(j, run[v].claim, jobs[j].runs + 1)
        BY <1>3, <1>5, <1>7, <1>9, <2>2
      <3> QED
        BY <1>3, <1>4, <2>2, <3>1 DEF Apart, Between
    <2>3. CASE v = w
      <3>1. /\ run'[u] = run[u] /\ MayCall(u) /\ run[u].job = j
            /\ Between(j, run[u].claim, jobs[j].runs + 1)
        BY <1>3, <1>5, <1>7, <1>9, <2>3
      <3> QED
        BY <1>3, <1>4, <2>3, <3>1 DEF Apart, Between
    <2> QED
      BY <2>1, <2>2, <2>3
  <1>10. ASSUME NEW v \in Workers, MayCall(v)', NEW n \in calls'[First(run'[v].job)]
         PROVE  Apart(run[v].job, n, run[v].claim)'
    <2>1. CASE v = w
      <3>1. Between(j, n, jobs[j].runs + 1)
        BY <1>2, <1>3, <1>8, <1>10, <2>1
      <3> QED
        BY <1>3, <1>4, <2>1, <3>1 DEF Apart, Between
    <2>2. CASE v # w
      <3>1. run'[v] = run[v] /\ run[v].job \in Jobs /\ Apart(run[v].job, n, run[v].claim)
        BY <1>2, <1>3, <1>5, <1>10, <2>2 DEF Callers
      <3> QED
        BY <1>4, <3>1 DEF Apart, Between
    <2> QED
      BY <2>1, <2>2
  <1>11. ASSUME NEW k \in Keys, NEW n \in calls'[k], NEW m \in calls'[k], n < m
         PROVE  Between(k[1], n, m)'
    <2>1. k[1] \in Jobs /\ Between(k[1], n, m)
      BY <1>2, <1>11, CoverTyped DEF Callers
    <2> QED
      BY <1>4, <2>1 DEF Between
  <1> QED
    BY <1>9, <1>10, <1>11 DEF Callers

(* It leaves the others where they are.                                    *)
LEMMA OthersStay ==
  ASSUME TypeOK, NEW w \in Workers, Works(w), NEW v \in Workers, v # w
  PROVE  run'[v] = run[v]
  <1>1. run \in [Workers -> Run]
    BY DEF TypeOK
  <1>2. ASSUME \/ \E place : GoTo(w, place)
               \/ \E place, o : Over(w, place, o)
               \/ \E k : HasReceipt(w, k)
               \/ run' = [run EXCEPT ![w] = Idle]
               \/ run' = run
        PROVE  run'[v] = run[v]
    BY <1>1, <1>2 DEF GoTo, Over, HasReceipt
  <1> QED
    BY <1>2 DEF Works, Reserve, Redelivered, ReserveStep, Emit, Dispatch, Reconcile, ExpireOnTimeout,
                SettleStep, Finish, Raise, Crash

(* Every step keeps the callers apart, where no handler declines.          *)
LEMMA CallersOn ==
  ASSUME TypeOK, LedgerInv, Covered, Callers, TypeOK', timing.decliners = {}, [Next]_vars
  PROVE  Callers'
  <1>1. ASSUME NEW w \in Workers, NEW j \in Jobs, Claim(w, j)
        PROVE  Callers'
    BY <1>1, ClaimsApart
  <1>2. CASE Step /\ \E w \in Workers : Works(w)
    <2>1. PICK w \in Workers : Works(w)
      BY <1>2
    <2>2. ASSUME NEW v \in Workers, MayCall(v)'
          PROVE  MayCall(v) /\ run'[v].job = run[v].job /\ run'[v].claim = run[v].claim
      <3>1. CASE v = w
        BY <2>1, <2>2, <3>1, MovesToCall
      <3>2. CASE v # w
        <4>1. run'[v] = run[v]
          BY <2>1, <3>2, OthersStay
        <4> QED
          BY <2>2, <4>1, StillMayCall
      <3> QED
        BY <3>1, <3>2
    <2>3. \A i \in Jobs : jobs[i].failed \subseteq jobs'[i].failed
      BY <1>2, FailuresStay
    <2>4. CASE Dispatch(w)
      <3>1. /\ run[w].at = "announced" /\ GoTo(w, "calling") /\ "calling" \in Places
            /\ calls' = [calls EXCEPT ![run[w].key] = @ \union {run[w].claim}]
        BY <2>4 DEF Dispatch, At, Places
      <3>2. run'[w].at = "calling"
        BY <3>1, RunMoves
      <3>3. run[w].key = First(run[w].job)
        BY <3>1, PayingRow DEF Paying
      <3>4. MayCall(w) /\ ~MayCall(w)'
        BY <3>1, <3>2 DEF MayCall, Preparing
      <3> QED
        BY <2>2, <2>3, <3>1, <3>3, <3>4, CallersStay
    <2>5. CASE ~Dispatch(w)
      <3>1. calls' = calls
        BY <2>1, <2>5 DEF Works, Reserve, Redelivered, ReserveStep, Emit, Reconcile,
                          ExpireOnTimeout, SettleStep, Finish, Raise, Crash
      <3> QED
        BY <2>2, <2>3, <3>1, CallersStay
    <2> QED
      BY <2>4, <2>5
  <1>3. CASE Step /\ run' = run /\ calls' = calls
    <2>1. \A v \in Workers : run'[v] = run[v]
      BY <1>3
    <2>2. \A v \in Workers : MayCall(v)' =>
            MayCall(v) /\ run'[v].job = run[v].job /\ run'[v].claim = run[v].claim
      BY <2>1, StillMayCall
    <2>3. \A i \in Jobs : jobs[i].failed \subseteq jobs'[i].failed
      BY <1>3, FailuresStay
    <2> QED
      BY <1>3, <2>2, <2>3, CallersStay
  <1>4. CASE UNCHANGED vars
    BY <1>4 DEF vars, Callers, MayCall, Preparing, Apart, Between, First
  <1>5. \A w \in Workers : ~Release(w)
    BY DEF Release
  <1>6. ASSUME \/ \E j \in Jobs : SweepJob(j) \/ Redrive(j)
               \/ \E s \in Sweepers : SweepReservation(s)
               \/ Tick
               \/ Finished
        PROVE  run' = run /\ calls' = calls
    BY <1>6 DEF SweepJob, Redrive, SweepReservation, Tick, Finished
  <1> QED
    BY <1>1, <1>2, <1>3, <1>4, <1>5, <1>6 DEF Next, Step, Works

(* Where the lease of a job outlives the reservation taken under it and no *)
(* handler refuses before it dispatches, what the calls rest on holds      *)
(* however often a job fails, is swept, re-driven and claimed.             *)
THEOREM CoverInvariant ==
  Spec => [](LeasesNest /\ timing.decliners = {} => Covered /\ Callers)
  <1> DEFINE Sound == LeasesNest /\ timing.decliners = {}
             IInv  == Sound => Covered /\ Callers
  <1>1. Init => IInv
    <2> SUFFICES ASSUME Init PROVE Covered /\ Callers
      OBVIOUS
    <2>1. /\ \A k \in Keys : calls[k] = {}
          /\ \A w \in Workers : run[w].at = "idle"
      BY DEF Init, Idle
    <2> QED
      BY <2>1, CoverStarts DEF Callers, MayCall, Preparing
  <1>2. TypeOK /\ LedgerInv /\ TypeOK' /\ IInv /\ [Next]_vars => IInv'
    <2> SUFFICES ASSUME TypeOK, LedgerInv, TypeOK', IInv, [Next]_vars, Sound'
                 PROVE  (Covered /\ Callers)'
      OBVIOUS
    <2>1. timing' = timing
      BY DEF Next, vars
    <2>2. LeasesNest /\ timing.decliners = {}
      BY <2>1 DEF LeasesNest
    <2>3. Covered'
      BY <2>2, CoversOn
    <2>4. Callers'
      BY <2>2, CallersOn
    <2> QED
      BY <2>3, <2>4
  <1> QED
    BY <1>1, <1>2, LedgerInvariant, PTL DEF Spec

(* So of two calls of a unit the job failed between the claims they were   *)
(* made for, and no reservation that was called under is handed back.      *)
THEOREM CallsFollowFailures == Spec => []CalledAgainOnlyAfterFailure
  <1>1. TypeOK /\ (LeasesNest /\ timing.decliners = {} => Covered /\ Callers)
          => CalledAgainOnlyAfterFailure
    <2> SUFFICES ASSUME TypeOK, Covered, Callers
                 PROVE  /\ \A k, q \in Keys : k[1] = q[1] =>
                             \A n \in calls[k], m \in calls[q] :
                               n < m => \E f \in jobs[k[1]].failed : n <= f /\ f < m
                        /\ \A k \in Keys : calls[k] # {} => rows[k].state \notin {"absent", "released"}
      BY DEF CalledAgainOnlyAfterFailure
    <2>1. ASSUME NEW k \in Keys, calls[k] # {}
          PROVE  rows[k].state \notin {"absent", "released"} /\ k = First(k[1])
      <3>1. KeyCovered(k)
        BY DEF Covered
      <3>2. rows[k].state \notin {"absent", "released"}
        BY <2>1, <3>1 DEF KeyCovered
      <3> QED
        BY <3>1, <3>2, CoverTyped DEF KeyCovered
    <2>2. ASSUME NEW k \in Keys, NEW q \in Keys, k[1] = q[1], NEW n \in calls[k], NEW m \in calls[q],
                 n < m
          PROVE  \E f \in jobs[k[1]].failed : n <= f /\ f < m
      <3>1. k = q
        BY <2>1, <2>2
      <3> QED
        BY <2>2, <3>1 DEF Callers, Between
    <2> QED
      BY <2>1, <2>2
  <1> QED
    BY <1>1, LedgerTypeCorrect, CoverInvariant, PTL

=============================================================================
