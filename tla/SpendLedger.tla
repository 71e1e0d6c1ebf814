----------------------------- MODULE SpendLedger -----------------------------
(***************************************************************************)
(* The spend ledger of one tenant (ADR-0015 A1): the reservations, the     *)
(* three ceiling buckets that each of them debits, and the transactions    *)
(* that reserve and settle, lock by lock, at READ COMMITTED.               *)
(*                                                                         *)
(* A bucket nobody has debited and a bucket that is there with nothing in  *)
(* it are one state: its ceiling is a constant, so both refuse the same    *)
(* estimates. A reserved row's lease token is the one its receipts carry   *)
(* until the row is settled, so a receipt is the key of its row.           *)
(***************************************************************************)
EXTENDS Integers, FiniteSets, Sequences

CONSTANTS
  Jobs,         \* one unit of paid work each
  Sessions,     \* whoever has a session on the ledger
  Tenant,       \* the owner of the day and month buckets
  Estimate,     \* [Jobs -> Nat], estimate_max_cost of the job's unit
  Ceiling,      \* [Kinds -> Nat], the three of SpendCeilings
  Lease,        \* how long a reservation is held
  DayLength,    \* clock readings per day
  MaxAttempts,  \* bound: reservations of one unit of work
  MaxTime       \* bound: the clock stops here

Kinds == {"job", "day", "month"}

ASSUME LedgerAssumption ==
  /\ Estimate \in [Jobs -> Nat]
  /\ Ceiling \in [Kinds -> Nat]
  /\ Lease \in Nat
  /\ DayLength \in Nat \ {0}
  /\ MaxAttempts \in Nat \ {0}
  /\ MaxTime \in Nat

Keys == Jobs \X (1 .. MaxAttempts)

DayOf(t) == t \div DayLength

BucketIds ==
  {<<"job", j, 0>> : j \in Jobs}
    \union {<<"day", Tenant, d>> : d \in 0 .. DayOf(MaxTime)}
    \union {<<"month", Tenant, 0>>}

VARIABLES
  rows,     \* [Keys -> a spend_reservation, "absent" while there is none]
  buckets,  \* [BucketIds -> what is reserved and what is spent]
  tx,       \* [Sessions -> the transaction it is in]
  now       \* the clock

ledger == <<rows, buckets>>

Settled == {"reconciled", "expired_spent", "released"}
Row == [state: Settled \union {"absent", "reserved"}, amount: Nat, expires: Nat, day: Nat]
Absent == [state |-> "absent", amount |-> 0, expires |-> 0, day |-> 0]

(* What a transaction is for, how many of its locks it has, and what it    *)
(* will write: a row's new state and amount, or its day and its lease.     *)
Transaction ==
  [op: {"reserve", "settle"}, key: Keys, held: Nat, row: Row]
NoTx == [op |-> "none", held |-> 0]

LedgerTypeOK ==
  /\ rows \in [Keys -> Row]
  /\ \A k \in Keys : rows[k].day \in 0 .. DayOf(MaxTime)
  /\ buckets \in [BucketIds -> [reserved: Int, spent: Nat]]
  /\ tx \in [Sessions -> Transaction \union {NoTx}]
  /\ now \in 0 .. MaxTime

LedgerInit ==
  /\ rows = [k \in Keys |-> Absent]
  /\ buckets = [b \in BucketIds |-> [reserved |-> 0, spent |-> 0]]
  /\ tx = [s \in Sessions |-> NoTx]
  /\ now = 0

-----------------------------------------------------------------------------
(* Locks *)

(* BUCKET_LOCK_ORDER, of the bucket keys named on the row. *)
BucketsOf(k, day) == << <<"job", k[1], 0>>, <<"day", Tenant, day>>, <<"month", Tenant, 0>> >>

(* Mutant: a settle credits the buckets in the opposite order. *)
PlanReversed(t) ==
  CASE t.op = "none"    -> << >>
    [] t.op = "reserve" -> BucketsOf(t.key, t.row.day)
    [] t.op = "settle"  ->
         LET b == BucketsOf(t.key, t.row.day)
         IN  << <<"row", t.key[1], t.key[2]>>, b[3], b[2], b[1] >>

(* The rows a transaction locks, in order. *)
Plan(t) ==
  CASE t.op = "none"    -> << >>
    [] t.op = "reserve" -> BucketsOf(t.key, t.row.day)
    [] t.op = "settle"  -> << <<"row", t.key[1], t.key[2]>> >> \o BucketsOf(t.key, t.row.day)

Holds(s, r) == \E i \in 1 .. tx[s].held : Plan(tx[s])[i] = r

(* The next row it needs. Nothing is waited for after the last one, so a   *)
(* transaction commits in the step that takes it.                          *)
Needs(s)  == Plan(tx[s])[tx[s].held + 1]
AtLast(s) == tx[s].held + 1 = Len(Plan(tx[s]))

Waits(s, q) == tx[s].op # "none" /\ q # s /\ Holds(q, Needs(s))

NextLockIsFree(s) == tx[s].op # "none" /\ \A q \in Sessions : ~Waits(s, q)

Lock(s) == tx' = [tx EXCEPT ![s].held = @ + 1]
End(s)  == tx' = [tx EXCEPT ![s] = NoTx]

-----------------------------------------------------------------------------
(* reserve() *)

Family(j) == {n \in 1 .. MaxAttempts : rows[<<j, n>>].state # "absent"}

Newest(j) == <<j, CHOOSE n \in Family(j) : \A m \in Family(j) : m <= n>>

(* Mutant: a live reservation is whatever has not been settled. *)
LiveUntilSettled(j, t) ==
  LET latest == Newest(j)
  IN  IF Family(j) = {} THEN "open" ELSE
      CASE rows[latest].state = "released"       -> "open"
        [] rows[latest].state = "reserved"       -> "live"
        [] rows[latest].state = "reconciled"     -> "already_reconciled"
        [] rows[latest].state = "expired_spent"  -> "refused"

(* Mutant: an expired attempt is retried like a released one. *)
ExpiredIsRetried(j, t) ==
  LET latest == Newest(j)
  IN  IF Family(j) = {} THEN "open" ELSE
      CASE rows[latest].state \in {"released", "expired_spent"} -> "open"
        [] rows[latest].state = "reserved"       ->
             IF rows[latest].expires < t THEN "refused" ELSE "live"
        [] rows[latest].state = "reconciled"     -> "already_reconciled"

(* _resolve_work_key() at t: what the newest attempt says of its unit.     *)
Redelivery(j, t) ==
  LET latest == Newest(j)
  IN  IF Family(j) = {} THEN "open" ELSE
      CASE rows[latest].state = "released"       -> "open"
        [] rows[latest].state = "reserved"       ->
             IF rows[latest].expires < t THEN "refused" ELSE "live"
        [] rows[latest].state = "reconciled"     -> "already_reconciled"
        [] rows[latest].state = "expired_spent"  -> "refused"

(* next_family_work_key() counts the family. *)
NextKey(j) == <<j, Cardinality(Family(j)) + 1>>

(* The family is read; what is to be inserted is fixed here. *)
BeginReserve(s, j, t) ==
  /\ NextKey(j) \in Keys
  /\ tx' = [tx EXCEPT ![s] =
       [op |-> "reserve", key |-> NextKey(j), held |-> 0,
        row |-> [state |-> "reserved", amount |-> 0, expires |-> t + Lease, day |-> DayOf(t)]]]
  /\ UNCHANGED <<ledger, now>>

(* Mutant: what is spent takes no room. *)
RoomBesideReserved(b, estimate) == buckets[b].reserved + estimate <= Ceiling[b[1]]

(* The guard of _build_debit_statement, of its insert and of its update. *)
HasRoom(b, estimate) ==
  buckets[b].reserved + buckets[b].spent + estimate <= Ceiling[b[1]]

(* _debit_bucket(): it waits for the row, then the guard is evaluated. *)
Debit(s) ==
  /\ tx[s].op = "reserve" /\ NextLockIsFree(s)
  /\ HasRoom(Needs(s), Estimate[tx[s].key[1]])
  /\ ~AtLast(s) /\ Lock(s)
  /\ UNCHANGED <<ledger, now>>

(* One refusal rolls all three back. *)
DebitRefused(s) ==
  /\ tx[s].op = "reserve" /\ NextLockIsFree(s)
  /\ ~HasRoom(Needs(s), Estimate[tx[s].key[1]])
  /\ End(s)
  /\ UNCHANGED <<ledger, now>>

Credit(names, reserved, spent) ==
  [b \in BucketIds |->
     IF \E i \in 1 .. Len(names) : names[i] = b
     THEN [reserved |-> buckets[b].reserved + reserved, spent |-> buckets[b].spent + spent]
     ELSE buckets[b]]

(* The last debit, _insert_reservation() and its commit. *)
InsertReservation(s) ==
  /\ tx[s].op = "reserve" /\ NextLockIsFree(s) /\ AtLast(s)
  /\ HasRoom(Needs(s), Estimate[tx[s].key[1]])
  /\ rows[tx[s].key].state = "absent"
  /\ rows' = [rows EXCEPT ![tx[s].key] = tx[s].row]
  /\ buckets' = Credit(Plan(tx[s]), Estimate[tx[s].key[1]], 0)
  /\ End(s)
  /\ UNCHANGED now

(* uq_spend_reservation_work_key: another took the attempt's number. *)
WorkKeyCollision(s) ==
  /\ tx[s].op = "reserve" /\ NextLockIsFree(s) /\ AtLast(s)
  /\ HasRoom(Needs(s), Estimate[tx[s].key[1]])
  /\ rows[tx[s].key].state # "absent"
  /\ End(s)
  /\ UNCHANGED <<ledger, now>>

-----------------------------------------------------------------------------
(* Settling *)

(* Mutant: the day bucket is that of the settle. *)
BeginSettleToday(s, k, state, amount) ==
  /\ rows[k].state = "reserved"
  /\ tx' = [tx EXCEPT ![s] =
       [op |-> "settle", key |-> k, held |-> 0,
        row |-> [rows[k] EXCEPT !.state = state, !.amount = amount, !.day = DayOf(now)]]]
  /\ UNCHANGED <<ledger, now>>

(* The row is read and the outcome decided from what was read. *)
BeginSettle(s, k, state, amount) ==
  /\ rows[k].state = "reserved"
  /\ tx' = [tx EXCEPT ![s] =
       [op |-> "settle", key |-> k, held |-> 0,
        row |-> [rows[k] EXCEPT !.state = state, !.amount = amount]]]
  /\ UNCHANGED <<ledger, now>>

(* Mutant: the update is not guarded by the state. *)
AlwaysReserved(k) == TRUE

StillReserved(k) == rows[k].state = "reserved"

(* The guarded UPDATE of _settle(), which waits for the row, and then the  *)
(* three credits, each of which waits for its bucket.                      *)
LockForSettle(s) ==
  /\ tx[s].op = "settle" /\ NextLockIsFree(s)
  /\ tx[s].held = 0 => StillReserved(tx[s].key)
  /\ ~AtLast(s) /\ Lock(s)
  /\ UNCHANGED <<ledger, now>>

SettleLost(s) ==
  /\ tx[s].op = "settle" /\ NextLockIsFree(s)
  /\ tx[s].held = 0 /\ ~StillReserved(tx[s].key)
  /\ End(s)
  /\ UNCHANGED <<ledger, now>>

CommitSettle(s) ==
  /\ tx[s].op = "settle" /\ NextLockIsFree(s) /\ AtLast(s)
  /\ rows' = [rows EXCEPT ![tx[s].key] = tx[s].row]
  /\ buckets' = Credit(Plan(tx[s]), 0 - Estimate[tx[s].key[1]], tx[s].row.amount)
  /\ End(s)
  /\ UNCHANGED now

(* The connection is lost: PostgreSQL rolls back and frees the locks. *)
RollBack(s) ==
  /\ End(s)
  /\ UNCHANGED <<ledger, now>>

-----------------------------------------------------------------------------
(* sweep(): the select and the settle of one row. The rows of a batch are  *)
(* settled in transactions of their own, some time after the select, so a  *)
(* batch is several of these.                                              *)

Abandoned(k) == rows[k].state = "reserved" /\ rows[k].expires < now

SelectAbandoned(s, k) ==
  /\ tx[s].op = "none"
  /\ Abandoned(k)
  /\ BeginSettle(s, k, "expired_spent", Estimate[k[1]])

=============================================================================
