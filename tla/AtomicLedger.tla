---------------------------- MODULE AtomicLedger ----------------------------
(***************************************************************************)
(* What the spend ledger promises (ADR-0015 A1): a unit of work has one    *)
(* reservation at a time, opened only over released ones and only if all   *)
(* three ceilings have room for it at that moment; it is debited from the  *)
(* three together, and settled once, for an amount its ending explains.    *)
(***************************************************************************)
EXTENDS Integers

CONSTANTS
  Jobs,       \* one unit of paid work each
  Attempts,   \* how often a unit may be reserved
  BucketIds,  \* the buckets of all ceilings
  Names,      \* [Jobs -> [day -> the buckets a reservation debits]]
  Estimate,   \* [Jobs -> Nat]
  CeilingOf   \* [BucketIds -> Nat]

Keys == Jobs \X Attempts

VARIABLES rows, buckets

ledger == <<rows, buckets>>

Init ==
  /\ rows = [k \in Keys |-> [state |-> "absent", amount |-> 0, expires |-> 0, day |-> 0]]
  /\ buckets = [b \in BucketIds |-> [reserved |-> 0, spent |-> 0]]

Moved(k, day, reserved, spent) ==
  [b \in BucketIds |->
     IF b \in Names[k[1]][day]
     THEN [reserved |-> buckets[b].reserved + reserved, spent |-> buckets[b].spent + spent]
     ELSE buckets[b]]

Reserve(k, day, expires) ==
  /\ rows[k].state = "absent"
  /\ \A n \in Attempts : n < k[2] => rows[<<k[1], n>>].state = "released"
  /\ \A b \in Names[k[1]][day] :
       buckets[b].reserved + buckets[b].spent + Estimate[k[1]] <= CeilingOf[b]
  /\ rows' = [rows EXCEPT ![k] =
       [state |-> "reserved", amount |-> 0, expires |-> expires, day |-> day]]
  /\ buckets' = Moved(k, day, Estimate[k[1]], 0)

(* A call that answered is charged what it cost; one that did not is       *)
(* charged all that was reserved; one that was never made, nothing.        *)
Settle(k, state, amount) ==
  /\ rows[k].state = "reserved"
  /\ \/ state = "reconciled"
     \/ state = "expired_spent" /\ amount = Estimate[k[1]]
     \/ state = "released" /\ amount = 0
  /\ rows' = [rows EXCEPT ![k].state = state, ![k].amount = amount]
  /\ buckets' = Moved(k, rows[k].day, 0 - Estimate[k[1]], amount)

Next ==
  \E k \in Keys :
    \/ \E day \in DOMAIN Names[k[1]] : Reserve(k, day, rows'[k].expires)
    \/ Settle(k, rows'[k].state, rows'[k].amount)

Spec == Init /\ [][Next]_ledger
=============================================================================
