----------------------------- MODULE PointsBook -----------------------------
(***************************************************************************)
(* What the rewards promise, without transactions: an attendance earns its *)
(* points once and may be found wrong once; a student has one ticket open  *)
(* for a reward, opened when the points for it were earned; a ticket is    *)
(* approved before it is handed over; and what is handed over was earned,  *)
(* but for what decisions beside it may take.                              *)
(***************************************************************************)
EXTENDS Integers, Sums

CONSTANTS
  Students,
  Events,
  Items,
  Cost,        \* [Items -> Nat]
  Points,      \* what an attendance earns
  Redemptions,
  Others       \* the decisions that may be in progress beside one

Attendances == Students \X Events

VARIABLES
  attendance,  \* [Attendances -> {"none", "counted", "corrected"}]
  ticket       \* [Redemptions -> the redemption's row]

book == <<attendance, ticket>>

Init ==
  /\ attendance = [a \in Attendances |-> "none"]
  /\ ticket = [r \in Redemptions |-> [state |-> "absent"]]

(* A correction is an entry of its own: what was earned stays on the books. *)
Earned(s) ==
  Total([a \in Attendances |-> IF a[1] = s /\ attendance[a] # "none" THEN Points ELSE 0])

Spent(s) ==
  Total([r \in Redemptions |->
           IF ticket[r].state = "fulfilled" /\ ticket[r].student = s
           THEN Cost[ticket[r].item] ELSE 0])

Dearest(i) == \A k \in Items : Cost[k] <= Cost[i]

Count(a) ==
  /\ attendance[a] = "none"
  /\ attendance' = [attendance EXCEPT ![a] = "counted"]
  /\ UNCHANGED ticket

Correct(a) ==
  /\ attendance[a] = "counted"
  /\ attendance' = [attendance EXCEPT ![a] = "corrected"]
  /\ UNCHANGED ticket

Opened(s, i) == [state |-> "requested", student |-> s, item |-> i]

Request(r, s, i) ==
  /\ ticket[r].state = "absent"
  /\ {Opened(s, i), [Opened(s, i) EXCEPT !.state = "approved"]}
       \cap {ticket[q] : q \in Redemptions} = {}
  /\ Cost[i] <= Earned(s)
  /\ ticket' = [ticket EXCEPT ![r] = Opened(s, i)]
  /\ UNCHANGED attendance

Answer(r, to) ==
  /\ ticket[r].state = "requested" /\ to \in {"approved", "denied"}
  /\ ticket' = [ticket EXCEPT ![r].state = to]
  /\ UNCHANGED attendance

HandOver(r) ==
  LET s == ticket[r].student
      i == ticket[r].item
  IN  /\ ticket[r].state = "approved"
      /\ \A k \in Items : Dearest(k) => Spent(s) + Cost[i] <= Earned(s) + Others * Cost[k]
      /\ ticket' = [ticket EXCEPT ![r].state = "fulfilled"]
      /\ UNCHANGED attendance

Next ==
  \/ \E a \in Attendances : Count(a) \/ Correct(a)
  \/ \E r \in Redemptions :
       \/ \E s \in Students, i \in Items : Request(r, s, i)
       \/ \E to \in {"approved", "denied"} : Answer(r, to)
       \/ HandOver(r)

Spec == Init /\ [][Next]_book
=============================================================================
