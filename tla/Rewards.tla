------------------------------- MODULE Rewards -------------------------------
(***************************************************************************)
(* Points and what they buy. An attendance is credited once, a correction  *)
(* is an entry that withdraws it, and a redemption is asked for, decided   *)
(* and, when it is fulfilled, debited. Nothing stores a balance: it is     *)
(* folded from the ledger's entries whenever somebody needs it.            *)
(*                                                                         *)
(* Every statement reads what is committed at its own time (READ           *)
(* COMMITTED), so a transaction is cut where it reads and where it         *)
(* commits. Of the ledger, the entries of one source are their sums: the   *)
(* credits and the withdrawals of an attendance, the debits of a ticket.   *)
(***************************************************************************)
EXTENDS Integers, FiniteSets, Sums

CONSTANTS
  Students,
  Events,
  Items,       \* the listable rewards: funded, with a budget owner
  Cost,        \* [Items -> what each costs]: no route reprices one
  Points,      \* POINTS_PER_VERIFIED_ATTENDANCE
  Redemptions, \* bound: the tickets an instance may open
  Sessions,    \* requests and decisions in progress
  Reversible   \* the attendances somebody may find were wrong

Attendances == Students \X Events

ASSUME RewardsAssumption ==
  /\ Cost \in [Items -> Nat \ {0}]
  /\ Points \in Nat \ {0}
  /\ Reversible \subseteq Attendances
  /\ IsFiniteSet(Sessions) /\ Sessions # {}

VARIABLES
  credited,   \* [Attendances -> points its credits add]
  withdrawn,  \* [Attendances -> points its reversals take back]
  ticket,     \* [Redemptions -> the redemption's row]
  paid,       \* [Redemptions -> points its debits take]
  session     \* [Sessions -> the transaction it is in]

vars == <<credited, withdrawn, ticket, paid, session>>

(* REDEMPTION_TRANSITIONS. An expiry has no author and no route has none:  *)
(* nothing in the repository asks for one.                                 *)
Transitions == {
  <<"requested", "approved">>, <<"requested", "denied">>, <<"requested", "expired">>,
  <<"approved", "fulfilled">>, <<"approved", "expired">> }
Decisions == {"approved", "denied", "fulfilled"}

(* Mutant: the index covers what waits for approval, not what has it. *)
OpenUntilApproved == {"requested"}

(* The states uq_redemption_open_per_item covers. *)
Open == {"requested", "approved"}
Terminal == {"fulfilled", "denied", "expired"}

NoTicket == [state |-> "absent"]
Ticket == {NoTicket} \union [state: Open \union Terminal, student: Students, item: Items]

Deciding == {"deciding", "covered"}

Idle == [at |-> "idle"]
Session == {Idle} \union
  [at: {"asking"}, student: Students, item: Items] \union
  [at: Deciding, ticket: Redemptions, to: Decisions] \union
  [at: {"reversing"}, attendance: Attendances, net: Nat]

TypeOK ==
  /\ credited \in [Attendances -> Nat]
  /\ withdrawn \in [Attendances -> Nat]
  /\ ticket \in [Redemptions -> Ticket]
  /\ paid \in [Redemptions -> Nat]
  /\ session \in [Sessions -> Session]

Init ==
  /\ credited = [a \in Attendances |-> 0]
  /\ withdrawn = [a \in Attendances |-> 0]
  /\ ticket = [r \in Redemptions |-> NoTicket]
  /\ paid = [r \in Redemptions |-> 0]
  /\ session = [h \in Sessions |-> Idle]

TicketsOf(s) == {r \in Redemptions : ticket[r] # NoTicket /\ ticket[r].student = s}

(* The ledger's entries for a student: credits, reversals and debits.      *)
Earnings(s) == [a \in Attendances |-> IF a[1] = s THEN credited[a] ELSE 0]
Corrections(s) == [a \in Attendances |-> IF a[1] = s THEN withdrawn[a] ELSE 0]
Payments(s) == [r \in Redemptions |-> IF r \in TicketsOf(s) THEN paid[r] ELSE 0]

(* fold_balance() over ledger_entries_for_subject().                       *)
Balance(s) == Total(Earnings(s)) - Total(Corrections(s)) - Total(Payments(s))

At(h, place) == session[h].at = place
Goes(h, next) == session' = [session EXCEPT ![h] = next]
Ends(h) == Goes(h, Idle)

-----------------------------------------------------------------------------
(* Earning.                                                                *)

(* uq_point_ledger_entry_attendance_credit.                                *)
AlreadyCredited(a) == credited[a] # 0

(* The attendance and its credit, in one transaction; a replay of it finds *)
(* both and writes nothing.                                                *)
RecordAttendance(a) ==
  /\ ~ AlreadyCredited(a)
  /\ credited' = [credited EXCEPT ![a] = @ + Points]
  /\ UNCHANGED <<withdrawn, ticket, paid, session>>

(* Mutant: FOR UPDATE is left out. *)
AttendanceUnlocked(a) == TRUE
AttendanceIsFree(a) == \A h \in Sessions : At(h, "reversing") => session[h].attendance # a

(* A correction withdraws the net of what derives from the attendance, or  *)
(* is refused where that is nothing.                                       *)
BeginReversal(h, a) ==
  LET net == credited[a] - withdrawn[a]
  IN  /\ At(h, "idle")
      /\ AttendanceIsFree(a)
      /\ net > 0
      /\ Goes(h, [at |-> "reversing", attendance |-> a, net |-> net])
      /\ UNCHANGED <<credited, withdrawn, ticket, paid>>

CommitReversal(h) ==
  /\ At(h, "reversing")
  /\ withdrawn' = [withdrawn EXCEPT ![session[h].attendance] = @ + session[h].net]
  /\ Ends(h)
  /\ UNCHANGED <<credited, ticket, paid>>

-----------------------------------------------------------------------------
(* Asking.                                                                 *)

(* The balance is folded before the insert. One that is not established,   *)
(* attendance without an entry, folds to nothing and covers nothing.       *)
Ask(h, s, i) ==
  /\ At(h, "idle")
  /\ Balance(s) >= Cost[i]
  /\ Goes(h, [at |-> "asking", student |-> s, item |-> i])
  /\ UNCHANGED <<credited, withdrawn, ticket, paid>>

(* uq_redemption_open_per_item.                                            *)
OpenTickets(s, i) ==
  {r \in TicketsOf(s) : ticket[r].item = i /\ ticket[r].state \in Open}

InsertRedemption(h) ==
  LET s == session[h].student
      i == session[h].item
  IN  /\ At(h, "asking")
      /\ OpenTickets(s, i) = {}
      /\ \E r \in Redemptions :
           /\ ticket[r] = NoTicket
           /\ ticket' = [ticket EXCEPT ![r] =
                           [state |-> "requested", student |-> s, item |-> i]]
      /\ Ends(h)
      /\ UNCHANGED <<credited, withdrawn, paid>>

(* The request is answered with the ticket that is in flight, or fails     *)
(* where that one was closed before it could be read back.                 *)
ReadBack(h) ==
  /\ At(h, "asking")
  /\ OpenTickets(session[h].student, session[h].item) # {}
  /\ Ends(h)
  /\ UNCHANGED <<credited, withdrawn, ticket, paid>>

-----------------------------------------------------------------------------
(* Deciding.                                                               *)

(* Mutant: FOR UPDATE is left out. *)
TicketUnlocked(r) == TRUE
TicketIsFree(r) ==
  \A h \in Sessions : session[h].at \in Deciding => session[h].ticket # r

LockTicket(h, r, to) ==
  /\ At(h, "idle")
  /\ TicketIsFree(r)
  /\ <<ticket[r].state, to>> \in Transitions
  /\ Goes(h, [at |-> "deciding", ticket |-> r, to |-> to])
  /\ UNCHANGED <<credited, withdrawn, ticket, paid>>

(* Mutant: the balance found at the request is trusted. *)
AffordedOnce(r) == TRUE

(* _debit_for() folds the balance again, behind the lock of this ticket.   *)
Affordable(r) == Balance(ticket[r].student) >= Cost[ticket[r].item]

FoldBalance(h) ==
  /\ At(h, "deciding")
  /\ session[h].to = "fulfilled"
  /\ Affordable(session[h].ticket)
  /\ session' = [session EXCEPT ![h].at = "covered"]
  /\ UNCHANGED <<credited, withdrawn, ticket, paid>>

Debit(r) == paid' = [paid EXCEPT ![r] = @ + Cost[ticket[r].item]]

CommitDecision(h) ==
  LET r == session[h].ticket
      to == session[h].to
  IN  /\ \/ At(h, "deciding") /\ to # "fulfilled" /\ UNCHANGED paid
         \/ At(h, "covered") /\ Debit(r)
      /\ ticket' = [ticket EXCEPT ![r].state = to]
      /\ Ends(h)
      /\ UNCHANGED <<credited, withdrawn>>

(* InsufficientBalanceError, a refused insert, a lost connection.          *)
Abort(h) ==
  /\ ~ At(h, "idle")
  /\ Ends(h)
  /\ UNCHANGED <<credited, withdrawn, ticket, paid>>

-----------------------------------------------------------------------------

Next ==
  \/ \E a \in Attendances : RecordAttendance(a)
  \/ \E h \in Sessions, a \in Reversible : BeginReversal(h, a)
  \/ \E h \in Sessions, s \in Students, i \in Items : Ask(h, s, i)
  \/ \E h \in Sessions, r \in Redemptions, to \in Decisions : LockTicket(h, r, to)
  \/ \E h \in Sessions :
       \/ CommitReversal(h) \/ InsertRedemption(h) \/ ReadBack(h)
       \/ FoldBalance(h) \/ CommitDecision(h) \/ Abort(h)

Spec == Init /\ [][Next]_vars

-----------------------------------------------------------------------------

(* "Why is my balance this": an attendance was credited once and withdrawn *)
(* once or not at all, and a ticket was paid once, if and only if it was   *)
(* fulfilled - whoever replays an attendance, corrects it twice or         *)
(* fulfils a ticket beside somebody who denies it.                         *)
LedgerIsExplained ==
  /\ \A a \in Attendances :
       credited[a] \in {0, Points} /\ withdrawn[a] \in {0, credited[a]}
  /\ \A r \in Redemptions :
       paid[r] = IF ticket[r].state = "fulfilled" THEN Cost[ticket[r].item] ELSE 0

(* Requests for a reward that is already in flight resolve to one ticket,  *)
(* until it is closed, whenever they were found affordable.                *)
InFlight(s, i) ==
  {r \in TicketsOf(s) : ticket[r].item = i /\ ticket[r].state \notin Terminal}

OneTicketPerItem ==
  \A s \in Students, i \in Items, q, r \in Redemptions :
    {q, r} \subseteq InFlight(s, i) => q = r

(* A closed ticket stays closed as it was, and only what was approved is   *)
(* handed over, whatever decisions were begun before.                      *)
DecisionsStand ==
  [][\A r \in Redemptions :
       /\ ticket[r].state \in Terminal => ticket'[r] = ticket[r]
       /\ ticket'[r].state = "fulfilled" => ticket[r].state \in {"approved", "fulfilled"}
    ]_vars

(* The lock of a decision is its ticket's, not its student's, so decisions *)
(* on several tickets of a student may each find the same points. What is  *)
(* overspent is no more than the other decisions in progress may take: a   *)
(* decision that overlaps with none hands nothing over that the student    *)
(* has not earned.                                                         *)
Dearest(i) == \A k \in Items : Cost[k] <= Cost[i]

OverdraftIsBounded ==
  \A s \in Students, i \in Items : Dearest(i) =>
    Total(Payments(s)) <= Total(Earnings(s)) + (Cardinality(Sessions) - 1) * Cost[i]

(* Transactions that read what is committed while others commit add up to  *)
(* a book in which counting, correcting, requesting and deciding are one   *)
(* step each, and a fulfilment is refused unless its student has earned    *)
(* it, save what the decisions beside it may take.                         *)
Standing ==
  [a \in Attendances |->
     IF credited[a] = 0 THEN "none"
     ELSE IF withdrawn[a] = credited[a] THEN "corrected" ELSE "counted"]

Book == INSTANCE PointsBook WITH
  attendance <- Standing, Others <- Cardinality(Sessions) - 1

ImplementsPointsBook == Book!Spec

-----------------------------------------------------------------------------
(* The invariant the proofs use: what a transaction read of the row it has *)
(* locked is true until it ends.                                           *)

(* FOR UPDATE is granted to one; ... *)
LocksHeld ==
  \A g, h \in Sessions :
    /\ At(g, "reversing") /\ At(h, "reversing")
         /\ session[g].attendance = session[h].attendance => g = h
    /\ session[g].at \in Deciding /\ session[h].at \in Deciding
         /\ session[g].ticket = session[h].ticket => g = h

(* ... an attendance that is being corrected still counts; ...             *)
ReversalsAreDue ==
  \A h \in Sessions : At(h, "reversing") =>
    /\ session[h].net = Points
    /\ credited[session[h].attendance] = Points
    /\ withdrawn[session[h].attendance] = 0

(* ... and a ticket that is being decided is where its decision may start. *)
DecisionsAreDue ==
  \A h \in Sessions : session[h].at \in Deciding =>
    /\ <<ticket[session[h].ticket].state, session[h].to>> \in Transitions
    /\ At(h, "covered") => session[h].to = "fulfilled"

RewardsInv ==
  /\ TypeOK /\ LocksHeld /\ ReversalsAreDue /\ DecisionsAreDue
  /\ LedgerIsExplained /\ OneTicketPerItem

(* What is asked for was earned; what was earned stays on the books.       *)
AsksAreEarned ==
  \A h \in Sessions : At(h, "asking") =>
    Cost[session[h].item] <= Total(Earnings(session[h].student))

(* What the decisions on s are about to debit, each found affordable.      *)
Deciders(s) == {h \in Sessions : At(h, "covered") /\ ticket[session[h].ticket].student = s}
Promises(s) ==
  [h \in Sessions |-> IF h \in Deciders(s) THEN Cost[ticket[session[h].ticket].item] ELSE 0]

(* One of them aside, what is paid and promised is earned: the balance a   *)
(* decision found was without the promises of the others.                  *)
PromisesBounded ==
  \A s \in Students, i \in Items : Dearest(i) =>
    Total(Payments(s)) + Total(Promises(s))
      <= Total(Earnings(s)) + (Cardinality(Sessions) - 1) * Cost[i]

(* Were the student locked for a decision, and not the ticket, ...         *)
OneDecider == \A s \in Students : \A g, h \in Deciders(s) : g = h

(* ... nothing would be spent that was not earned.                         *)
NeverOverdrawn == \A s \in Students : Total(Payments(s)) <= Total(Earnings(s))
=============================================================================
