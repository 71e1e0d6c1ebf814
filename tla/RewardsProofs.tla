---------------------------- MODULE RewardsProofs ----------------------------
(***************************************************************************)
(* What holds of Rewards for any students, events, rewards, prices and     *)
(* sessions.                                                               *)
(*                                                                         *)
(* The argument is one about locks: what a transaction established of the  *)
(* row it has locked (ReversalsAreDue, DecisionsAreDue) is untouched by    *)
(* the others (LocksHeld), so it is true of the row it then writes.        *)
(***************************************************************************)
EXTENDS Rewards, SumsProofs

(* Records of different shapes, told apart by their place.                 *)
LEMMA SessionShapes ==
  ASSUME TypeOK, NEW h \in Sessions
  PROVE  /\ session[h] \in Session
         /\ At(h, "idle") => session[h] = Idle
         /\ At(h, "asking") => session[h].student \in Students /\ session[h].item \in Items
         /\ session[h].at \in Deciding =>
              session[h].ticket \in Redemptions /\ session[h].to \in Decisions
         /\ At(h, "reversing") =>
              session[h].attendance \in Attendances /\ session[h].net \in Nat
  <1>1. session[h] \in Session
    BY DEF TypeOK
  <1>. QED
    BY <1>1 DEF Session, Idle, At, Deciding

LEMMA TicketShapes ==
  ASSUME TypeOK, NEW r \in Redemptions
  PROVE  /\ ticket[r] \in Ticket
         /\ ticket[r].state \in Open \union Terminal =>
              /\ ticket[r] # NoTicket
              /\ ticket[r].student \in Students /\ ticket[r].item \in Items
         /\ ticket[r] = NoTicket \/ ticket[r].state \in Open \union Terminal
  <1>1. ticket[r] \in Ticket
    BY DEF TypeOK
  <1>. QED
    BY <1>1 DEF Ticket, NoTicket, Open, Terminal

(* A decision starts from an open ticket.                                  *)
LEMMA DecidedIsOpen ==
  ASSUME RewardsInv, NEW h \in Sessions, session[h].at \in Deciding
  PROVE  LET r == session[h].ticket IN
         /\ r \in Redemptions /\ ticket[r].state \in Open
         /\ ticket[r] # NoTicket /\ ticket[r].item \in Items
         /\ paid[r] = 0
  <1>1. session[h].ticket \in Redemptions
    BY SessionShapes DEF RewardsInv
  <1>2. ticket[session[h].ticket].state \in Open
    BY DEF RewardsInv, DecisionsAreDue, Transitions, Open
  <1>3. ticket[session[h].ticket].state # "fulfilled"
    BY <1>2 DEF Open
  <1>. QED
    BY <1>1, <1>2, <1>3, TicketShapes DEF RewardsInv, LedgerIsExplained

-----------------------------------------------------------------------------
(* Types.                                                                  *)

(* No step leaves the types.                                            *)
LEMMA TypesKept ==
  ASSUME RewardsInv, Next
  PROVE  TypeOK'
  <1>. USE DEF RewardsInv, TypeOK
  <1>1. ASSUME NEW a \in Attendances, RecordAttendance(a) PROVE TypeOK'
    BY <1>1, RewardsAssumption DEF RecordAttendance
  <1>2. ASSUME NEW h \in Sessions, NEW a \in Reversible, BeginReversal(h, a) PROVE TypeOK'
    <2>1. a \in Attendances
      BY RewardsAssumption
    <2>2. credited[a] \in Nat /\ withdrawn[a] \in Nat
      BY <2>1
    <2>3. credited[a] - withdrawn[a] \in Nat
      BY <1>2, <2>2 DEF BeginReversal
    <2>4. [at |-> "reversing", attendance |-> a, net |-> credited[a] - withdrawn[a]] \in Session
      BY <2>1, <2>3 DEF Session
    <2>. QED
      BY <1>2, <2>4 DEF BeginReversal, Goes
  <1>3. ASSUME NEW h \in Sessions, NEW s \in Students, NEW i \in Items, Ask(h, s, i) PROVE TypeOK'
    <2>1. [at |-> "asking", student |-> s, item |-> i] \in Session
      BY DEF Session
    <2>. QED
      BY <1>3, <2>1 DEF Ask, Goes
  <1>4. ASSUME NEW h \in Sessions, NEW r \in Redemptions, NEW to \in Decisions,
               LockTicket(h, r, to)
        PROVE  TypeOK'
    <2>1. [at |-> "deciding", ticket |-> r, to |-> to] \in Session
      BY DEF Session, Deciding
    <2>. QED
      BY <1>4, <2>1 DEF LockTicket, Goes
  <1>5. ASSUME NEW h \in Sessions, CommitReversal(h) PROVE TypeOK'
    <2>1. session[h].attendance \in Attendances /\ session[h].net \in Nat
      BY <1>5, SessionShapes DEF CommitReversal
    <2>2. Idle \in Session
      BY DEF Session
    <2>. QED
      BY <1>5, <2>1, <2>2 DEF CommitReversal, Ends, Goes
  <1>6. ASSUME NEW h \in Sessions, InsertRedemption(h) PROVE TypeOK'
    <2>1. session[h].student \in Students /\ session[h].item \in Items
      BY <1>6, SessionShapes DEF InsertRedemption
    <2>2. [state |-> "requested", student |-> session[h].student, item |-> session[h].item]
            \in Ticket
      BY <2>1 DEF Ticket, Open
    <2>3. Idle \in Session
      BY DEF Session
    <2>. QED
      BY <1>6, <2>2, <2>3 DEF InsertRedemption, Ends, Goes
  <1>7. ASSUME NEW h \in Sessions, ReadBack(h) \/ Abort(h) PROVE TypeOK'
    <2>1. Idle \in Session
      BY DEF Session
    <2>. QED
      BY <1>7, <2>1 DEF ReadBack, Abort, Ends, Goes
  <1>8. ASSUME NEW h \in Sessions, FoldBalance(h) PROVE TypeOK'
    <2>1. session[h] \in [at: Deciding, ticket: Redemptions, to: Decisions]
      BY <1>8, SessionShapes DEF FoldBalance, At, Session, Idle, Deciding
    <2>2. [session[h] EXCEPT !.at = "covered"] \in Session
      BY <2>1 DEF Session, Deciding
    <2>. QED
      BY <1>8, <2>2 DEF FoldBalance
  <1>9. ASSUME NEW h \in Sessions, CommitDecision(h) PROVE TypeOK'
    <2>. DEFINE r == session[h].ticket
    <2>1. session[h].at \in Deciding
      BY <1>9 DEF CommitDecision, At, Deciding
    <2>2. r \in Redemptions /\ ticket[r].state \in Open /\ ticket[r].item \in Items
      BY <2>1, DecidedIsOpen
    <2>3. session[h].to \in Open \union Terminal
      BY <2>1, SessionShapes DEF Decisions, Open, Terminal
    <2>4. ticket[r] \in [state: Open \union Terminal, student: Students, item: Items]
      BY <2>2, TicketShapes DEF Ticket, NoTicket, Open
    <2>5. [ticket[r] EXCEPT !.state = session[h].to] \in Ticket
      BY <2>3, <2>4 DEF Ticket
    <2>6. Cost[ticket[r].item] \in Nat
      BY <2>2, RewardsAssumption
    <2>7. Idle \in Session
      BY DEF Session
    <2>8. paid' \in [Redemptions -> Nat]
      BY <1>9, <2>2, <2>6 DEF CommitDecision, Debit
    <2>9. ticket' \in [Redemptions -> Ticket]
      BY <1>9, <2>5 DEF CommitDecision
    <2>. QED
      BY <1>9, <2>7, <2>8, <2>9 DEF CommitDecision, Ends, Goes
  <1>. QED
    BY <1>1, <1>2, <1>3, <1>4, <1>5, <1>6, <1>7, <1>8, <1>9 DEF Next

-----------------------------------------------------------------------------
(* Locks, and what is established under them.                              *)

(* A session that ends holds nothing, and takes nothing from the others.   *)
LEMMA EndingFreesLocks ==
  ASSUME RewardsInv, NEW h \in Sessions, Ends(h)
  PROVE  /\ LocksHeld'
         /\ session'[h] = Idle
         /\ \A g \in Sessions \ {h} : session'[g] = session[g]
  <1>1. /\ session'[h] = Idle
        /\ \A g \in Sessions \ {h} : session'[g] = session[g]
    BY DEF RewardsInv, TypeOK, Ends, Goes
  <1>2. ~ At(h, "reversing")' /\ ~ (session'[h].at \in Deciding)
    BY <1>1 DEF At, Idle, Deciding
  <1>. QED
    BY <1>1, <1>2 DEF RewardsInv, LocksHeld, At

(* A lock is granted to one.                                            *)
LEMMA LocksKept ==
  ASSUME RewardsInv, Next
  PROVE  LocksHeld'
  <1>. USE DEF RewardsInv, TypeOK
  <1>1. CASE session' = session
    BY <1>1 DEF LocksHeld, At
  <1>2. ASSUME NEW h \in Sessions, NEW a \in Reversible, BeginReversal(h, a) PROVE LocksHeld'
    <2>1. /\ session'[h].at = "reversing" /\ session'[h].attendance = a
          /\ \A g \in Sessions \ {h} : session'[g] = session[g]
      BY <1>2 DEF BeginReversal, Goes
    <2>2. \A g \in Sessions \ {h} : session'[g].at = "reversing" => session'[g].attendance # a
      BY <1>2, <2>1 DEF BeginReversal, AttendanceIsFree, At
    <2>. QED
      BY <2>1, <2>2 DEF LocksHeld, At, Deciding
  <1>3. ASSUME NEW h \in Sessions, NEW s \in Students, NEW i \in Items, Ask(h, s, i)
        PROVE  LocksHeld'
    <2>1. /\ session'[h].at = "asking"
          /\ \A g \in Sessions \ {h} : session'[g] = session[g]
      BY <1>3 DEF Ask, Goes
    <2>. QED
      BY <2>1 DEF LocksHeld, At, Deciding
  <1>4. ASSUME NEW h \in Sessions, NEW r \in Redemptions, NEW to \in Decisions,
               LockTicket(h, r, to)
        PROVE  LocksHeld'
    <2>1. /\ session'[h].at = "deciding" /\ session'[h].ticket = r
          /\ \A g \in Sessions \ {h} : session'[g] = session[g]
      BY <1>4 DEF LockTicket, Goes
    <2>2. \A g \in Sessions \ {h} : session'[g].at \in Deciding => session'[g].ticket # r
      BY <1>4, <2>1 DEF LockTicket, TicketIsFree
    <2>. QED
      BY <2>1, <2>2 DEF LocksHeld, At, Deciding
  <1>5. ASSUME NEW h \in Sessions, FoldBalance(h) PROVE LocksHeld'
    <2>1. session[h].at \in Deciding
      BY <1>5 DEF FoldBalance, At, Deciding
    <2>2. session[h] \in [at: Deciding, ticket: Redemptions, to: Decisions]
      BY <1>5, SessionShapes DEF FoldBalance, At, Session, Idle, Deciding
    <2>3. /\ session'[h].at = "covered" /\ session'[h].ticket = session[h].ticket
          /\ \A g \in Sessions \ {h} : session'[g] = session[g]
      BY <1>5, <2>2 DEF FoldBalance
    <2>. QED
      BY <2>1, <2>3 DEF LocksHeld, At, Deciding
  <1>6. ASSUME NEW h \in Sessions, Ends(h) PROVE LocksHeld'
    BY <1>6, EndingFreesLocks
  <1>. QED
    BY <1>1, <1>2, <1>3, <1>4, <1>5, <1>6
    DEF Next, RecordAttendance, CommitReversal, InsertRedemption, ReadBack, CommitDecision, Abort

(* A correction is due until it commits.                                *)
LEMMA ReversalsKept ==
  ASSUME RewardsInv, Next
  PROVE  ReversalsAreDue'
  <1>. USE DEF RewardsInv, TypeOK
  <1>1. ASSUME NEW a \in Attendances, RecordAttendance(a) PROVE ReversalsAreDue'
    <2>1. credited[a] = 0 /\ Points # 0
      BY <1>1, RewardsAssumption DEF RecordAttendance, AlreadyCredited
    <2>2. \A h \in Sessions : At(h, "reversing") => session[h].attendance # a
      BY <2>1 DEF ReversalsAreDue
    <2>3. \A b \in Attendances \ {a} : credited'[b] = credited[b]
      BY <1>1 DEF RecordAttendance
    <2>. QED
      BY <1>1, <2>2, <2>3, SessionShapes DEF RecordAttendance, ReversalsAreDue, At
  <1>2. ASSUME NEW h \in Sessions, NEW a \in Reversible, BeginReversal(h, a)
        PROVE  ReversalsAreDue'
    <2>1. a \in Attendances
      BY RewardsAssumption
    <2>2. credited[a] = Points /\ withdrawn[a] = 0
      <3>1. credited[a] - withdrawn[a] > 0
        BY <1>2 DEF BeginReversal
      <3>2. credited[a] \in {0, Points} /\ withdrawn[a] \in {0, credited[a]}
        BY <2>1 DEF LedgerIsExplained
      <3>3. credited[a] \in Nat /\ withdrawn[a] \in Nat
        BY <2>1
      <3>. QED
        BY <3>1, <3>2, <3>3
    <2>3. credited[a] - withdrawn[a] = Points
      BY <2>2, RewardsAssumption
    <2>4. /\ session'[h].attendance = a /\ session'[h].net = Points
          /\ \A g \in Sessions \ {h} : session'[g] = session[g]
      BY <1>2, <2>3 DEF BeginReversal, Goes
    <2>. QED
      BY <1>2, <2>2, <2>4 DEF BeginReversal, ReversalsAreDue, At
  <1>3. ASSUME NEW h \in Sessions, CommitReversal(h) PROVE ReversalsAreDue'
    <2>1. /\ session'[h] = Idle
          /\ \A g \in Sessions \ {h} : session'[g] = session[g]
      BY <1>3, EndingFreesLocks DEF CommitReversal
    <2>2. \A g \in Sessions \ {h} :
            At(g, "reversing") => session[g].attendance # session[h].attendance
      BY <1>3 DEF CommitReversal, LocksHeld
    <2>3. \A b \in Attendances : b # session[h].attendance => withdrawn'[b] = withdrawn[b]
      BY <1>3 DEF CommitReversal
    <2>4. \A g \in Sessions \ {h} : At(g, "reversing") =>
            withdrawn'[session[g].attendance] = withdrawn[session[g].attendance]
      BY <2>2, <2>3, SessionShapes
    <2>. QED
      BY <1>3, <2>1, <2>4 DEF CommitReversal, ReversalsAreDue, At, Idle
  <1>4. ASSUME UNCHANGED <<credited, withdrawn>>,
               \A g \in Sessions : session'[g].at = "reversing" => session'[g] = session[g]
        PROVE  ReversalsAreDue'
    BY <1>4 DEF ReversalsAreDue, At
  <1>5. ASSUME NEW h \in Sessions, NEW s \in Students, NEW i \in Items, Ask(h, s, i)
        PROVE  ReversalsAreDue'
    <2>1. \A g \in Sessions : session'[g].at = "reversing" => session'[g] = session[g]
      BY <1>5 DEF Ask, Goes
    <2>. QED
      BY <1>4, <1>5, <2>1 DEF Ask
  <1>6. ASSUME NEW h \in Sessions, NEW r \in Redemptions, NEW to \in Decisions,
               LockTicket(h, r, to)
        PROVE  ReversalsAreDue'
    <2>1. \A g \in Sessions : session'[g].at = "reversing" => session'[g] = session[g]
      BY <1>6 DEF LockTicket, Goes
    <2>. QED
      BY <1>4, <1>6, <2>1 DEF LockTicket
  <1>7. ASSUME NEW h \in Sessions, FoldBalance(h) PROVE ReversalsAreDue'
    <2>1. session[h] \in [at: Deciding, ticket: Redemptions, to: Decisions]
      BY <1>7, SessionShapes DEF FoldBalance, At, Session, Idle, Deciding
    <2>2. session'[h].at = "covered" /\ \A g \in Sessions \ {h} : session'[g] = session[g]
      BY <1>7, <2>1 DEF FoldBalance
    <2>. QED
      BY <1>4, <1>7, <2>2 DEF FoldBalance
  <1>8. ASSUME NEW h \in Sessions, Ends(h), UNCHANGED <<credited, withdrawn>>
        PROVE  ReversalsAreDue'
    <2>1. \A g \in Sessions : session'[g].at = "reversing" => session'[g] = session[g]
      BY <1>8, EndingFreesLocks DEF Idle
    <2>. QED
      BY <1>4, <1>8, <2>1
  <1>. QED
    BY <1>1, <1>2, <1>3, <1>5, <1>6, <1>7, <1>8
    DEF Next, InsertRedemption, ReadBack, CommitDecision, Abort

(* A decision is legal until it commits.                                *)
LEMMA DecisionsKept ==
  ASSUME RewardsInv, Next
  PROVE  DecisionsAreDue'
  <1>. USE DEF RewardsInv, TypeOK
  <1>1. ASSUME UNCHANGED ticket,
               \A g \in Sessions : session'[g].at \in Deciding => session'[g] = session[g]
        PROVE  DecisionsAreDue'
    BY <1>1 DEF DecisionsAreDue, At
  <1>2. ASSUME NEW h \in Sessions, NEW a \in Reversible, BeginReversal(h, a)
        PROVE  DecisionsAreDue'
    <2>1. \A g \in Sessions : session'[g].at \in Deciding => session'[g] = session[g]
      BY <1>2 DEF BeginReversal, Goes, Deciding
    <2>. QED
      BY <1>1, <1>2, <2>1 DEF BeginReversal
  <1>3. ASSUME NEW h \in Sessions, NEW s \in Students, NEW i \in Items, Ask(h, s, i)
        PROVE  DecisionsAreDue'
    <2>1. \A g \in Sessions : session'[g].at \in Deciding => session'[g] = session[g]
      BY <1>3 DEF Ask, Goes, Deciding
    <2>. QED
      BY <1>1, <1>3, <2>1 DEF Ask
  <1>4. ASSUME NEW h \in Sessions, NEW r \in Redemptions, NEW to \in Decisions,
               LockTicket(h, r, to)
        PROVE  DecisionsAreDue'
    <2>1. /\ session'[h] = [at |-> "deciding", ticket |-> r, to |-> to]
          /\ \A g \in Sessions \ {h} : session'[g] = session[g]
      BY <1>4 DEF LockTicket, Goes
    <2>2. <<ticket[r].state, to>> \in Transitions /\ ticket' = ticket
      BY <1>4 DEF LockTicket
    <2>. QED
      BY <2>1, <2>2 DEF DecisionsAreDue, At
  <1>5. ASSUME NEW h \in Sessions, FoldBalance(h) PROVE DecisionsAreDue'
    <2>1. session[h].at \in Deciding /\ session[h].to = "fulfilled"
      BY <1>5 DEF FoldBalance, At, Deciding
    <2>2. session[h] \in [at: Deciding, ticket: Redemptions, to: Decisions]
      BY <1>5, SessionShapes DEF FoldBalance, At, Session, Idle, Deciding
    <2>3. /\ session'[h].ticket = session[h].ticket /\ session'[h].to = "fulfilled"
          /\ \A g \in Sessions \ {h} : session'[g] = session[g]
      BY <1>5, <2>1, <2>2 DEF FoldBalance
    <2>. QED
      BY <1>5, <2>1, <2>3 DEF FoldBalance, DecisionsAreDue, At
  <1>6. ASSUME NEW h \in Sessions, Ends(h), UNCHANGED ticket PROVE DecisionsAreDue'
    <2>1. \A g \in Sessions : session'[g].at \in Deciding => session'[g] = session[g]
      BY <1>6, EndingFreesLocks DEF Idle, Deciding
    <2>. QED
      BY <1>1, <1>6, <2>1
  <1>7. ASSUME NEW h \in Sessions, InsertRedemption(h) PROVE DecisionsAreDue'
    <2>1. PICK r \in Redemptions : ticket[r] = NoTicket
                 /\ \A q \in Redemptions \ {r} : ticket'[q] = ticket[q]
      BY <1>7 DEF InsertRedemption
    <2>2. \A g \in Sessions : session'[g].at \in Deciding => session'[g] = session[g]
      BY <1>7, EndingFreesLocks DEF InsertRedemption, Idle, Deciding
    <2>3. \A g \in Sessions : session[g].at \in Deciding =>
            ticket'[session[g].ticket] = ticket[session[g].ticket]
      BY <2>1, DecidedIsOpen
    <2>. QED
      BY <2>2, <2>3 DEF DecisionsAreDue, At
  <1>8. ASSUME NEW h \in Sessions, CommitDecision(h) PROVE DecisionsAreDue'
    <2>1. session[h].at \in Deciding
      BY <1>8 DEF CommitDecision, At, Deciding
    <2>2. \A g \in Sessions : session'[g].at \in Deciding => g # h /\ session'[g] = session[g]
      BY <1>8, EndingFreesLocks DEF CommitDecision, Idle, Deciding
    <2>3. \A q \in Redemptions : q # session[h].ticket => ticket'[q] = ticket[q]
      BY <1>8 DEF CommitDecision
    <2>4. \A g \in Sessions \ {h} : session[g].at \in Deciding =>
            ticket'[session[g].ticket] = ticket[session[g].ticket]
      BY <2>1, <2>3, DecidedIsOpen DEF LocksHeld
    <2>. QED
      BY <2>2, <2>4 DEF DecisionsAreDue, At
  <1>9. ASSUME NEW a \in Attendances, RecordAttendance(a) PROVE DecisionsAreDue'
    BY <1>1, <1>9 DEF RecordAttendance
  <1>. QED
    BY <1>2, <1>3, <1>4, <1>5, <1>6, <1>7, <1>8, <1>9
    DEF Next, CommitReversal, ReadBack, Abort

-----------------------------------------------------------------------------
(* The ledger and the tickets.                                             *)

(* What is written under a lock is what the ledger still lacks.         *)
LEMMA LedgerKept ==
  ASSUME RewardsInv, Next
  PROVE  LedgerIsExplained'
  <1>. USE DEF RewardsInv, TypeOK
  <1>1. CASE UNCHANGED <<credited, withdrawn, ticket, paid>>
    BY <1>1 DEF LedgerIsExplained
  <1>2. ASSUME NEW a \in Attendances, RecordAttendance(a) PROVE LedgerIsExplained'
    <2>1. credited[a] = 0 /\ withdrawn[a] = 0
      BY <1>2 DEF RecordAttendance, AlreadyCredited, LedgerIsExplained
    <2>2. credited'[a] = Points
      BY <1>2, <2>1, RewardsAssumption DEF RecordAttendance
    <2>3. \A b \in Attendances \ {a} : credited'[b] = credited[b]
      BY <1>2 DEF RecordAttendance
    <2>. QED
      BY <1>2, <2>1, <2>2, <2>3 DEF RecordAttendance, LedgerIsExplained
  <1>3. ASSUME NEW h \in Sessions, CommitReversal(h) PROVE LedgerIsExplained'
    <2>. DEFINE a == session[h].attendance
    <2>1. /\ a \in Attendances /\ session[h].net = Points
          /\ credited[a] = Points /\ withdrawn[a] = 0
      BY <1>3, SessionShapes DEF CommitReversal, ReversalsAreDue
    <2>2. withdrawn'[a] = Points
      BY <1>3, <2>1, RewardsAssumption DEF CommitReversal
    <2>3. \A b \in Attendances \ {a} : withdrawn'[b] = withdrawn[b]
      BY <1>3 DEF CommitReversal
    <2>. QED
      BY <1>3, <2>1, <2>2, <2>3 DEF CommitReversal, LedgerIsExplained
  <1>4. ASSUME NEW h \in Sessions, InsertRedemption(h) PROVE LedgerIsExplained'
    <2>1. PICK r \in Redemptions : ticket[r] = NoTicket /\ ticket'[r].state = "requested"
                 /\ \A q \in Redemptions \ {r} : ticket'[q] = ticket[q]
      BY <1>4 DEF InsertRedemption
    <2>2. paid[r] = 0
      BY <2>1 DEF LedgerIsExplained, NoTicket
    <2>. QED
      BY <1>4, <2>1, <2>2 DEF InsertRedemption, LedgerIsExplained
  <1>5. ASSUME NEW h \in Sessions, CommitDecision(h) PROVE LedgerIsExplained'
    <2>. DEFINE r == session[h].ticket
    <2>1. session[h].at \in Deciding
      BY <1>5 DEF CommitDecision, At, Deciding
    <2>2. /\ r \in Redemptions /\ ticket[r].item \in Items /\ paid[r] = 0
          /\ ticket[r] \in [state: Open \union Terminal, student: Students, item: Items]
      BY <2>1, DecidedIsOpen, TicketShapes DEF Ticket, NoTicket
    <2>3. /\ ticket'[r].state = session[h].to /\ ticket'[r].item = ticket[r].item
          /\ \A q \in Redemptions \ {r} : ticket'[q] = ticket[q]
      BY <1>5, <2>2 DEF CommitDecision
    <2>4. CASE session[h].to # "fulfilled"
      <3>1. UNCHANGED paid
        BY <1>5, <2>1, <2>4 DEF CommitDecision, DecisionsAreDue, At
      <3>. QED
        BY <1>5, <2>2, <2>3, <2>4, <3>1 DEF CommitDecision, LedgerIsExplained
    <2>5. CASE session[h].to = "fulfilled"
      <3>1. paid' = [paid EXCEPT ![r] = @ + Cost[ticket[r].item]]
        BY <1>5, <2>5 DEF CommitDecision, Debit
      <3>2. Cost[ticket[r].item] \in Nat
        BY <2>2, RewardsAssumption
      <3>3. paid'[r] = Cost[ticket[r].item]
        BY <2>2, <3>1, <3>2
      <3>4. \A q \in Redemptions \ {r} : paid'[q] = paid[q]
        BY <3>1
      <3>. QED
        BY <1>5, <2>2, <2>3, <2>5, <3>3, <3>4 DEF CommitDecision, LedgerIsExplained
    <2>. QED
      BY <2>4, <2>5
  <1>. QED
    BY <1>1, <1>2, <1>3, <1>4, <1>5
    DEF Next, BeginReversal, Ask, LockTicket, ReadBack, FoldBalance, Abort

(* The step of a ticket that is decided: from open, by a transition.       *)
LEMMA TicketsMove ==
  ASSUME RewardsInv, Next, NEW r \in Redemptions
  PROVE  \/ ticket'[r] = ticket[r]
         \/ ticket[r] = NoTicket /\ ticket'[r].state = "requested"
         \/ /\ ticket[r] # NoTicket
            /\ <<ticket[r].state, ticket'[r].state>> \in Transitions
            /\ ticket'[r].student = ticket[r].student /\ ticket'[r].item = ticket[r].item
  <1>. USE DEF RewardsInv, TypeOK
  <1>1. CASE ticket' = ticket
    BY <1>1
  <1>2. ASSUME NEW h \in Sessions, InsertRedemption(h)
        PROVE  \/ ticket'[r] = ticket[r]
               \/ ticket[r] = NoTicket /\ ticket'[r].state = "requested"
    <2>1. PICK n \in Redemptions :
            /\ ticket[n] = NoTicket /\ ticket'[n].state = "requested"
            /\ \A u \in Redemptions \ {n} : ticket'[u] = ticket[u]
      BY <1>2 DEF InsertRedemption
    <2>2. CASE r = n
      BY <2>1, <2>2
    <2>3. CASE r # n
      BY <2>1, <2>3
    <2>. QED
      BY <2>2, <2>3
  <1>3. ASSUME NEW h \in Sessions, CommitDecision(h), r = session[h].ticket
        PROVE  /\ ticket[r] # NoTicket
               /\ <<ticket[r].state, ticket'[r].state>> \in Transitions
               /\ ticket'[r].student = ticket[r].student /\ ticket'[r].item = ticket[r].item
    <2>1. session[h].at \in Deciding
      BY <1>3 DEF CommitDecision, At, Deciding
    <2>2. /\ ticket[r] # NoTicket
          /\ ticket[r] \in [state: Open \union Terminal, student: Students, item: Items]
      BY <1>3, <2>1, DecidedIsOpen, TicketShapes DEF Ticket
    <2>3. <<ticket[r].state, session[h].to>> \in Transitions
      BY <1>3, <2>1 DEF DecisionsAreDue
    <2>4. ticket'[r] = [ticket[r] EXCEPT !.state = session[h].to]
      BY <1>3 DEF CommitDecision
    <2>. QED
      BY <2>2, <2>3, <2>4
  <1>4. ASSUME NEW h \in Sessions, CommitDecision(h), r # session[h].ticket
        PROVE  ticket'[r] = ticket[r]
    BY <1>4 DEF CommitDecision
  <1>. QED
    BY <1>1, <1>2, <1>3, <1>4
    DEF Next, RecordAttendance, BeginReversal, CommitReversal, Ask, LockTicket, ReadBack,
        FoldBalance, Abort

(* The index lets no second ticket in, and no ticket reopens.           *)
LEMMA TicketsKept ==
  ASSUME RewardsInv, Next
  PROVE  OneTicketPerItem'
  <1>. SUFFICES ASSUME NEW s \in Students, NEW i \in Items,
                       NEW q \in Redemptions, NEW r \in Redemptions,
                       q \in InFlight(s, i)', r \in InFlight(s, i)'
                PROVE  q = r
    BY DEF OneTicketPerItem
  <1>1. ASSUME NEW t \in Redemptions, t \in InFlight(s, i)', ticket[t] # NoTicket
        PROVE  t \in InFlight(s, i)
    BY <1>1, TicketsMove, TicketShapes
    DEF InFlight, TicketsOf, Transitions, Terminal, NoTicket
  <1>2. CASE ticket[q] # NoTicket /\ ticket[r] # NoTicket
    BY <1>1, <1>2 DEF RewardsInv, OneTicketPerItem
  <1>3. ASSUME NEW t \in Redemptions, t \in InFlight(s, i)', ticket[t] = NoTicket
        PROVE  InFlight(s, i)' = {t}
    <2>1. ticket'[t] # ticket[t]
      BY <1>3 DEF InFlight, TicketsOf
    <2>2. PICK h \in Sessions : InsertRedemption(h)
      <3>1. ASSUME NEW h \in Sessions, CommitDecision(h) PROVE ticket'[t] = ticket[t]
        <4>1. session[h].at \in Deciding
          BY <3>1 DEF CommitDecision, At, Deciding
        <4>2. t # session[h].ticket
          BY <1>3, <4>1, DecidedIsOpen
        <4>. QED
          BY <3>1, <4>2 DEF CommitDecision, RewardsInv, TypeOK
      <3>. QED
        BY <2>1, <3>1
        DEF Next, RecordAttendance, BeginReversal, CommitReversal, Ask, LockTicket, ReadBack,
            FoldBalance, Abort
    <2>3. PICK n \in Redemptions :
            /\ ticket[n] = NoTicket
            /\ ticket' = [ticket EXCEPT ![n] =
                 [state |-> "requested", student |-> session[h].student, item |-> session[h].item]]
      BY <2>2 DEF InsertRedemption
    <2>4. n = t
      BY <2>1, <2>3 DEF RewardsInv, TypeOK
    <2>5. session[h].student = s /\ session[h].item = i
      BY <1>3, <2>3, <2>4 DEF InFlight, TicketsOf, RewardsInv, TypeOK
    <2>6. OpenTickets(s, i) = {}
      BY <2>2, <2>5 DEF InsertRedemption
    <2>7. InFlight(s, i) = {}
      BY <2>6, TicketShapes DEF OpenTickets, InFlight, TicketsOf, RewardsInv
    <2>8. \A u \in Redemptions \ {t} : ticket'[u] = ticket[u]
      BY <2>3, <2>4 DEF RewardsInv, TypeOK
    <2>. QED
      BY <1>3, <2>7, <2>8 DEF InFlight, TicketsOf
  <1>. QED
    BY <1>2, <1>3

-----------------------------------------------------------------------------

(* The invariant holds.                                                 *)
LEMMA InvHolds == Spec => []RewardsInv
  <1>1. Init => RewardsInv
    <2>. SUFFICES ASSUME Init PROVE RewardsInv
      OBVIOUS
    <2>1. TypeOK
      BY DEF Init, TypeOK, Ticket, Session
    <2>2. \A h \in Sessions : session[h].at = "idle"
      BY DEF Init, Idle
    <2>3. LocksHeld /\ ReversalsAreDue /\ DecisionsAreDue
      BY <2>2 DEF LocksHeld, ReversalsAreDue, DecisionsAreDue, At, Deciding
    <2>4. LedgerIsExplained
      BY DEF Init, LedgerIsExplained, NoTicket
    <2>5. OneTicketPerItem
      BY DEF Init, OneTicketPerItem, InFlight, TicketsOf
    <2>. QED
      BY <2>1, <2>3, <2>4, <2>5 DEF RewardsInv
  <1>2. RewardsInv /\ [Next]_vars => RewardsInv'
    <2>1. RewardsInv /\ Next => RewardsInv'
      BY TypesKept, LocksKept, ReversalsKept, DecisionsKept, LedgerKept, TicketsKept
      DEF RewardsInv
    <2>2. RewardsInv /\ UNCHANGED vars => RewardsInv'
      BY DEF vars, RewardsInv, TypeOK, LocksHeld, ReversalsAreDue, DecisionsAreDue, At,
         LedgerIsExplained, OneTicketPerItem, InFlight, TicketsOf
    <2>. QED
      BY <2>1, <2>2
  <1>. QED
    BY <1>1, <1>2, PTL DEF Spec

(* Every table and every transaction keeps its type.                       *)
THEOREM RewardsTypeCorrect == Spec => []TypeOK
  BY InvHolds, PTL DEF RewardsInv

(* The ledger says of every attendance and every ticket what happened to   *)
(* it, once, for any number of students, tickets and sessions.             *)
THEOREM LedgerExplained == Spec => []LedgerIsExplained
  BY InvHolds, PTL DEF RewardsInv

(* A student has one ticket in flight for a reward.                        *)
THEOREM OneTicketInFlight == Spec => []OneTicketPerItem
  BY InvHolds, PTL DEF RewardsInv

(* Closed tickets stay closed, and only approved ones are handed over.     *)
THEOREM DecisionsAlwaysStand == Spec => DecisionsStand
  <1>. DEFINE A == \A r \in Redemptions :
         /\ ticket[r].state \in Terminal => ticket'[r] = ticket[r]
         /\ ticket'[r].state = "fulfilled" => ticket[r].state \in {"approved", "fulfilled"}
  <1>1. RewardsInv /\ [Next]_vars => [A]_vars
    <2>1. ASSUME RewardsInv, Next PROVE A
      BY <2>1, TicketsMove DEF Transitions, Terminal, NoTicket
    <2>. QED
      BY <2>1
  <1>. QED
    BY <1>1, InvHolds, PTL DEF Spec, DecisionsStand

-----------------------------------------------------------------------------
(* Points *)

(* The entries that are summed are finitely many points.                   *)
Counted(s) ==
  /\ IsFiniteSet(Units(Earnings(s))) /\ IsFiniteSet(Units(Corrections(s)))
  /\ IsFiniteSet(Units(Payments(s))) /\ IsFiniteSet(Units(Promises(s)))

(* A decision that has found the points promises the price of its ticket.  *)
LEMMA PromiseTyped ==
  ASSUME RewardsInv, NEW s, NEW h \in Sessions
  PROVE  /\ Promises(s)[h] \in Nat
         /\ Promises(s)[h] # 0 =>
              /\ At(h, "covered") /\ session[h].ticket \in Redemptions
              /\ ticket[session[h].ticket].student = s
              /\ ticket[session[h].ticket].item \in Items
              /\ Promises(s)[h] = Cost[ticket[session[h].ticket].item]
  <1>1. CASE h \in Deciders(s)
    <2>1. session[h].at \in Deciding
      BY <1>1 DEF Deciders, At, Deciding
    <2>2. session[h].ticket \in Redemptions /\ ticket[session[h].ticket].item \in Items
      BY <2>1, DecidedIsOpen
    <2>3. Promises(s)[h] = Cost[ticket[session[h].ticket].item]
      BY <1>1 DEF Promises
    <2>. QED
      BY <1>1, <2>2, <2>3, RewardsAssumption DEF Deciders
  <1>2. CASE h \notin Deciders(s)
    BY <1>2 DEF Promises
  <1>. QED
    BY <1>1, <1>2

(* Amounts are natural numbers, ...                                        *)
LEMMA EntriesTyped ==
  ASSUME RewardsInv, NEW s
  PROVE  /\ Earnings(s) \in [Attendances -> Nat]
         /\ Corrections(s) \in [Attendances -> Nat]
         /\ Payments(s) \in [Redemptions -> Nat]
         /\ Promises(s) \in [Sessions -> Nat]
  <1>1. \A h \in Sessions : Promises(s)[h] \in Nat
    BY PromiseTyped
  <1>2. Promises(s) = [h \in Sessions |-> Promises(s)[h]]
    BY DEF Promises
  <1>3. Promises(s) \in [Sessions -> Nat]
    BY <1>1, <1>2
  <1>. QED
    BY <1>3 DEF RewardsInv, TypeOK, Earnings, Corrections, Payments

(* ... and still are after a step.                                         *)
LEMMA EntriesStayTyped ==
  ASSUME RewardsInv, Next, NEW s
  PROVE  /\ Earnings(s)' \in [Attendances -> Nat]
         /\ Corrections(s)' \in [Attendances -> Nat]
         /\ Payments(s)' \in [Redemptions -> Nat]
         /\ DOMAIN Promises(s)' = Sessions
         /\ Promises(s)' = [h \in Sessions |-> Promises(s)'[h]]
  <1>1. TypeOK'
    BY TypesKept
  <1>. QED
    BY <1>1 DEF TypeOK, Earnings, Corrections, Payments, Promises

(* A ticket that is not debited costs its student what it did.             *)
LEMMA PaymentStays ==
  ASSUME RewardsInv, Next, NEW s, NEW r \in Redemptions, paid'[r] = paid[r]
  PROVE  Payments(s)'[r] = Payments(s)[r]
  <1>1. CASE ticket[r] = NoTicket
    <2>1. paid[r] = 0
      BY <1>1 DEF RewardsInv, LedgerIsExplained, NoTicket
    <2>. QED
      BY <2>1 DEF Payments
  <1>2. CASE ticket'[r] = ticket[r]
    BY <1>2 DEF Payments, TicketsOf
  <1>3. CASE /\ ticket[r] # NoTicket
             /\ <<ticket[r].state, ticket'[r].state>> \in Transitions
             /\ ticket'[r].student = ticket[r].student
    <2>1. ticket'[r] # NoTicket
      BY <1>3 DEF Transitions, NoTicket
    <2>. QED
      BY <1>3, <2>1 DEF Payments, TicketsOf
  <1>. QED
    BY <1>1, <1>2, <1>3, TicketsMove

(* The promise of a session is no other session's business.                *)
LEMMA PromiseStays ==
  ASSUME RewardsInv, Next, NEW s, NEW g \in Sessions, session'[g] = session[g]
  PROVE  Promises(s)'[g] = Promises(s)[g]
  <1>1. CASE At(g, "covered")
    <2>. DEFINE r == session[g].ticket
    <2>1. session[g].at \in Deciding
      BY <1>1 DEF At, Deciding
    <2>2. r \in Redemptions /\ ticket[r] # NoTicket
      BY <2>1, DecidedIsOpen
    <2>3. ticket'[r].student = ticket[r].student /\ ticket'[r].item = ticket[r].item
      BY <2>2, TicketsMove
    <2>. QED
      BY <2>3 DEF Promises, Deciders, At
  <1>2. CASE ~ At(g, "covered")
    BY <1>2 DEF Promises, Deciders, At
  <1>. QED
    BY <1>1, <1>2

(* What a step may do to the entries of a student: ... *)
EarningsStay(s) == Earnings(s)' = Earnings(s)
CorrectionsStay(s) == Corrections(s)' = Corrections(s)
PaymentsStay(s) == Payments(s)' = Payments(s)

(* ... an attendance earns, *)
Earns(s) ==
  /\ CorrectionsStay(s) /\ PaymentsStay(s) /\ Promises(s)' = Promises(s)
  /\ \E a \in Attendances :
       /\ \A b \in Attendances \ {a} : Earnings(s)'[b] = Earnings(s)[b]
       /\ Earnings(s)'[a] >= Earnings(s)[a]

(* a correction takes back, *)
TakesBack(s) ==
  /\ EarningsStay(s) /\ PaymentsStay(s) /\ Promises(s)' = Promises(s)
  /\ \E a \in Attendances : \A b \in Attendances \ {a} : Corrections(s)'[b] = Corrections(s)[b]

OthersPromise(s, h) == \A g \in Sessions \ {h} : Promises(s)'[g] = Promises(s)[g]

(* a session promises nothing any more,                                    *)
LetsGo(s) ==
  /\ EarningsStay(s) /\ CorrectionsStay(s) /\ PaymentsStay(s)
  /\ \E h \in Sessions : OthersPromise(s, h) /\ Promises(s)'[h] = 0

(* a session promises what the balance covers,                             *)
MakesPromise(s) ==
  /\ EarningsStay(s) /\ CorrectionsStay(s) /\ PaymentsStay(s)
  /\ \E h \in Sessions :
       /\ OthersPromise(s, h)
       /\ Promises(s)[h] = 0
       /\ Promises(s)'[h] \in Nat
       /\ Promises(s)'[h] # 0 => Balance(s) >= Promises(s)'[h]

(* or pays what it promised.                                               *)
KeepsPromise(s) ==
  /\ EarningsStay(s) /\ CorrectionsStay(s)
  /\ \E h \in Sessions, r \in Redemptions :
       /\ OthersPromise(s, h) /\ Promises(s)'[h] = 0
       /\ \A q \in Redemptions \ {r} : Payments(s)'[q] = Payments(s)[q]
       /\ Payments(s)'[r] = Payments(s)[r] + Promises(s)[h]

(* Every step is one of these for every student.                           *)
LEMMA EntriesMove ==
  ASSUME RewardsInv, Next, NEW s \in Students
  PROVE  Earns(s) \/ TakesBack(s) \/ LetsGo(s) \/ MakesPromise(s) \/ KeepsPromise(s)
  <1>. USE DEF RewardsInv, TypeOK
  <1>1. ASSUME UNCHANGED paid PROVE PaymentsStay(s)
    <2>1. \A r \in Redemptions : Payments(s)'[r] = Payments(s)[r]
      BY <1>1, PaymentStays
    <2>. QED
      BY <2>1, EntriesTyped, EntriesStayTyped DEF PaymentsStay
  <1>2. ASSUME UNCHANGED credited PROVE EarningsStay(s)
    BY <1>2 DEF EarningsStay, Earnings
  <1>3. ASSUME UNCHANGED withdrawn PROVE CorrectionsStay(s)
    BY <1>3 DEF CorrectionsStay, Corrections
  <1>4. ASSUME NEW h \in Sessions, \A g \in Sessions \ {h} : session'[g] = session[g]
        PROVE  OthersPromise(s, h)
    BY <1>4, PromiseStays DEF OthersPromise
  <1>5. ASSUME NEW h \in Sessions, ~ At(h, "covered")' PROVE Promises(s)'[h] = 0
    BY <1>5 DEF Promises, Deciders
  <1>6. ASSUME NEW h \in Sessions, \A g \in Sessions \ {h} : session'[g] = session[g],
               ~ At(h, "covered")', UNCHANGED <<credited, withdrawn, paid>>
        PROVE  LetsGo(s)
    BY <1>1, <1>2, <1>3, <1>4, <1>5, <1>6 DEF LetsGo
  <1>7. ASSUME NEW a \in Attendances, RecordAttendance(a) PROVE Earns(s)
    <2>1. PaymentsStay(s) /\ CorrectionsStay(s)
      BY <1>1, <1>3, <1>7 DEF RecordAttendance
    <2>2. Promises(s)' = Promises(s)
      BY <1>7 DEF RecordAttendance, Promises, Deciders, At
    <2>3. \A b \in Attendances \ {a} : Earnings(s)'[b] = Earnings(s)[b]
      BY <1>7 DEF RecordAttendance, Earnings
    <2>4. credited[a] \in Nat /\ credited'[a] = credited[a] + Points /\ Points \in Nat
      BY <1>7, RewardsAssumption DEF RecordAttendance
    <2>5. credited'[a] >= credited[a]
      BY <2>4
    <2>6. Earnings(s)'[a] >= Earnings(s)[a]
      BY <2>5 DEF Earnings
    <2>. QED
      BY <2>1, <2>2, <2>3, <2>6 DEF Earns
  <1>8. ASSUME NEW h \in Sessions, CommitReversal(h) PROVE TakesBack(s)
    <2>1. PaymentsStay(s) /\ EarningsStay(s)
      BY <1>1, <1>2, <1>8 DEF CommitReversal
    <2>2. session[h].attendance \in Attendances
      BY <1>8, SessionShapes DEF CommitReversal
    <2>3. \A b \in Attendances \ {session[h].attendance} :
            Corrections(s)'[b] = Corrections(s)[b]
      BY <1>8 DEF CommitReversal, Corrections
    <2>4. /\ \A g \in Sessions \ {h} : session'[g] = session[g]
          /\ ~ At(h, "covered") /\ ~ At(h, "covered")'
      BY <1>8, EndingFreesLocks DEF CommitReversal, At, Idle
    <2>5. Promises(s)' = Promises(s)
      <3>1. \A g \in Sessions \ {h} : Promises(s)'[g] = Promises(s)[g]
        BY <2>4, PromiseStays
      <3>2. Promises(s)'[h] = 0 /\ Promises(s)[h] = 0
        BY <2>4 DEF Promises, Deciders
      <3>. QED
        BY <3>1, <3>2, EntriesTyped, EntriesStayTyped
    <2>. QED
      BY <2>1, <2>2, <2>3, <2>5 DEF TakesBack
  <1>9. ASSUME NEW h \in Sessions, NEW a \in Reversible, BeginReversal(h, a) PROVE LetsGo(s)
    <2>1. session'[h].at = "reversing" /\ \A g \in Sessions \ {h} : session'[g] = session[g]
      BY <1>9 DEF BeginReversal, Goes
    <2>. QED
      BY <1>6, <1>9, <2>1 DEF BeginReversal, At
  <1>10. ASSUME NEW h \in Sessions, NEW i \in Items, NEW t \in Students, Ask(h, t, i)
         PROVE  LetsGo(s)
    <2>1. session'[h].at = "asking" /\ \A g \in Sessions \ {h} : session'[g] = session[g]
      BY <1>10 DEF Ask, Goes
    <2>. QED
      BY <1>6, <1>10, <2>1 DEF Ask, At
  <1>11. ASSUME NEW h \in Sessions, NEW r \in Redemptions, NEW to \in Decisions,
                LockTicket(h, r, to)
         PROVE  LetsGo(s)
    <2>1. session'[h].at = "deciding" /\ \A g \in Sessions \ {h} : session'[g] = session[g]
      BY <1>11 DEF LockTicket, Goes
    <2>. QED
      BY <1>6, <1>11, <2>1 DEF LockTicket, At
  <1>12. ASSUME NEW h \in Sessions, Ends(h)
         PROVE  /\ ~ At(h, "covered")'
                /\ \A g \in Sessions \ {h} : session'[g] = session[g]
    BY <1>12, EndingFreesLocks DEF At, Idle
  <1>13. ASSUME NEW h \in Sessions, InsertRedemption(h) \/ ReadBack(h) \/ Abort(h)
         PROVE  LetsGo(s)
    BY <1>6, <1>12, <1>13 DEF InsertRedemption, ReadBack, Abort
  <1>14. ASSUME NEW h \in Sessions, FoldBalance(h) PROVE MakesPromise(s)
    <2>. DEFINE r == session[h].ticket
    <2>1. session[h].at \in Deciding /\ ~ At(h, "covered")
      BY <1>14 DEF FoldBalance, At, Deciding
    <2>2. session[h] \in [at: Deciding, ticket: Redemptions, to: Decisions]
      BY <2>1, SessionShapes DEF Session, Idle, Deciding
    <2>3. /\ session'[h].at = "covered" /\ session'[h].ticket = r /\ ticket' = ticket
          /\ \A g \in Sessions \ {h} : session'[g] = session[g]
      BY <1>14, <2>2 DEF FoldBalance
    <2>4. OthersPromise(s, h) /\ Promises(s)[h] = 0
      BY <1>4, <2>1, <2>3 DEF Promises, Deciders
    <2>5. Promises(s)'[h] = IF ticket[r].student = s THEN Cost[ticket[r].item] ELSE 0
      BY <2>3 DEF Promises, Deciders, At
    <2>6. Cost[ticket[r].item] \in Nat
      BY <2>1, DecidedIsOpen, RewardsAssumption
    <2>7. Balance(ticket[r].student) >= Cost[ticket[r].item]
      BY <1>14 DEF FoldBalance, Affordable
    <2>8. EarningsStay(s) /\ CorrectionsStay(s) /\ PaymentsStay(s)
      BY <1>1, <1>2, <1>3, <1>14 DEF FoldBalance
    <2>. QED
      BY <2>4, <2>5, <2>6, <2>7, <2>8 DEF MakesPromise
  <1>15. ASSUME NEW h \in Sessions, CommitDecision(h), At(h, "covered") PROVE KeepsPromise(s)
    <2>. DEFINE r == session[h].ticket
    <2>1. session[h].at \in Deciding
      BY <1>15 DEF At, Deciding
    <2>2. /\ r \in Redemptions /\ ticket[r] # NoTicket /\ paid[r] = 0 /\ ticket[r].item \in Items
      BY <2>1, DecidedIsOpen
    <2>3. paid' = [paid EXCEPT ![r] = @ + Cost[ticket[r].item]]
      BY <1>15 DEF CommitDecision, Debit, At
    <2>4. Cost[ticket[r].item] \in Nat
      BY <2>2, RewardsAssumption
    <2>5. paid'[r] = Cost[ticket[r].item] /\ \A q \in Redemptions \ {r} : paid'[q] = paid[q]
      BY <2>2, <2>3, <2>4
    <2>6. \A q \in Redemptions \ {r} : Payments(s)'[q] = Payments(s)[q]
      BY <2>5, PaymentStays
    <2>7. ticket[r] \in [state: Open \union Terminal, student: Students, item: Items]
      BY <2>2, TicketShapes DEF Ticket
    <2>8. ticket'[r] # NoTicket /\ ticket'[r].student = ticket[r].student
      <3>1. ticket'[r] = [ticket[r] EXCEPT !.state = session[h].to]
        BY <1>15, <2>2 DEF CommitDecision
      <3>2. session[h].to = "fulfilled"
        BY <1>15, <2>1 DEF DecisionsAreDue
      <3>3. ticket'[r].state = "fulfilled"
        BY <2>7, <3>1, <3>2
      <3>. QED
        BY <2>7, <3>1, <3>3 DEF NoTicket
    <2>9. Payments(s)'[r] = IF ticket[r].student = s THEN Cost[ticket[r].item] ELSE 0
      BY <2>2, <2>5, <2>8 DEF Payments, TicketsOf
    <2>10. Payments(s)[r] = 0
      BY <2>2 DEF Payments
    <2>11. Promises(s)[h] = IF ticket[r].student = s THEN Cost[ticket[r].item] ELSE 0
      BY <1>15 DEF Promises, Deciders
    <2>12. Payments(s)'[r] = Payments(s)[r] + Promises(s)[h]
      BY <2>4, <2>9, <2>10, <2>11
    <2>13. OthersPromise(s, h) /\ Promises(s)'[h] = 0
      BY <1>4, <1>5, <1>12, <1>15 DEF CommitDecision
    <2>14. EarningsStay(s) /\ CorrectionsStay(s)
      BY <1>2, <1>3, <1>15 DEF CommitDecision
    <2>. QED
      BY <2>2, <2>6, <2>12, <2>13, <2>14 DEF KeepsPromise
  <1>16. ASSUME NEW h \in Sessions, CommitDecision(h), ~ At(h, "covered") PROVE LetsGo(s)
    BY <1>6, <1>12, <1>16 DEF CommitDecision
  <1>. QED
    BY <1>7, <1>8, <1>9, <1>10, <1>11, <1>13, <1>14, <1>15, <1>16 DEF Next


-----------------------------------------------------------------------------
(* Overdrafts *)

(* Of a decision that has not promised yet, the others promise at most the *)
(* dearest reward each.                                                    *)
LEMMA OthersAreBounded ==
  ASSUME RewardsInv, NEW s, NEW i \in Items, Dearest(i),
         NEW h \in Sessions, Promises(s)[h] = 0
  PROVE  Total(Promises(s)) <= (Cardinality(Sessions) - 1) * Cost[i]
  <1>1. Cost[i] \in Nat /\ IsFiniteSet(Sessions)
    BY RewardsAssumption
  <1>2. \A g \in Sessions : Promises(s)[g] \in 0 .. Cost[i]
    <2>. SUFFICES ASSUME NEW g \in Sessions PROVE Promises(s)[g] \in 0 .. Cost[i]
      OBVIOUS
    <2>1. CASE Promises(s)[g] = 0
      BY <1>1, <2>1
    <2>2. CASE Promises(s)[g] # 0
      <3>1. PICK k \in Items : Promises(s)[g] = Cost[k]
        BY <2>2, PromiseTyped
      <3>. QED
        BY <1>1, <3>1, RewardsAssumption DEF Dearest
    <2>. QED
      BY <2>1, <2>2
  <1>3. Promises(s) = [g \in Sessions |-> Promises(s)[g]]
    BY DEF Promises
  <1>4. Promises(s) \in [Sessions -> 0 .. Cost[i]]
    BY <1>2, <1>3
  <1>. QED
    BY <1>1, <1>4, TotalOfOthers

(* The bound, on the steps a student's entries take, where room is what    *)
(* the other decisions may promise.                                        *)
LEMMA PromisesKept ==
  ASSUME RewardsInv, Next, NEW s \in Students, Counted(s), NEW room \in Int,
         \A h \in Sessions :
           OthersPromise(s, h) /\ Promises(s)[h] = 0 /\ Promises(s)'[h] # 0
             => Total(Promises(s)) <= room,
         Total(Payments(s)) + Total(Promises(s)) <= Total(Earnings(s)) + room
  PROVE  /\ Counted(s)'
         /\ Total(Payments(s)') + Total(Promises(s)') <= Total(Earnings(s)') + room
  <1>. DEFINE earned == Total(Earnings(s))
              back == Total(Corrections(s))
              spent == Total(Payments(s))
              promised == Total(Promises(s))
  <1>2. earned \in Nat /\ back \in Nat /\ spent \in Nat /\ promised \in Nat
    BY FS_CardinalityType DEF Counted, Total
  <1>3. spent + promised <= earned + room
    OBVIOUS
  <1>4. CASE Earns(s)
    <2>1. PICK a \in Attendances :
            /\ \A b \in Attendances \ {a} : Earnings(s)'[b] = Earnings(s)[b]
            /\ Earnings(s)'[a] >= Earnings(s)[a]
      BY <1>4 DEF Earns
    <2>2. /\ IsFiniteSet(Units(Earnings(s)'))
          /\ Total(Earnings(s)') \in Nat
          /\ Total(Earnings(s)') = earned - Earnings(s)[a] + Earnings(s)'[a]
      <3>1. \A b \in Attendances : b # a => Earnings(s)'[b] = Earnings(s)[b]
        BY <2>1
      <3>2. Earnings(s) \in [Attendances -> Nat] /\ Earnings(s)' \in [Attendances -> Nat]
        BY EntriesTyped, EntriesStayTyped
      <3>3. IsFiniteSet(Units(Earnings(s)))
        BY DEF Counted
      <3>. QED
        BY <3>1, <3>2, <3>3, TotalMoves
    <2>3. Earnings(s)[a] \in Nat /\ Earnings(s)'[a] \in Nat
      BY EntriesTyped, EntriesStayTyped
    <2>4. Total(Earnings(s)') >= earned
      BY <1>2, <2>1, <2>2, <2>3
    <2>5. Counted(s)'
      BY <1>4, <2>2 DEF Earns, Counted, CorrectionsStay, PaymentsStay
    <2>6. Total(Payments(s)') = spent /\ Total(Promises(s)') = promised
      BY <1>4 DEF Earns, PaymentsStay
    <2>. HIDE DEF earned, spent, promised
    <2>7. Total(Payments(s)') + Total(Promises(s)') <= Total(Earnings(s)') + room
      BY <1>2, <1>3, <2>2, <2>4, <2>6
    <2>. QED
      BY <2>5, <2>7
  <1>5. CASE TakesBack(s)
    <2>1. PICK a \in Attendances :
            \A b \in Attendances \ {a} : Corrections(s)'[b] = Corrections(s)[b]
      BY <1>5 DEF TakesBack
    <2>2. IsFiniteSet(Units(Corrections(s)'))
      BY <2>1, TotalMoves, EntriesTyped, EntriesStayTyped DEF Counted
    <2>3. Counted(s)'
      BY <1>5, <2>2 DEF TakesBack, Counted, EarningsStay, PaymentsStay
    <2>. QED
      BY <1>3, <1>5, <2>3 DEF TakesBack, EarningsStay, PaymentsStay
  <1>6. ASSUME NEW h \in Sessions, OthersPromise(s, h), Promises(s)'[h] \in Nat
        PROVE  /\ IsFiniteSet(Units(Promises(s)'))
               /\ Promises(s)[h] \in Nat
               /\ Total(Promises(s)') \in Nat
               /\ Total(Promises(s)') = promised - Promises(s)[h] + Promises(s)'[h]
    <2>1. Promises(s)' \in [Sessions -> Nat]
      <3>1. \A g \in Sessions : Promises(s)'[g] \in Nat
        BY <1>6, EntriesTyped DEF OthersPromise
      <3>. QED
        BY <3>1, EntriesStayTyped
    <2>2. \A g \in Sessions : g # h => Promises(s)'[g] = Promises(s)[g]
      BY <1>6 DEF OthersPromise
    <2>. QED
      BY <1>6, <2>1, <2>2, TotalMoves, EntriesTyped DEF Counted
  <1>7. ASSUME EarningsStay(s), CorrectionsStay(s), PaymentsStay(s),
               IsFiniteSet(Units(Promises(s)'))
        PROVE  /\ Counted(s)'
               /\ Total(Payments(s)') = spent /\ Total(Earnings(s)') = earned
    BY <1>7 DEF Counted, EarningsStay, CorrectionsStay, PaymentsStay
  <1>8. CASE LetsGo(s)
    <2>1. PICK h \in Sessions : OthersPromise(s, h) /\ Promises(s)'[h] = 0
      BY <1>8 DEF LetsGo
    <2>2. /\ IsFiniteSet(Units(Promises(s)')) /\ Promises(s)[h] \in Nat
          /\ Total(Promises(s)') \in Nat
          /\ Total(Promises(s)') = promised - Promises(s)[h]
      BY <1>2, <1>6, <2>1
    <2>3. /\ Counted(s)'
          /\ Total(Payments(s)') = spent /\ Total(Earnings(s)') = earned
      BY <1>7, <1>8, <2>2 DEF LetsGo
    <2>. HIDE DEF earned, spent, promised
    <2>4. Total(Payments(s)') + Total(Promises(s)') <= Total(Earnings(s)') + room
      BY <1>2, <1>3, <2>2, <2>3
    <2>. QED
      BY <2>3, <2>4
  <1>9. CASE MakesPromise(s)
    <2>1. PICK h \in Sessions :
            /\ OthersPromise(s, h)
            /\ Promises(s)[h] = 0
            /\ Promises(s)'[h] \in Nat
            /\ Promises(s)'[h] # 0 => Balance(s) >= Promises(s)'[h]
      BY <1>9 DEF MakesPromise
    <2>2. /\ IsFiniteSet(Units(Promises(s)'))
          /\ Total(Promises(s)') \in Nat
          /\ Total(Promises(s)') = promised + Promises(s)'[h]
      BY <1>2, <1>6, <2>1
    <2>3. /\ Counted(s)'
          /\ Total(Payments(s)') = spent /\ Total(Earnings(s)') = earned
      BY <1>7, <1>9, <2>2 DEF MakesPromise
    <2>4. Promises(s)'[h] # 0 => promised <= room
      BY <2>1
    <2>5. Promises(s)'[h] # 0 => earned - back - spent >= Promises(s)'[h]
      BY <2>1 DEF Balance
    <2>. HIDE DEF earned, spent, promised, back
    <2>6. Total(Payments(s)') + Total(Promises(s)') <= Total(Earnings(s)') + room
      BY <1>2, <1>3, <2>1, <2>2, <2>3, <2>4, <2>5
    <2>. QED
      BY <2>3, <2>6
  <1>10. CASE KeepsPromise(s)
    <2>1. PICK h \in Sessions, r \in Redemptions :
            /\ OthersPromise(s, h) /\ Promises(s)'[h] = 0
            /\ \A q \in Redemptions \ {r} : Payments(s)'[q] = Payments(s)[q]
            /\ Payments(s)'[r] = Payments(s)[r] + Promises(s)[h]
      BY <1>10 DEF KeepsPromise
    <2>2. /\ IsFiniteSet(Units(Promises(s)')) /\ Promises(s)[h] \in Nat
          /\ Total(Promises(s)') \in Nat
          /\ Total(Promises(s)') = promised - Promises(s)[h]
      BY <1>2, <1>6, <2>1
    <2>3. /\ IsFiniteSet(Units(Payments(s)'))
          /\ Total(Payments(s)') \in Nat
          /\ Total(Payments(s)') = spent - Payments(s)[r] + Payments(s)'[r]
      <3>1. \A q \in Redemptions : q # r => Payments(s)'[q] = Payments(s)[q]
        BY <2>1
      <3>2. Payments(s) \in [Redemptions -> Nat] /\ Payments(s)' \in [Redemptions -> Nat]
        BY EntriesTyped, EntriesStayTyped
      <3>3. IsFiniteSet(Units(Payments(s)))
        BY DEF Counted
      <3>. QED
        BY <3>1, <3>2, <3>3, TotalMoves
    <2>4. Payments(s)[r] \in Nat
      BY EntriesTyped
    <2>5. Counted(s)' /\ Total(Earnings(s)') = earned
      BY <1>10, <2>2, <2>3 DEF KeepsPromise, Counted, EarningsStay, CorrectionsStay
    <2>. HIDE DEF earned, spent, promised
    <2>6. Total(Payments(s)') + Total(Promises(s)') <= Total(Earnings(s)') + room
      BY <1>2, <1>3, <2>1, <2>2, <2>3, <2>4, <2>5
    <2>. QED
      BY <2>5, <2>6
  <1>. QED
    BY <1>4, <1>5, <1>8, <1>9, <1>10, EntriesMove

(* Sums of finitely many points stay such sums.                            *)
LEMMA EntriesCounted ==
  ASSUME RewardsInv, Next, NEW s \in Students, Counted(s)
  PROVE  Counted(s)'
  <1>. DEFINE all == Total(Payments(s)) + Total(Promises(s))
  <1>1. /\ Total(Earnings(s)) \in Nat /\ Total(Payments(s)) \in Nat
        /\ Total(Promises(s)) \in Nat
    BY FS_CardinalityType DEF Counted, Total
  <1>2. /\ all \in Int /\ Total(Promises(s)) <= all
        /\ Total(Payments(s)) + Total(Promises(s)) <= Total(Earnings(s)) + all
    BY <1>1
  <1>. HIDE DEF all
  <1>. QED
    BY <1>2, PromisesKept

(* What the induction rests on.                                            *)
PointsInv == RewardsInv /\ PromisesBounded /\ \A s \in Students : Counted(s)

(* Nothing is earned, paid or promised at first.                           *)
LEMMA PointsStart ==
  ASSUME Init, RewardsInv
  PROVE  PromisesBounded /\ \A s \in Students : Counted(s)
  <1>. SUFFICES ASSUME NEW s \in Students
                PROVE  /\ Counted(s)
                       /\ \A i \in Items :
                            Total(Payments(s)) + Total(Promises(s))
                              <= Total(Earnings(s)) + (Cardinality(Sessions) - 1) * Cost[i]
    BY DEF PromisesBounded
  <1>1. /\ \A a \in DOMAIN Earnings(s) : Earnings(s)[a] = 0
        /\ \A a \in DOMAIN Corrections(s) : Corrections(s)[a] = 0
        /\ \A r \in DOMAIN Payments(s) : Payments(s)[r] = 0
        /\ \A h \in DOMAIN Promises(s) : Promises(s)[h] = 0
    BY DEF Init, Earnings, Corrections, Payments, Promises, Deciders, At, Idle
  <1>2. /\ Counted(s)
        /\ Total(Earnings(s)) = 0 /\ Total(Payments(s)) = 0 /\ Total(Promises(s)) = 0
    BY <1>1, TotalOfNothing DEF Counted
  <1>3. Cardinality(Sessions) - 1 \in Nat
    BY RewardsAssumption, FS_CardinalityType, FS_EmptySet
  <1>4. ASSUME NEW i \in Items
        PROVE  0 <= (Cardinality(Sessions) - 1) * Cost[i]
    BY <1>3, RewardsAssumption
  <1>. QED
    BY <1>2, <1>3, <1>4, RewardsAssumption

(* The invariant holds.                                                    *)
LEMMA PointsInvHolds == Spec => []PointsInv
  <1>1. Init /\ RewardsInv => PointsInv
    BY PointsStart DEF PointsInv
  <1>2. PointsInv /\ RewardsInv' /\ [Next]_vars => PointsInv'
    <2>1. ASSUME PointsInv, RewardsInv', Next PROVE PointsInv'
      <3>. USE <2>1 DEF PointsInv
      <3>1. ASSUME NEW s \in Students, NEW i \in Items, Dearest(i)
            PROVE  /\ Counted(s)'
                   /\ Total(Payments(s)') + Total(Promises(s)')
                        <= Total(Earnings(s)') + (Cardinality(Sessions) - 1) * Cost[i]
        <4>. DEFINE room == (Cardinality(Sessions) - 1) * Cost[i]
        <4>1. room \in Int
          BY RewardsAssumption, FS_CardinalityType
        <4>2. \A h \in Sessions : Promises(s)[h] = 0 => Total(Promises(s)) <= room
          BY <3>1, OthersAreBounded
        <4>3. Total(Payments(s)) + Total(Promises(s)) <= Total(Earnings(s)) + room
          BY <3>1 DEF PromisesBounded
        <4>4. Counted(s)
          OBVIOUS
        <4>. HIDE DEF room
        <4>5. /\ Counted(s)'
              /\ Total(Payments(s)') + Total(Promises(s)') <= Total(Earnings(s)') + room
          BY <4>1, <4>2, <4>3, <4>4, PromisesKept
        <4>. QED
          BY <4>5 DEF room
      <3>2. PromisesBounded'
        BY <3>1 DEF PromisesBounded, Dearest, Total
      <3>3. ASSUME NEW s \in Students PROVE Counted(s)'
        BY EntriesCounted
      <3>. QED
        BY <3>2, <3>3
    <2>2. PointsInv /\ RewardsInv' /\ UNCHANGED vars => PointsInv'
      BY DEF PointsInv, vars, PromisesBounded, Counted, Dearest, Earnings, Corrections, Payments,
         Promises, Deciders, TicketsOf, At
    <2>. QED
      BY <2>1, <2>2
  <1>. QED
    BY <1>1, <1>2, InvHolds, PTL DEF Spec

(* Decisions on several tickets of a student that overlap overdraw the     *)
(* account by what the others of them take, and by no more.                *)
THEOREM OverdraftAlwaysBounded == Spec => []OverdraftIsBounded
  <1>1. PointsInv => OverdraftIsBounded
    <2>. SUFFICES ASSUME PointsInv, NEW s \in Students, NEW i \in Items, Dearest(i)
                  PROVE  Total(Payments(s))
                           <= Total(Earnings(s)) + (Cardinality(Sessions) - 1) * Cost[i]
      BY DEF OverdraftIsBounded
    <2>1. /\ Total(Earnings(s)) \in Nat /\ Total(Payments(s)) \in Nat
          /\ Total(Promises(s)) \in Nat
      BY FS_CardinalityType DEF PointsInv, Counted, Total
    <2>2. (Cardinality(Sessions) - 1) * Cost[i] \in Int
      BY RewardsAssumption, FS_CardinalityType
    <2>3. Total(Payments(s)) + Total(Promises(s))
            <= Total(Earnings(s)) + (Cardinality(Sessions) - 1) * Cost[i]
      BY DEF PointsInv, PromisesBounded
    <2>. QED
      BY <2>1, <2>2, <2>3
  <1>. QED
    BY <1>1, PointsInvHolds, PTL

-----------------------------------------------------------------------------
(* The book *)

(* What the ledger's entries add up to is what the book says.              *)
LEMMA BookTotals ==
  ASSUME RewardsInv, NEW s
  PROVE  Book!Earned(s) = Total(Earnings(s)) /\ Book!Spent(s) = Total(Payments(s))
  <1>. USE DEF RewardsInv
  <1>1. Earnings(s) =
          [a \in Book!Attendances |->
             IF a[1] = s /\ Standing[a] # "none" THEN Points ELSE 0]
    <2>1. \A a \in Attendances : credited[a] = 0 \/ credited[a] = Points
      BY DEF LedgerIsExplained
    <2>2. Points # 0
      BY RewardsAssumption
    <2>. QED
      BY <2>1, <2>2 DEF Earnings, Standing, Attendances, Book!Attendances
  <1>2. Payments(s) =
          [r \in Redemptions |->
             IF ticket[r].state = "fulfilled" /\ ticket[r].student = s
             THEN Cost[ticket[r].item] ELSE 0]
    <2>. SUFFICES ASSUME NEW r \in Redemptions
                  PROVE  Payments(s)[r] =
                           IF ticket[r].state = "fulfilled" /\ ticket[r].student = s
                           THEN Cost[ticket[r].item] ELSE 0
      BY DEF Payments
    <2>1. paid[r] = IF ticket[r].state = "fulfilled" THEN Cost[ticket[r].item] ELSE 0
      BY DEF LedgerIsExplained
    <2>2. ticket[r].state = "fulfilled" => ticket[r] # NoTicket
      BY DEF NoTicket
    <2>. QED
      BY <2>1, <2>2 DEF Payments, TicketsOf
  <1>3. ASSUME NEW f PROVE Book!Total(f) = Total(f)
    BY DEF Book!Total, Book!Units, Book!Cardinality, Total, Units, Cardinality
  <1>4. Book!Earned(s) = Book!Total(Earnings(s))
    BY <1>1 DEF Book!Earned
  <1>5. Book!Spent(s) = Book!Total(Payments(s))
    BY <1>2 DEF Book!Spent
  <1>. QED
    BY <1>3, <1>4, <1>5

(* What a student earned only grows.                                       *)
LEMMA EarningsGrow ==
  ASSUME RewardsInv, Next, NEW s \in Students, Counted(s)
  PROVE  /\ Total(Earnings(s)) \in Nat /\ Total(Earnings(s)') \in Nat
         /\ Total(Earnings(s)) <= Total(Earnings(s)')
  <1>1. Total(Earnings(s)) \in Nat
    BY FS_CardinalityType DEF Counted, Total
  <1>2. CASE EarningsStay(s)
    BY <1>1, <1>2 DEF EarningsStay
  <1>3. CASE Earns(s)
    <2>1. PICK a \in Attendances :
            /\ \A b \in Attendances \ {a} : Earnings(s)'[b] = Earnings(s)[b]
            /\ Earnings(s)'[a] >= Earnings(s)[a]
      BY <1>3 DEF Earns
    <2>2. \A b \in Attendances : b # a => Earnings(s)'[b] = Earnings(s)[b]
      BY <2>1
    <2>3. Earnings(s) \in [Attendances -> Nat] /\ Earnings(s)' \in [Attendances -> Nat]
      BY EntriesTyped, EntriesStayTyped
    <2>4. IsFiniteSet(Units(Earnings(s)))
      BY DEF Counted
    <2>5. /\ Total(Earnings(s)') \in Nat
          /\ Total(Earnings(s)') = Total(Earnings(s)) - Earnings(s)[a] + Earnings(s)'[a]
      BY <2>2, <2>3, <2>4, TotalMoves
    <2>6. Earnings(s)[a] \in Nat /\ Earnings(s)'[a] \in Nat
      BY <2>3
    <2>. QED
      BY <1>1, <2>1, <2>5, <2>6
  <1>. QED
    BY <1>2, <1>3, EntriesMove DEF TakesBack, LetsGo, MakesPromise, KeepsPromise

(* A request that found the points for its reward still has earned them    *)
(* when its ticket is written.                                             *)
LEMMA AsksKept ==
  ASSUME PointsInv, AsksAreEarned, Next
  PROVE  AsksAreEarned'
  <1>. USE DEF PointsInv, RewardsInv
  <1>. SUFFICES ASSUME NEW h \in Sessions, At(h, "asking")'
                PROVE  (Cost[session[h].item] <= Total(Earnings(session[h].student)))'
    BY DEF AsksAreEarned
  <1>1. ASSUME session'[h] = session[h]
        PROVE  \E s \in Students, i \in Items :
                 /\ session'[h].student = s /\ session'[h].item = i
                 /\ Cost[i] <= Total(Earnings(s)')
    <2>1. At(h, "asking")
      BY <1>1 DEF At
    <2>2. PICK s \in Students, i \in Items :
            session[h].student = s /\ session[h].item = i
      BY <2>1, SessionShapes
    <2>3. Cost[i] <= Total(Earnings(s))
      BY <2>1, <2>2 DEF AsksAreEarned
    <2>4. Cost[i] \in Nat
      BY RewardsAssumption
    <2>5. /\ Total(Earnings(s)) \in Nat /\ Total(Earnings(s)') \in Nat
          /\ Total(Earnings(s)) <= Total(Earnings(s)')
      BY EarningsGrow
    <2>6. Cost[i] <= Total(Earnings(s)')
      BY <2>3, <2>4, <2>5
    <2>. QED
      BY <1>1, <2>2, <2>6
  <1>2. ASSUME NEW s \in Students, NEW i \in Items, Ask(h, s, i)
        PROVE  /\ session'[h].student = s /\ session'[h].item = i
               /\ Cost[i] <= Total(Earnings(s)')
    <2>1. session'[h].item = i /\ session'[h].student = s
      BY <1>2 DEF Ask, Goes, TypeOK
    <2>2. Earnings(s)' = Earnings(s)
      BY <1>2 DEF Ask, Earnings
    <2>3. Cost[i] \in Nat
      BY RewardsAssumption
    <2>4. Total(Earnings(s)) - Total(Corrections(s)) - Total(Payments(s)) >= Cost[i]
      BY <1>2 DEF Ask, Balance
    <2>5. /\ Total(Earnings(s)) \in Nat /\ Total(Corrections(s)) \in Nat
          /\ Total(Payments(s)) \in Nat
      BY FS_CardinalityType DEF Counted, Total
    <2>6. Cost[i] <= Total(Earnings(s))
      BY <2>3, <2>4, <2>5
    <2>. QED
      BY <2>1, <2>2, <2>6
  <1>3. ASSUME NEW g \in Sessions, NEW next, Goes(g, next), next.at # "asking"
        PROVE  session'[h] = session[h]
    BY <1>3 DEF Goes, At, TypeOK
  <1>4. ASSUME NEW g \in Sessions, Ends(g) PROVE session'[h] = session[h]
    BY <1>3, <1>4 DEF Ends, Idle
  <1>5. ASSUME NEW g \in Sessions, FoldBalance(g) PROVE session'[h] = session[h]
    <2>1. session[g].at \in Deciding
      BY <1>5 DEF FoldBalance, At, Deciding
    <2>2. session[g] \in [at: Deciding, ticket: Redemptions, to: Decisions]
      BY <2>1, SessionShapes DEF Session, Idle, Deciding
    <2>. QED
      BY <1>5, <2>2 DEF FoldBalance, At, TypeOK
  <1>6. ASSUME NEW g \in Sessions, NEW s \in Students, NEW i \in Items, Ask(g, s, i), g # h
        PROVE  session'[h] = session[h]
    BY <1>6 DEF Ask, Goes, TypeOK
  <1>7. \/ session'[h] = session[h]
        \/ \E s \in Students, i \in Items : Ask(h, s, i)
    <2>1. CASE \E a \in Attendances : RecordAttendance(a)
      BY <2>1 DEF RecordAttendance
    <2>2. CASE \E g \in Sessions, a \in Reversible : BeginReversal(g, a)
      BY <1>3, <2>2 DEF BeginReversal
    <2>3. CASE \E g \in Sessions, s \in Students, i \in Items : Ask(g, s, i)
      BY <1>6, <2>3
    <2>4. CASE \E g \in Sessions, r \in Redemptions, to \in Decisions : LockTicket(g, r, to)
      BY <1>3, <2>4 DEF LockTicket
    <2>5. CASE \E g \in Sessions : FoldBalance(g)
      BY <1>5, <2>5
    <2>6. CASE \E g \in Sessions : Ends(g)
      BY <1>4, <2>6
    <2>. QED
      BY <2>1, <2>2, <2>3, <2>4, <2>5, <2>6
      DEF Next, CommitReversal, InsertRedemption, ReadBack, CommitDecision, Abort
  <1>8. PICK s \in Students, i \in Items :
          /\ session'[h].student = s /\ session'[h].item = i
          /\ Cost[i] <= Total(Earnings(s)')
    BY <1>1, <1>2, <1>7
  <1>9. (Total(Earnings(session[h].student)))' = Total(Earnings(s)')
    BY <1>8 DEF Total, Units, Earnings
  <1>. QED
    BY <1>8, <1>9

(* What the refinement rests on.                                           *)
LEMMA BookInvHolds == Spec => [](PointsInv /\ AsksAreEarned)
  <1>1. Init => AsksAreEarned
    BY DEF Init, AsksAreEarned, At, Idle
  <1>2. AsksAreEarned /\ PointsInv /\ [Next]_vars => AsksAreEarned'
    <2>1. AsksAreEarned /\ UNCHANGED vars => AsksAreEarned'
      BY DEF vars, AsksAreEarned, Earnings, At
    <2>. QED
      BY <2>1, AsksKept
  <1>. QED
    BY <1>1, <1>2, PointsInvHolds, PTL DEF Spec

(* The steps of the book *)

(* A credit counts an attendance, ...                                      *)
LEMMA CreditCounts ==
  ASSUME RewardsInv, NEW a \in Attendances, RecordAttendance(a)
  PROVE  Book!Count(a)
  <1>. USE DEF RewardsInv, TypeOK
  <1>1. credited[a] = 0 /\ withdrawn[a] = 0
    BY DEF RecordAttendance, AlreadyCredited, LedgerIsExplained
  <1>2. credited' = [credited EXCEPT ![a] = Points] /\ withdrawn' = withdrawn /\ Points # 0
    BY <1>1, RewardsAssumption DEF RecordAttendance
  <1>3. Standing[a] = "none" /\ Standing' = [Standing EXCEPT ![a] = "counted"]
    BY <1>1, <1>2 DEF Standing
  <1>. QED
    BY <1>3 DEF Book!Count, RecordAttendance

(* ... a reversal corrects it, ...                                         *)
LEMMA ReversalCorrects ==
  ASSUME RewardsInv, NEW h \in Sessions, CommitReversal(h)
  PROVE  \E a \in Attendances : Book!Correct(a)
  <1>. USE DEF RewardsInv, TypeOK
  <1>1. PICK a \in Attendances : a = session[h].attendance
    BY SessionShapes DEF CommitReversal
  <1>2. credited[a] = Points /\ withdrawn[a] = 0 /\ session[h].net = Points /\ Points \in Nat \ {0}
    BY <1>1, RewardsAssumption DEF CommitReversal, ReversalsAreDue
  <1>3. credited' = credited /\ withdrawn' = [withdrawn EXCEPT ![a] = Points]
    BY <1>1, <1>2 DEF CommitReversal
  <1>4. ticket' = ticket
    BY DEF CommitReversal
  <1>5. Standing[a] = "counted" /\ Standing' = [Standing EXCEPT ![a] = "corrected"]
    BY <1>1, <1>2, <1>3 DEF Standing
  <1>6. Book!Correct(a)
    BY <1>4, <1>5 DEF Book!Correct
  <1>. QED
    BY <1>6

(* ... an insert opens a ticket, ...                                       *)
LEMMA InsertRequests ==
  ASSUME RewardsInv, AsksAreEarned, NEW h \in Sessions, InsertRedemption(h)
  PROVE  \E r \in Redemptions, s \in Students, i \in Items : Book!Request(r, s, i)
  <1>. USE DEF RewardsInv, TypeOK
  <1>. DEFINE s == session[h].student
              i == session[h].item
  <1>1. At(h, "asking") /\ s \in Students /\ i \in Items
    BY SessionShapes DEF InsertRedemption
  <1>2. Cost[i] <= Book!Earned(s)
    BY <1>1, BookTotals DEF AsksAreEarned
  <1>3. PICK r \in Redemptions :
          /\ ticket[r] = NoTicket
          /\ ticket' = [ticket EXCEPT ![r] =
                          [state |-> "requested", student |-> s, item |-> i]]
    BY DEF InsertRedemption
  <1>4. /\ OpenTickets(s, i) = {}
        /\ credited' = credited /\ withdrawn' = withdrawn
    BY DEF InsertRedemption
  <1>. HIDE DEF s, i
  <1>5. {Book!Opened(s, i), [Book!Opened(s, i) EXCEPT !.state = "approved"]}
          \cap {ticket[q] : q \in Redemptions} = {}
    <2>. SUFFICES ASSUME NEW q \in Redemptions,
                         \/ ticket[q] = Book!Opened(s, i)
                         \/ ticket[q] = [Book!Opened(s, i) EXCEPT !.state = "approved"]
                  PROVE  FALSE
      OBVIOUS
    <2>1. /\ ticket[q].student = s /\ ticket[q].item = i
          /\ ticket[q].state \in {"requested", "approved"}
      BY DEF Book!Opened
    <2>2. ticket[q] # NoTicket
      BY <2>1 DEF NoTicket
    <2>. QED
      BY <1>4, <2>1, <2>2 DEF OpenTickets, TicketsOf, Open
  <1>6. Book!Request(r, s, i)
    BY <1>2, <1>3, <1>4, <1>5 DEF Book!Request, Book!Opened, NoTicket, Standing
  <1>. QED
    BY <1>1, <1>6

(* ... a decision that hands nothing over answers it, ...                  *)
LEMMA DecisionAnswers ==
  ASSUME RewardsInv, NEW h \in Sessions, CommitDecision(h), ~ At(h, "covered")
  PROVE  \E r \in Redemptions, to \in {"approved", "denied"} : Book!Answer(r, to)
  <1>. USE DEF RewardsInv, TypeOK
  <1>. DEFINE r == session[h].ticket
              to == session[h].to
  <1>1. session[h].at \in Deciding /\ to # "fulfilled"
    BY DEF CommitDecision, At, Deciding
  <1>2. r \in Redemptions /\ to \in Decisions
    BY <1>1, SessionShapes
  <1>3. <<ticket[r].state, to>> \in Transitions
    BY <1>1 DEF DecisionsAreDue
  <1>4. ticket[r].state = "requested" /\ to \in {"approved", "denied"}
    BY <1>1, <1>2, <1>3 DEF Transitions, Decisions
  <1>5. /\ ticket' = [ticket EXCEPT ![r].state = to]
        /\ credited' = credited /\ withdrawn' = withdrawn
    BY DEF CommitDecision
  <1>6. Book!Answer(r, to)
    BY <1>4, <1>5 DEF Book!Answer, Standing
  <1>. QED
    BY <1>2, <1>4, <1>6

(* ... and one that found the points hands it over: its own promise is     *)
(* among those that are bounded.                                           *)
LEMMA DecisionHandsOver ==
  ASSUME PointsInv, NEW h \in Sessions, CommitDecision(h), At(h, "covered")
  PROVE  \E r \in Redemptions : Book!HandOver(r)
  <1>. USE DEF PointsInv, RewardsInv, TypeOK
  <1>. DEFINE r == session[h].ticket
              s == ticket[r].student
              i == ticket[r].item
  <1>1. session[h].at \in Deciding /\ session[h].to = "fulfilled"
    BY DEF DecisionsAreDue, At, Deciding
  <1>2. r \in Redemptions /\ ticket[r].state = "approved"
    BY <1>1, DecidedIsOpen DEF DecisionsAreDue, Transitions
  <1>3. s \in Students /\ i \in Items
    BY <1>2, TicketShapes DEF Open
  <1>4. Promises(s)[h] = Cost[i]
    BY DEF Promises, Deciders
  <1>5. /\ ticket' = [ticket EXCEPT ![r].state = "fulfilled"]
        /\ credited' = credited /\ withdrawn' = withdrawn
    BY <1>1 DEF CommitDecision
  <1>6. ASSUME NEW k \in Items, Dearest(k)
        PROVE  Book!Spent(s) + Cost[i] <= Book!Earned(s) + (Cardinality(Sessions) - 1) * Cost[k]
    <2>. DEFINE room == (Cardinality(Sessions) - 1) * Cost[k]
    <2>1. room \in Int
      BY RewardsAssumption, FS_CardinalityType
    <2>2. Total(Payments(s)) + Total(Promises(s)) <= Total(Earnings(s)) + room
      BY <1>3, <1>6 DEF PromisesBounded
    <2>3. IsFiniteSet(Units(Earnings(s))) /\ IsFiniteSet(Units(Payments(s)))
          /\ IsFiniteSet(Units(Promises(s)))
      BY <1>3 DEF Counted
    <2>4. Total(Earnings(s)) \in Nat /\ Total(Payments(s)) \in Nat
      BY <2>3, FS_CardinalityType DEF Total
    <2>5. Promises(s)[h] <= Total(Promises(s)) /\ Total(Promises(s)) \in Nat
      BY <2>3, EntriesTyped, TotalCovers
    <2>6. Book!Spent(s) = Total(Payments(s)) /\ Book!Earned(s) = Total(Earnings(s))
      BY BookTotals
    <2>7. Cost[i] \in Nat
      BY <1>3, RewardsAssumption
    <2>. HIDE DEF room, s, i
    <2>8. Book!Spent(s) + Cost[i] <= Book!Earned(s) + room
      BY <1>4, <2>1, <2>2, <2>4, <2>5, <2>6, <2>7
    <2>. QED
      BY <2>8 DEF room
  <1>7. Book!HandOver(r)
    BY <1>2, <1>5, <1>6 DEF Book!HandOver, Book!Dearest, Dearest, Standing
  <1>. QED
    BY <1>2, <1>7

(* Transactions implement the book: each commit is a step of it, and no    *)
(* read is.                                                                *)
THEOREM BookIsImplemented == Spec => ImplementsPointsBook
  <1>1. Init => Book!Init
    BY DEF Init, Book!Init, Book!Attendances, Attendances, NoTicket, Standing
  <1>2. PointsInv /\ AsksAreEarned /\ [Next]_vars => [Book!Next]_(Book!book)
    <2>. SUFFICES ASSUME PointsInv, AsksAreEarned, [Next]_vars
                  PROVE  Book!Next \/ UNCHANGED Book!book
      OBVIOUS
    <2>. USE DEF PointsInv
    <2>1. CASE UNCHANGED <<credited, withdrawn, ticket>>
      BY <2>1 DEF Book!book, Standing
    <2>2. CASE \E a \in Attendances : RecordAttendance(a)
      BY <2>2, CreditCounts DEF Book!Next, Book!Attendances, Attendances
    <2>3. CASE \E h \in Sessions : CommitReversal(h)
      BY <2>3, ReversalCorrects DEF Book!Next, Book!Attendances, Attendances
    <2>4. CASE \E h \in Sessions : InsertRedemption(h)
      BY <2>4, InsertRequests DEF Book!Next
    <2>5. CASE \E h \in Sessions : CommitDecision(h)
      BY <2>5, DecisionAnswers, DecisionHandsOver DEF Book!Next
    <2>6. CASE UNCHANGED vars
      BY <2>1, <2>6 DEF vars
    <2>. QED
      BY <2>1, <2>2, <2>3, <2>4, <2>5, <2>6
      DEF Next, BeginReversal, Ask, ReadBack, LockTicket, FoldBalance, Abort
  <1>. QED
    BY <1>1, <1>2, BookInvHolds, PTL DEF Spec, ImplementsPointsBook, Book!Spec

-----------------------------------------------------------------------------
(* One decision at a time *)

(* What is paid and promised was earned. *)
PromisesCovered ==
  \A s \in Students : Total(Payments(s)) + Total(Promises(s)) <= Total(Earnings(s))

(* The only decision on a student finds no promise of another.             *)
LEMMA LonePromise ==
  ASSUME OneDecider', NEW s \in Students, NEW h \in Sessions,
         OthersPromise(s, h), Promises(s)[h] = 0, Promises(s)'[h] # 0,
         DOMAIN Promises(s)' = Sessions
  PROVE  Total(Promises(s)) = 0
  <1>1. h \in Deciders(s)'
    BY DEF Promises
  <1>2. \A g \in Sessions \ {h} : g \notin Deciders(s)'
    BY <1>1 DEF OneDecider
  <1>3. \A g \in Sessions \ {h} : Promises(s)'[g] = 0
    BY <1>2 DEF Promises
  <1>4. \A g \in DOMAIN Promises(s) : Promises(s)[g] = 0
    BY <1>3 DEF OthersPromise, Promises
  <1>. QED
    BY <1>4, TotalOfNothing

(* With one decision on a student at a time, what it finds is what it may  *)
(* take.                                                                   *)
LEMMA CoveredKept ==
  ASSUME PointsInv, PromisesCovered, OneDecider', Next
  PROVE  PromisesCovered'
  <1>. USE DEF PointsInv
  <1>. SUFFICES ASSUME NEW s \in Students
                PROVE  Total(Payments(s)') + Total(Promises(s)') <= Total(Earnings(s)')
    BY DEF PromisesCovered, Total
  <1>. DEFINE room == 0
  <1>1. /\ Total(Earnings(s)) \in Nat /\ Total(Payments(s)) \in Nat
        /\ Total(Promises(s)) \in Nat
    BY FS_CardinalityType DEF Counted, Total
  <1>2. Total(Payments(s)) + Total(Promises(s)) <= Total(Earnings(s)) + room
    BY <1>1 DEF PromisesCovered
  <1>3. \A h \in Sessions :
          OthersPromise(s, h) /\ Promises(s)[h] = 0 /\ Promises(s)'[h] # 0
            => Total(Promises(s)) <= room
    BY LonePromise, EntriesStayTyped
  <1>4. room \in Int
    OBVIOUS
  <1>5. Counted(s)
    OBVIOUS
  <1>. HIDE DEF room
  <1>6. /\ Counted(s)'
        /\ Total(Payments(s)') + Total(Promises(s)') <= Total(Earnings(s)') + room
    BY <1>2, <1>3, <1>4, <1>5, PromisesKept
  <1>7. /\ Total(Earnings(s)') \in Nat /\ Total(Payments(s)') \in Nat
        /\ Total(Promises(s)') \in Nat
    BY <1>6, FS_CardinalityType DEF Counted, Total
  <1>. QED
    BY <1>6, <1>7 DEF room

(* What OverdraftIsBounded allows comes from decisions that overlap and    *)
(* from nothing else: in a behavior in which no two decisions on a student *)
(* have found the balance at once, nothing is overspent, whatever is       *)
(* earned, corrected or asked for meanwhile.                               *)
THEOREM SerialDecisionsNeverOverdraw == Spec /\ []OneDecider => []NeverOverdrawn
  <1>1. Init /\ PointsInv => PromisesCovered
    <2>. SUFFICES ASSUME Init, PointsInv, NEW s \in Students
                  PROVE  Total(Payments(s)) + Total(Promises(s)) <= Total(Earnings(s))
      BY DEF PromisesCovered
    <2>1. /\ \A a \in DOMAIN Earnings(s) : Earnings(s)[a] = 0
          /\ \A r \in DOMAIN Payments(s) : Payments(s)[r] = 0
          /\ \A h \in DOMAIN Promises(s) : Promises(s)[h] = 0
      BY DEF Init, Earnings, Payments, Promises, Deciders, At, Idle
    <2>2. Total(Earnings(s)) = 0 /\ Total(Payments(s)) = 0 /\ Total(Promises(s)) = 0
      BY <2>1, TotalOfNothing
    <2>. QED
      BY <2>2
  <1>2. PointsInv /\ PromisesCovered /\ OneDecider' /\ [Next]_vars => PromisesCovered'
    <2>1. PromisesCovered /\ UNCHANGED vars => PromisesCovered'
      BY DEF vars, PromisesCovered, Earnings, Payments, Promises, Deciders, TicketsOf, At
    <2>. QED
      BY <2>1, CoveredKept
  <1>3. PointsInv /\ PromisesCovered => NeverOverdrawn
    <2>. SUFFICES ASSUME PointsInv, PromisesCovered, NEW s \in Students
                  PROVE  Total(Payments(s)) <= Total(Earnings(s))
      BY DEF NeverOverdrawn
    <2>1. /\ Total(Earnings(s)) \in Nat /\ Total(Payments(s)) \in Nat
          /\ Total(Promises(s)) \in Nat
      BY FS_CardinalityType DEF PointsInv, Counted, Total
    <2>. QED
      BY <2>1 DEF PromisesCovered
  <1>. QED
    BY <1>1, <1>2, <1>3, PointsInvHolds, PTL DEF Spec

=============================================================================
