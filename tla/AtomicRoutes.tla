---------------------------- MODULE AtomicRoutes ----------------------------
(***************************************************************************)
(* What the command routes promise: a key is accepted at most once, in one *)
(* indivisible step that finds the job as the decision needs it, and every *)
(* answer given for the key afterwards repeats what that step recorded.    *)
(* No request, lock or retry is in sight.                                  *)
(***************************************************************************)
EXTENDS RouteTables

AcceptSubmission(s, n, j) ==
  /\ s.command = "submit"
  /\ job[j] = "absent"
  /\ CreateJob(s, n, j)

AcceptRedrive(s, n, j) ==
  /\ s.command = "redrive"
  /\ Parkable(j)
  /\ RequeueJob(s, n, j)

AcceptAbandonment(s, n, j) ==
  /\ s.command = "abandon"
  /\ Parkable(j)
  /\ CloseJob(s, n, j)

(* An answer repeats a record. *)
Repeat(r) ==
  /\ answers' = answers \union
       {[scope |-> r.scope, job |-> r.job, generation |-> r.generation]}
  /\ UNCHANGED <<job, outbox, idem>>

Next ==
  \/ \E s \in Scope, n \in Notes, j \in Jobs :
       /\ Recorded(s) = {}
       /\ AcceptSubmission(s, n, j) \/ AcceptRedrive(s, n, j) \/ AcceptAbandonment(s, n, j)
  \/ \E r \in idem : Repeat(r)
  \/ \E j \in Jobs : Work(j)

Spec == TablesInit /\ [][Next]_tables
=============================================================================
