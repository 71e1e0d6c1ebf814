----------------------------- MODULE OrderedLog -----------------------------
(***************************************************************************)
(* What a job's event stream promises: events are added at the end, one at *)
(* a time, and never changed, and every reader has a prefix of them.       *)
(***************************************************************************)
EXTENDS Naturals, Sequences

CONSTANTS
  Readers,   \* clients that follow the stream
  Event      \* what may be said of the job

VARIABLES
  log,       \* the events
  received   \* [Readers -> the positions of the events a client has]

vars == <<log, received>>

Init ==
  /\ log = <<>>
  /\ received = [r \in Readers |-> {}]

Add(e) ==
  /\ log' = Append(log, e)
  /\ UNCHANGED received

CatchUp(r) ==
  /\ \E n \in 1 .. Len(log) :
       /\ received[r] \subseteq 1 .. n
       /\ received' = [received EXCEPT ![r] = 1 .. n]
  /\ UNCHANGED log

Next == (\E e \in Event : Add(e)) \/ (\E r \in Readers : CatchUp(r))

Spec == Init /\ [][Next]_vars
=============================================================================
