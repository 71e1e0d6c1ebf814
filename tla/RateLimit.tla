----------------------------- MODULE RateLimit ------------------------------
(***************************************************************************)
(* RateLimiter over the rate_limit_counter table, as charge_quota() uses   *)
(* it: API instances with clocks of their own charge requests to fixed     *)
(* windows, and a sweep deletes the counters of windows it takes to be     *)
(* over.  A charge is one guarded upsert, committed at once.               *)
(***************************************************************************)
EXTENDS Integers

CONSTANTS
  Subjects,     \* the callers quota is counted for, tenant included
  Operations,   \* what is limited
  Requests,     \* requests being charged at one time
  max_requests, \* [Operations -> how many a window admits]
  window,       \* [Operations -> how long a window is]
  MaxWindow,    \* MAX_RATE_LIMIT_WINDOW
  Grace,        \* DEFAULT_SWEEP_GRACE
  Lag,          \* how old the moment a request was given may be when it is charged
  Lead,         \* how far an instance's clock may be ahead
  MaxTime       \* bound: the time at which the clock stops

(* RateLimit.__post_init__ refuses other limits.  What the sweep's grace   *)
(* is there for: clocks that differ, and requests charged late.            *)
ASSUME LimitAssumption ==
  /\ max_requests \in [Operations -> Nat \ {0}]
  /\ window \in [Operations -> Nat \ {0}]
  /\ MaxWindow \in Nat
  /\ \A o \in Operations : window[o] <= MaxWindow

ASSUME GraceAssumption ==
  /\ Grace \in Nat /\ Lag \in Nat /\ Lead \in Nat /\ MaxTime \in Nat
  /\ Lag + Lead <= Grace

Times   == 0 .. MaxTime
Counter == [subject: Subjects, operation: Operations, start: Times]

VARIABLES
  now,        \* the time it is
  counter,    \* [Counter -> its count], 0 when the table has no such row
  request,    \* [Requests -> what a request is to be charged for, and when it read its clock]
  admitted    \* [Counter -> how many requests were let through], which no code reads

vars == <<now, counter, request, admitted>>

Idle   == [at |-> "idle"]
Charge == [at: {"charging"}, subject: Subjects, operation: Operations, moment: Times]

TypeOK ==
  /\ now \in Times
  /\ counter \in [Counter -> Nat]
  /\ request \in [Requests -> {Idle} \union Charge]
  /\ admitted \in [Counter -> Nat]

Init ==
  /\ now = 0
  /\ counter = [k \in Counter |-> 0]
  /\ request = [r \in Requests |-> Idle]
  /\ admitted = [k \in Counter |-> 0]

-----------------------------------------------------------------------------
(* What an instance's clock may show. *)
Readings == {t \in Times : now - Lag <= t /\ t <= now + Lead}

Charging(r) == request[r] # Idle

(* No request is charged later than Lag after the moment it goes by. *)
Tick ==
  /\ now + 1 \in Times
  /\ \A r \in Requests : Charging(r) => now + 1 - Lag <= request[r].moment
  /\ now' = now + 1
  /\ UNCHANGED <<counter, request, admitted>>

Arrive(r, s, o, moment) ==
  /\ ~Charging(r)
  /\ moment \in Readings
  /\ request' = [request EXCEPT ![r] =
       [at |-> "charging", subject |-> s, operation |-> o, moment |-> moment]]
  /\ UNCHANGED <<now, counter, admitted>>

(* window_start(): the moment, truncated to its window. *)
WindowStart(o, moment) == moment - (moment % window[o])

CounterOf(r) ==
  [ subject |-> request[r].subject, operation |-> request[r].operation,
    start |-> WindowStart(request[r].operation, request[r].moment) ]

Done(r) == request' = [request EXCEPT ![r] = Idle]

(* Mutant: the upsert compares the count it would write. *)
HasRoomBelow(k) == counter[k] + 1 < max_requests[k.operation]

(* The guard of the upsert; a counter that is not there has room. *)
HasRoom(k) == counter[k] < max_requests[k.operation]

Admit(r) ==
  /\ Charging(r)
  /\ HasRoom(CounterOf(r))
  /\ counter' = [counter EXCEPT ![CounterOf(r)] = @ + 1]
  /\ admitted' = [admitted EXCEPT ![CounterOf(r)] = @ + 1]
  /\ Done(r)
  /\ UNCHANGED now

(* A 429: the upsert matched no row and wrote nothing. *)
Deny(r) ==
  /\ Charging(r)
  /\ ~HasRoom(CounterOf(r))
  /\ Done(r)
  /\ UNCHANGED <<now, counter, admitted>>

(* The instance dies or cannot reach the database: nothing is charged.     *)
Fail(r) ==
  /\ Charging(r)
  /\ Done(r)
  /\ UNCHANGED <<now, counter, admitted>>

(* Mutant: a counter goes as soon as its window is over by the sweep's clock. *)
ExpiredWithoutGrace(k, known, moment) ==
  k.start < moment - (IF k.operation \in known THEN window[k.operation] ELSE MaxWindow)

(* The sweep is told the windows of the operations it knows; a counter of  *)
(* any other is as old as the longest window there may be.                 *)
Expired(k, known, moment) ==
  k.start < moment - ((IF k.operation \in known THEN window[k.operation] ELSE MaxWindow) + Grace)

Sweep(known, moment) ==
  /\ moment \in Readings
  /\ counter' = [k \in Counter |-> IF Expired(k, known, moment) THEN 0 ELSE counter[k]]
  /\ UNCHANGED <<now, request, admitted>>

Next ==
  \/ Tick
  \/ \E r \in Requests, s \in Subjects, o \in Operations, m \in Times : Arrive(r, s, o, m)
  \/ \E r \in Requests : Admit(r) \/ Deny(r) \/ Fail(r)
  \/ \E known \in SUBSET Operations, m \in Times : Sweep(known, m)

Spec == Init /\ [][Next]_vars

-----------------------------------------------------------------------------
(* Properties *)

(* No window of an operation lets a caller through more often than its     *)
(* limit says, whichever instances charge it, whatever their clocks show,  *)
(* and however often and with whatever limits the sweep runs meanwhile.    *)
WithinLimit == \A k \in Counter : admitted[k] <= max_requests[k.operation]

(* A request is denied only when its window let its full number through:   *)
(* no counter is charged for requests that were not let through.           *)
DeniedWhenSpent ==
  [][\A r \in Requests : Deny(r) =>
       admitted[CounterOf(r)] = max_requests[request[r].operation]]_vars

-----------------------------------------------------------------------------
(* The invariant the proofs rest on. *)

(* No request can be charged to a window any more. *)
Over(k) == k.start + window[k.operation] <= now - Lag

(* Requests are charged in time, and counters say what was let through     *)
(* until nobody can be charged to them.                                    *)
CountersTrue ==
  /\ \A r \in Requests : Charging(r) => now - Lag <= request[r].moment
  /\ \A k \in Counter : Over(k) \/ counter[k] = admitted[k]

LimitInv == TypeOK /\ CountersTrue /\ WithinLimit
=============================================================================
