-------------------------- MODULE RateLimitProofs ---------------------------
(***************************************************************************)
(* Proofs about the rate limiter, for any limits, callers and number of    *)
(* instances, any clock differences the grace allows for, and any sweeps.  *)
(***************************************************************************)
EXTENDS RateLimit, TLAPS

(* A window begins no later than a moment in it, and less than its length  *)
(* before.                                                                 *)
LEMMA WindowBounds ==
  ASSUME NEW o \in Operations, NEW m \in Times
  PROVE  /\ WindowStart(o, m) \in Times
         /\ m < WindowStart(o, m) + window[o]
  <1>1. window[o] \in Nat /\ window[o] > 0
    BY LimitAssumption
  <1>2. m \in Nat /\ m <= MaxTime /\ MaxTime \in Nat
    BY GraceAssumption DEF Times
  <1>3. m % window[o] \in 0 .. window[o] - 1
    BY <1>1, <1>2
  <1>4. m % window[o] <= m
    BY <1>1, <1>2, SMTT(30)
  <1> QED
    BY <1>1, <1>2, <1>3, <1>4 DEF WindowStart, Times

(* A request in flight is counted somewhere. *)
LEMMA Counts ==
  ASSUME TypeOK, NEW r \in Requests, Charging(r)
  PROVE  /\ request[r] \in Charge
         /\ CounterOf(r) \in Counter
         /\ CounterOf(r).operation = request[r].operation
         /\ request[r].moment < CounterOf(r).start + window[request[r].operation]
  <1>1. request[r] \in Charge
    BY DEF TypeOK, Charging
  <1>2. request[r].subject \in Subjects /\ request[r].operation \in Operations
        /\ request[r].moment \in Times
    BY <1>1 DEF Charge
  <1> QED
    BY <1>1, <1>2, WindowBounds DEF CounterOf, Counter

(* The window a request in flight is charged to is not over: its counter   *)
(* says what the window let through.                                       *)
LEMMA CounterIsTrue ==
  ASSUME LimitInv, NEW r \in Requests, Charging(r)
  PROVE  counter[CounterOf(r)] = admitted[CounterOf(r)]
  <1>1. now - Lag <= request[r].moment
    BY DEF LimitInv, CountersTrue
  <1>2. /\ CounterOf(r) \in Counter
        /\ request[r].operation \in Operations
        /\ CounterOf(r).operation = request[r].operation
        /\ request[r].moment < CounterOf(r).start + window[request[r].operation]
        /\ request[r].moment \in Int /\ CounterOf(r).start \in Int
    BY Counts, GraceAssumption DEF LimitInv, Counter, Times, Charge
  <1>3. now \in Int /\ Lag \in Int /\ window[request[r].operation] \in Int
    BY <1>2, LimitAssumption, GraceAssumption DEF LimitInv, TypeOK, Times
  <1>4. ~Over(CounterOf(r))
    BY <1>1, <1>2, <1>3 DEF Over
  <1> QED
    BY <1>2, <1>4 DEF LimitInv, CountersTrue

(* No time has passed and no request was charged. *)
THEOREM InitLimitInv == Init => LimitInv
  <1> SUFFICES ASSUME Init PROVE LimitInv
    OBVIOUS
  <1>1. TypeOK
    BY GraceAssumption DEF Init, TypeOK, Times
  <1>2. CountersTrue
    BY DEF Init, CountersTrue, Charging
  <1>3. WithinLimit
    BY LimitAssumption DEF Init, WithinLimit, Counter
  <1> QED
    BY <1>1, <1>2, <1>3 DEF LimitInv

(* A request ends, and nothing else changes. *)
LEMMA DoneKeeps ==
  ASSUME LimitInv, NEW r \in Requests, Done(r), UNCHANGED <<now, counter, admitted>>
  PROVE  LimitInv'
  <1>1. /\ request' \in [Requests -> {Idle} \union Charge]
        /\ \A q \in Requests : request'[q] = IF q = r THEN Idle ELSE request[q]
    BY DEF LimitInv, TypeOK, Done
  <1>2. TypeOK'
    BY <1>1 DEF LimitInv, TypeOK
  <1>3. CountersTrue'
    BY <1>1 DEF LimitInv, CountersTrue, Charging, Over
  <1>4. WithinLimit'
    BY DEF LimitInv, WithinLimit
  <1> QED
    BY <1>2, <1>3, <1>4 DEF LimitInv

(* A request is let through where there is room, and counted. *)
LEMMA AdmitKeeps ==
  ASSUME LimitInv, NEW r \in Requests, Admit(r)
  PROVE  LimitInv'
  <1> DEFINE c == CounterOf(r)
  <1>1. TypeOK /\ CountersTrue /\ WithinLimit /\ Charging(r)
    BY DEF LimitInv, Admit
  <1>2. c \in Counter /\ counter[c] = admitted[c]
    BY <1>1, Counts, CounterIsTrue
  <1>3. counter[c] < max_requests[c.operation] /\ max_requests[c.operation] \in Nat
    BY <1>2, LimitAssumption DEF Admit, HasRoom, Counter
  <1>4. /\ counter' = [counter EXCEPT ![c] = @ + 1]
        /\ admitted' = [admitted EXCEPT ![c] = @ + 1]
        /\ request' = [request EXCEPT ![r] = Idle]
        /\ now' = now
    BY DEF Admit, Done
  <1> HIDE DEF c
  <1>5. TypeOK'
    BY <1>1, <1>2, <1>4 DEF TypeOK
  <1>6. CountersTrue'
    <2>1. \A q \in Requests : Charging(q)' => Charging(q) /\ request'[q] = request[q]
      BY <1>1, <1>4 DEF TypeOK, Charging
    <2>2. \A k \in Counter : counter[k] = admitted[k] => counter'[k] = admitted'[k]
      BY <1>1, <1>2, <1>4 DEF TypeOK
    <2>3. \A k \in Counter : Over(k)' = Over(k)
      BY <1>4 DEF Over
    <2> QED
      BY <1>1, <1>4, <2>1, <2>2, <2>3 DEF CountersTrue
  <1>7. WithinLimit'
    BY <1>1, <1>2, <1>3, <1>4 DEF WithinLimit, TypeOK
  <1> QED
    BY <1>5, <1>6, <1>7 DEF LimitInv

(* A request reads a clock that is not further behind than it may be. *)
LEMMA ArriveKeeps ==
  ASSUME LimitInv, NEW r \in Requests, NEW s \in Subjects, NEW o \in Operations,
         NEW m \in Times, Arrive(r, s, o, m)
  PROVE  LimitInv'
  <1> DEFINE v == [at |-> "charging", subject |-> s, operation |-> o, moment |-> m]
  <1>1. v \in Charge /\ v.moment = m
    BY DEF Charge
  <1>2. request' = [request EXCEPT ![r] = v] /\ now - Lag <= m
    BY DEF Arrive, Readings
  <1> HIDE DEF v
  <1>3. /\ request' \in [Requests -> {Idle} \union Charge]
        /\ \A q \in Requests : request'[q] = IF q = r THEN v ELSE request[q]
    BY <1>1, <1>2 DEF LimitInv, TypeOK
  <1>4. UNCHANGED <<now, counter, admitted>>
    BY DEF Arrive
  <1>5. TypeOK'
    BY <1>3, <1>4 DEF LimitInv, TypeOK
  <1>6. CountersTrue'
    BY <1>1, <1>2, <1>3, <1>4 DEF LimitInv, CountersTrue, Charging, Over
  <1>7. WithinLimit'
    BY <1>4 DEF LimitInv, WithinLimit
  <1> QED
    BY <1>5, <1>6, <1>7 DEF LimitInv

(* Time passes no request by. *)
LEMMA TickKeeps ==
  ASSUME LimitInv, Tick
  PROVE  LimitInv'
  <1>1. /\ now \in Int /\ Lag \in Int /\ now' = now + 1 /\ now' \in Times
        /\ UNCHANGED <<counter, request, admitted>>
    BY GraceAssumption DEF LimitInv, TypeOK, Tick, Times
  <1>2. TypeOK'
    BY <1>1 DEF LimitInv, TypeOK
  <1>3. \A k \in Counter : Over(k) => Over(k)'
    <2> SUFFICES ASSUME NEW k \in Counter, Over(k) PROVE Over(k)'
      OBVIOUS
    <2>1. k.start \in Int /\ window[k.operation] \in Int
      BY LimitAssumption, GraceAssumption DEF Counter, Times
    <2> QED
      BY <1>1, <2>1 DEF Over
  <1>4. CountersTrue'
    BY <1>1, <1>3 DEF LimitInv, CountersTrue, Tick, Charging
  <1>5. WithinLimit'
    BY <1>1 DEF LimitInv, WithinLimit
  <1> QED
    BY <1>2, <1>4, <1>5 DEF LimitInv

(* The sweep deletes the counters of windows that are over. *)
LEMMA SweepKeeps ==
  ASSUME LimitInv, NEW known \in SUBSET Operations, NEW m \in Times, Sweep(known, m)
  PROVE  LimitInv'
  <1>1. /\ counter' = [k \in Counter |-> IF Expired(k, known, m) THEN 0 ELSE counter[k]]
        /\ UNCHANGED <<now, request, admitted>>
        /\ m <= now + Lead
    BY DEF Sweep, Readings
  <1>2. \A k \in Counter : Expired(k, known, m) => Over(k)
    <2> SUFFICES ASSUME NEW k \in Counter, Expired(k, known, m) PROVE Over(k)
      OBVIOUS
    <2> DEFINE longest == IF k.operation \in known THEN window[k.operation] ELSE MaxWindow
    <2>1. k.start \in Int /\ window[k.operation] \in Int /\ longest \in Int
          /\ window[k.operation] <= longest
      BY LimitAssumption, GraceAssumption DEF Counter, Times
    <2>2. k.start < m - (longest + Grace)
      BY DEF Expired
    <2>3. now \in Int /\ m \in Int /\ Lag \in Int /\ Lead \in Int /\ Grace \in Int
          /\ Lag + Lead <= Grace
      BY GraceAssumption DEF LimitInv, TypeOK, Times
    <2> HIDE DEF longest
    <2> QED
      BY <1>1, <2>1, <2>2, <2>3 DEF Over
  <1>3. TypeOK'
    BY <1>1 DEF LimitInv, TypeOK
  <1>4. \A k \in Counter : Over(k)' = Over(k)
    BY <1>1 DEF Over
  <1>5. CountersTrue'
    BY <1>1, <1>2, <1>4 DEF LimitInv, CountersTrue, Charging
  <1>6. WithinLimit'
    BY <1>1 DEF LimitInv, WithinLimit
  <1> QED
    BY <1>3, <1>5, <1>6 DEF LimitInv

(* Every step keeps the invariant. *)
THEOREM NextLimitInv == LimitInv /\ [Next]_vars => LimitInv'
  <1> SUFFICES ASSUME LimitInv, [Next]_vars PROVE LimitInv'
    OBVIOUS
  <1>1. CASE Tick
    BY <1>1, TickKeeps
  <1>2. ASSUME NEW r \in Requests, NEW s \in Subjects, NEW o \in Operations, NEW m \in Times,
               Arrive(r, s, o, m)
        PROVE  LimitInv'
    BY <1>2, ArriveKeeps
  <1>3. ASSUME NEW r \in Requests, Admit(r) \/ Deny(r) \/ Fail(r)
        PROVE  LimitInv'
    BY <1>3, AdmitKeeps, DoneKeeps DEF Deny, Fail
  <1>4. ASSUME NEW known \in SUBSET Operations, NEW m \in Times, Sweep(known, m)
        PROVE  LimitInv'
    BY <1>4, SweepKeeps
  <1>5. CASE UNCHANGED vars
    BY <1>5 DEF vars, LimitInv, TypeOK, CountersTrue, Charging, Over, WithinLimit
  <1> QED
    BY <1>1, <1>2, <1>3, <1>4, <1>5 DEF Next

(* The time, the counters, what they admitted and the requests keep their  *)
(* types, for any limits and windows.                                      *)
THEOREM LimitTypeCorrect == Spec => []TypeOK
  <1>1. LimitInv => TypeOK
    BY DEF LimitInv
  <1>. QED
    BY <1>1, InitLimitInv, NextLimitInv, PTL DEF Spec

(* No caller is let through a window more often than its limit says, for   *)
(* every set of limits and every sweep, when the grace covers the clocks.  *)
THEOREM LimitKept == Spec => []WithinLimit
  <1>1. LimitInv => WithinLimit
    BY DEF LimitInv
  <1> QED
    BY <1>1, InitLimitInv, NextLimitInv, PTL DEF Spec

(* A denied request finds its window's full number let through. *)
THEOREM DenialsDeserved == Spec => DeniedWhenSpent
  <1>1. LimitInv /\ [Next]_vars =>
          [\A r \in Requests : Deny(r) =>
             admitted[CounterOf(r)] = max_requests[request[r].operation]]_vars
    <2> SUFFICES ASSUME LimitInv, NEW r \in Requests, Deny(r)
                 PROVE  admitted[CounterOf(r)] = max_requests[request[r].operation]
      OBVIOUS
    <2>1. Charging(r) /\ ~(counter[CounterOf(r)] < max_requests[CounterOf(r).operation])
      BY DEF Deny, HasRoom
    <2>2. /\ CounterOf(r) \in Counter
          /\ CounterOf(r).operation = request[r].operation
          /\ counter[CounterOf(r)] = admitted[CounterOf(r)]
      BY <2>1, Counts, CounterIsTrue DEF LimitInv
    <2>3. /\ admitted[CounterOf(r)] \in Nat
          /\ max_requests[CounterOf(r).operation] \in Nat
          /\ admitted[CounterOf(r)] <= max_requests[CounterOf(r).operation]
      BY <2>2, LimitAssumption DEF LimitInv, TypeOK, WithinLimit, Counter
    <2> QED
      BY <2>1, <2>2, <2>3
  <1> QED
    BY <1>1, InitLimitInv, NextLimitInv, PTL DEF Spec, DeniedWhenSpent
=============================================================================
