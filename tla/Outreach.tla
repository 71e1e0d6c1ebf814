------------------------------ MODULE Outreach ------------------------------
(***************************************************************************)
(* outreach.send: the one place a message leaves. The route checks that    *)
(* the recipient may be written to and submits a command; the worker's     *)
(* handler reserves the send, reads the recipient again, calls the         *)
(* provider and records what came of it, on a session of its own that      *)
(* commits as it goes. Workers die, jobs are swept and re-driven, and the  *)
(* recipient may ask us to stop at any moment of it.                       *)
(*                                                                         *)
(* Of the job only what decides who runs it is here (CommandPath has the   *)
(* rest). The pipeline advance is left out: no route names a journey.      *)
(***************************************************************************)
EXTENDS ContactConsent

CONSTANTS
  Jobs,       \* outreach.send commands, one per approved draft
  Recipient,  \* the channel each of them writes to
  Workers,    \* worker processes
  MaxRuns     \* bound: how often a job is claimed

ASSUME OutreachAssumption == Recipient \in [Jobs -> Channels]

VARIABLES
  jobs,     \* [Jobs -> its state and how often it was claimed]
  sends,    \* [Jobs -> its outreach_send row and the row's delivery events]
  run,      \* [Workers -> where its handler is]
  calls,    \* [Jobs -> the calls the provider has had for it] (history)
  allowed   \* [Workers -> whether the recipient could be written to at some
            \*  moment since the run's claim] (history)

sendVars == <<jobs, sends, run, calls>>
vars == <<contact, suppression, choice, tx, jobs, sends, run, calls, allowed>>

Outcome == {"succeeded", "failed_policy", "failed_provider"}
Dispositions == {"accepted", "blocked", "failed"}

Job == [state: Outcome \union {"absent", "checked", "ready", "running", "timed_out"}, runs: Nat]
Send == [disposition: Dispositions \union {"absent", "null"},
         events: SUBSET (Dispositions \union {"queued"})]

Idle == [at |-> "idle"]
Places == {"claimed", "read", "reserved", "replaying", "queued", "called", "recorded", "ended"}
Run == {Idle} \union
  [at: Places, job: Jobs, facts: BOOLEAN, replay: BOOLEAN, outcome: Outcome]

TypeOK ==
  /\ ConsentTypeOK
  /\ jobs \in [Jobs -> Job]
  /\ sends \in [Jobs -> Send]
  /\ run \in [Workers -> Run]
  /\ calls \in [Jobs -> Nat]
  /\ allowed \in [Workers -> BOOLEAN]

Init ==
  /\ ConsentInit
  /\ jobs = [j \in Jobs |-> [state |-> "absent", runs |-> 0]]
  /\ sends = [j \in Jobs |-> [disposition |-> "absent", events |-> {}]]
  /\ run = [w \in Workers |-> Idle]
  /\ calls = [j \in Jobs |-> 0]
  /\ allowed = [w \in Workers |-> FALSE]

Concluded(j) == sends[j].disposition \in Dispositions

-----------------------------------------------------------------------------
(* The command.                                                            *)

Move(j, from, to) ==
  /\ jobs[j].state \in from
  /\ jobs' = [jobs EXCEPT ![j].state = to]

(* send_draft() checks the recipient and commits the command later.        *)
Check(j) ==
  /\ Sendable(Recipient[j])
  /\ Move(j, {"absent"}, "checked")
  /\ UNCHANGED <<sends, run, calls>>

Submit(j) ==
  /\ Move(j, {"checked"}, "ready")
  /\ UNCHANGED <<sends, run, calls>>

SweepJob(j) ==
  /\ Move(j, {"running"}, "timed_out")
  /\ UNCHANGED <<sends, run, calls>>

Redrive(j) ==
  /\ jobs[j].runs < MaxRuns
  /\ Move(j, {"failed_provider", "timed_out"}, "ready")
  /\ UNCHANGED <<sends, run, calls>>

-----------------------------------------------------------------------------
(* The handler, from one of its commits to the next.                       *)

At(w, place) == run[w].at = place

GoTo(w, place) == run' = [run EXCEPT ![w].at = place]
EndWith(w, outcome) == run' = [run EXCEPT ![w].at = "ended", ![w].outcome = outcome]

(* replay is for the properties: the send had an outcome already when the  *)
(* run was claimed.                                                        *)
Claim(w, j) ==
  /\ At(w, "idle")
  /\ jobs[j].state = "ready"
  /\ jobs' = [jobs EXCEPT ![j].state = "running", ![j].runs = @ + 1]
  /\ run' = [run EXCEPT ![w] = [at |-> "claimed", job |-> j, facts |-> FALSE,
                                replay |-> Concluded(j), outcome |-> "failed_provider"]]
  /\ UNCHANGED <<sends, calls>>

(* Mutant: the route has checked the recipient, the handler does not. *)
TrustTheRoute(w) ==
  /\ At(w, "claimed")
  /\ run' = [run EXCEPT ![w].at = "read", ![w].facts = TRUE]
  /\ UNCHANGED <<jobs, sends, calls>>

LoadRecipient(w) ==
  /\ At(w, "claimed")
  /\ run' = [run EXCEPT ![w].at = "read", ![w].facts = Sendable(Recipient[run[w].job])]
  /\ UNCHANGED <<jobs, sends, calls>>

(* Mutant: only an accepted send is not repeated. *)
ReplayAccepted(w) ==
  LET j == run[w].job
  IN  /\ At(w, "read")
      /\ IF sends[j].disposition = "absent"
         THEN sends' = [sends EXCEPT ![j].disposition = "null"]
         ELSE UNCHANGED sends
      /\ GoTo(w, IF sends[j].disposition = "accepted" THEN "replaying" ELSE "reserved")
      /\ UNCHANGED <<jobs, calls>>

ReserveSend(w) ==
  LET j == run[w].job
  IN  /\ At(w, "read")
      /\ IF sends[j].disposition = "absent"
         THEN sends' = [sends EXCEPT ![j].disposition = "null"]
         ELSE UNCHANGED sends
      /\ GoTo(w, IF Concluded(j) THEN "replaying" ELSE "reserved")
      /\ UNCHANGED <<jobs, calls>>

Replayed(w) ==
  /\ At(w, "replaying")
  /\ EndWith(w, "succeeded")
  /\ UNCHANGED <<jobs, sends, calls>>

Appended(send, event) == [send EXCEPT !.events = @ \union {event}]

Queued(w) ==
  /\ At(w, "reserved")
  /\ sends' = [sends EXCEPT ![run[w].job] = Appended(@, "queued")]
  /\ GoTo(w, "queued")
  /\ UNCHANGED <<jobs, calls>>

(* Mutant: a conclusion is written over another. *)
LastConcludes(send, disposition) ==
  [Appended(send, disposition) EXCEPT !.disposition = disposition]

(* append_delivery_event() and conclude_send(), in one commit.             *)
ConcludedAs(send, disposition) ==
  [Appended(send, disposition) EXCEPT
     !.disposition = IF @ = "null" THEN disposition ELSE @]

Conclude(w, disposition) ==
  sends' = [sends EXCEPT ![run[w].job] = ConcludedAs(@, disposition)]

(* Mutant: the refusal is left to the executor, which rolls it back. *)
RefuseUnrecorded(w) ==
  /\ At(w, "queued")
  /\ EndWith(w, "failed_policy")
  /\ UNCHANGED <<jobs, sends, calls>>

(* assert_send_allowed() refuses whoever may not be written to, and it or   *)
(* portal_body() a draft or an invitation for reasons of their own.        *)
Refuse(w) ==
  /\ At(w, "queued")
  /\ Conclude(w, "blocked")
  /\ EndWith(w, "failed_policy")
  /\ UNCHANGED <<jobs, calls>>

CallProvider(w) ==
  /\ At(w, "queued")
  /\ run[w].facts
  /\ calls' = [calls EXCEPT ![run[w].job] = @ + 1]
  /\ GoTo(w, "called")
  /\ UNCHANGED <<jobs, sends>>

ProviderFailed(w) ==
  /\ At(w, "called")
  /\ Conclude(w, "failed")
  /\ EndWith(w, "failed_provider")
  /\ UNCHANGED <<jobs, calls>>

ProviderAccepted(w) ==
  /\ At(w, "called")
  /\ Conclude(w, "accepted")
  /\ GoTo(w, "recorded")
  /\ UNCHANGED <<jobs, calls>>

Succeeded(w) ==
  /\ At(w, "recorded")
  /\ EndWith(w, "succeeded")
  /\ UNCHANGED <<jobs, sends, calls>>

(* A progress event loses the race for its number: the exception ends the  *)
(* handler as any unexpected one does.                                     *)
EmitFails(w) ==
  /\ run[w].at \in {"replaying", "reserved", "recorded"}
  /\ EndWith(w, "failed_provider")
  /\ UNCHANGED <<jobs, sends, calls>>

Finish(w) ==
  LET j == run[w].job
  IN  /\ At(w, "ended")
      /\ IF jobs[j].state = "running"
         THEN jobs' = [jobs EXCEPT ![j].state = run[w].outcome]
         ELSE UNCHANGED jobs
      /\ run' = [run EXCEPT ![w] = Idle]
      /\ UNCHANGED <<sends, calls>>

Crash(w) ==
  /\ ~ At(w, "idle")
  /\ run' = [run EXCEPT ![w] = Idle]
  /\ UNCHANGED <<jobs, sends, calls>>

-----------------------------------------------------------------------------

SendStep ==
  \/ \E j \in Jobs : Check(j) \/ Submit(j) \/ SweepJob(j) \/ Redrive(j)
  \/ \E w \in Workers, j \in Jobs : Claim(w, j)
  \/ \E w \in Workers :
       \/ LoadRecipient(w) \/ ReserveSend(w) \/ Replayed(w) \/ Queued(w)
       \/ Refuse(w) \/ CallProvider(w) \/ ProviderFailed(w) \/ ProviderAccepted(w)
       \/ Succeeded(w) \/ EmitFails(w) \/ Finish(w) \/ Crash(w)

(* The token of an unsubscribe link is stored by the reservation of a send. *)
FollowLink(j) ==
  /\ sends[j].disposition # "absent"
  /\ Unsubscribe(Recipient[j])

MayBeWrittenTo(w) == Sendable(Recipient[run[w].job])

Next ==
  /\ \/ SendStep /\ UNCHANGED consentVars
     \/ (ConsentStep \/ \E j \in Jobs : FollowLink(j)) /\ UNCHANGED sendVars
  /\ allowed' = [w \in Workers |->
       run'[w] # Idle /\ (allowed[w] \/ MayBeWrittenTo(w)')]

Spec == Init /\ [][Next]_vars

-----------------------------------------------------------------------------

Called(w) == At(w, "queued") /\ run'[w].at = "called"

(* Nobody is written to on an eligibility older than the run that writes:  *)
(* at some moment since its claim the recipient was a candidate and not    *)
(* suppressed, however long the command waited.                            *)
CallsWereAllowed == [][\A w \in Workers : Called(w) => allowed[w]]_vars

(* The outcome of a send is recorded once: a run that was taken for dead   *)
(* and comes back cannot turn "accepted" into "failed".                    *)
ConcludedOnce ==
  [][\A j \in Jobs : Concluded(j) => sends'[j].disposition = sends[j].disposition]_vars

(* A command whose send has an outcome is reported and not sent again, by  *)
(* whatever re-drive, redelivery or second worker runs it.                 *)
ConcludedIsNotResent == [][\A w \in Workers : Called(w) => ~ run[w].replay]_vars

(* A command that ended for good says what became of its message: the send *)
(* has an outcome, and a delivery event explains it. A refusal outlives    *)
(* the rollback of the handler that it ends.                               *)
EndedIsExplained ==
  \A j \in Jobs :
    jobs[j].state \in {"succeeded", "failed_policy"} =>
      Concluded(j) /\ sends[j].disposition \in sends[j].events

=============================================================================
