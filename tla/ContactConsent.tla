--------------------------- MODULE ContactConsent ---------------------------
(***************************************************************************)
(* What decides whether somebody may be written to: the lifecycle of a     *)
(* contact channel, the suppression of its address and the Speaker's own   *)
(* latest choice, and the transactions of the Speaker portal, of the       *)
(* Connectors' routes and of the unsubscribe link that write them.         *)
(*                                                                         *)
(* A tenant has one channel per address, so a channel stands for both. The *)
(* portal and the transition route lock the channel's row first and decide *)
(* on what they read after it; the unsubscribe link has no principal and   *)
(* takes the suppression row only.                                         *)
(***************************************************************************)
EXTENDS Naturals

CONSTANTS
  Channels,      \* contact channels, one per address
  LoginAddress,  \* those whose address is the one its Speaker signs in with
  Actors,        \* sessions of Speakers and Connectors
  Lifecycle      \* bound: the contact states an instance walks through

Transitions == {
  <<"discovered", "corroborated">>,       <<"corroborated", "reviewed">>,
  <<"reviewed", "relationship_recorded">>, <<"reviewed", "rejected">>,
  <<"relationship_recorded", "consented">>, <<"consented", "active_candidate">>,
  <<"active_candidate", "stale">>,        <<"stale", "reviewed">> }

ContactStates == {"discovered", "corroborated", "reviewed", "rejected",
  "relationship_recorded", "consented", "active_candidate", "stale"}
Escalating == {"consented", "active_candidate"}

ASSUME ConsentAssumption ==
  /\ LoginAddress \subseteq Channels
  /\ Lifecycle \subseteq ContactStates
  /\ "active_candidate" \in Lifecycle

(* The sources that something in the repository writes.                    *)
Rank == [speaker_portal |-> 0, unsubscribe_link |-> 1, coordinator |-> 2]
Sources == {"speaker_portal", "unsubscribe_link", "coordinator"}

VARIABLES
  contact,      \* [Channels -> its lifecycle state, or "absent"]
  suppression,  \* [Channels -> the address's row; source "none" is no row]
  choice,       \* [Channels -> the latest of its append-only choices]
  tx            \* [Actors -> the transaction it has begun]

consentVars == <<contact, suppression, choice, tx>>

NoRow == [source |-> "none", active |-> FALSE]
Suppression == {NoRow} \union [source: Sources, active: BOOLEAN]

NoTx == [op |-> "none"]
Transaction == {NoTx} \union
  [op: {"move"}, channel: Channels, to: Lifecycle] \union
  [op: {"opt_in", "opt_out"}, channel: Channels, read: Suppression]

ConsentTypeOK ==
  /\ contact \in [Channels -> Lifecycle \union {"absent"}]
  /\ suppression \in [Channels -> Suppression]
  /\ choice \in [Channels -> {"none", "opt_in", "opt_out"}]
  /\ tx \in [Actors -> Transaction]

ConsentInit ==
  /\ contact \in [Channels -> Lifecycle \union {"absent"}]
  /\ suppression = [c \in Channels |-> NoRow]
  /\ choice = [c \in Channels |-> "none"]
  /\ tx = [a \in Actors |-> NoTx]

(* is_send_eligible: no contact becomes an active_candidate without an     *)
(* approved consent source on its row.                                     *)
Sendable(c) == contact[c] = "active_candidate" /\ ~ suppression[c].active

-----------------------------------------------------------------------------

(* The rows a transaction has locked, each until it ends.                  *)
HoldsChannel(a, c) == tx[a].op # "none" /\ tx[a].channel = c
HoldsSuppression(a, c) ==
  /\ tx[a].op \in {"opt_in", "opt_out"}
  /\ tx[a].channel = c
  /\ tx[a].read # NoRow

(* Mutants: the rows are read without FOR UPDATE. *)
ChannelUnlocked(c) == TRUE
SuppressionUnlocked(c) == TRUE

ChannelIsFree(c) == \A a \in Actors : ~ HoldsChannel(a, c)
SuppressionIsFree(c) == \A a \in Actors : ~ HoldsSuppression(a, c)

Begin(a, transaction) ==
  /\ tx[a] = NoTx
  /\ contact[transaction.channel] # "absent"
  /\ ChannelIsFree(transaction.channel)
  /\ tx' = [tx EXCEPT ![a] = transaction]
  /\ UNCHANGED <<contact, suppression, choice>>

End(a) == tx' = [tx EXCEPT ![a] = NoTx]

(* Mutant: opening a row again keeps the source it had, also where there   *)
(* was none.                                                               *)
Reopened(row, source) ==
  IF row.active THEN row ELSE [row EXCEPT !.active = TRUE]

(* record() merges by rank: a higher source takes an active row over, a    *)
(* lower or an equal one leaves it, and a lifted row is opened again.      *)
Merged(row, source) ==
  IF row.active /\ Rank[source] <= Rank[row.source]
  THEN row
  ELSE [source |-> source, active |-> TRUE]

Record(c, source) ==
  suppression' = [suppression EXCEPT ![c] = Merged(suppression[c], source)]

-----------------------------------------------------------------------------

Register(c) ==
  /\ contact[c] = "absent"
  /\ \E state \in {"discovered", "consented"} \intersect Lifecycle :
       contact' = [contact EXCEPT ![c] = state]
  /\ UNCHANGED <<suppression, choice, tx>>

(* The Speaker wins: connector_transition_conflict.                        *)
Conflicts(c, to) ==
  \/ choice[c] = "opt_out" /\ to \in Escalating
  \/ choice[c] = "opt_in" /\ contact[c] = "active_candidate"

(* A Connector's move of the lifecycle. The suppression is read without    *)
(* its row's lock.                                                         *)
BeginMove(a, c, to) ==
  /\ ~ Conflicts(c, to)
  /\ ~ (suppression[c].active /\ to \in Escalating)
  /\ <<contact[c], to>> \in Transitions
  /\ Begin(a, [op |-> "move", channel |-> c, to |-> to])

CommitMove(a) ==
  /\ tx[a].op = "move"
  /\ contact' = [contact EXCEPT ![tx[a].channel] = tx[a].to]
  /\ End(a)
  /\ UNCHANGED <<suppression, choice>>

(* "suppressed": true, under the channel's lock.                           *)
Suppress(c) ==
  /\ contact[c] # "absent"
  /\ ChannelIsFree(c)
  /\ choice[c] # "opt_in"
  /\ Record(c, "coordinator")
  /\ UNCHANGED <<contact, choice, tx>>

(* The link of a message, or the recipient's mail provider.                *)
Unsubscribe(c) ==
  /\ SuppressionIsFree(c)
  /\ Record(c, "unsubscribe_link")
  /\ UNCHANGED <<contact, choice, tx>>

-----------------------------------------------------------------------------

(* speaker_lift_verdict: the sources an opt-in may lift at this address.   *)
Liftable(c) ==
  IF c \in LoginAddress THEN {"speaker_portal", "unsubscribe_link"} ELSE {"speaker_portal"}

OptInPath == {"relationship_recorded", "consented", "active_candidate"}

(* The refusals are decided on what is read under the two locks, and end   *)
(* the transaction as they find it; so does an opt-in with nothing to do.  *)
BeginOptIn(a, c) ==
  /\ suppression[c].active => suppression[c].source \in Liftable(c)
  /\ contact[c] \in OptInPath
  /\ ~ (contact[c] = "active_candidate" /\ ~ suppression[c].active /\ choice[c] = "opt_in")
  /\ Begin(a, [op |-> "opt_in", channel |-> c, read |-> suppression[c]])

Lift(c, read) ==
  IF read.active
  THEN /\ suppression[c].active /\ suppression[c].source \in Liftable(c)
       /\ suppression' = [suppression EXCEPT ![c].active = FALSE]
  ELSE UNCHANGED suppression

CommitOptIn(a) ==
  /\ tx[a].op = "opt_in"
  /\ LET c == tx[a].channel
     IN  /\ Lift(c, tx[a].read)
         /\ contact' = [contact EXCEPT ![c] = "active_candidate"]
         /\ choice' = [choice EXCEPT ![c] = "opt_in"]
  /\ End(a)

BeginOptOut(a, c) ==
  /\ ~ (suppression[c].active /\ choice[c] = "opt_out")
  /\ Begin(a, [op |-> "opt_out", channel |-> c, read |-> suppression[c]])

CommitOptOut(a) ==
  /\ tx[a].op = "opt_out"
  /\ Record(tx[a].channel, "speaker_portal")
  /\ choice' = [choice EXCEPT ![tx[a].channel] = "opt_out"]
  /\ End(a)
  /\ UNCHANGED contact

(* A refused UPDATE, a lost connection.                                    *)
Abort(a) ==
  /\ tx[a] # NoTx
  /\ End(a)
  /\ UNCHANGED <<contact, suppression, choice>>

ConsentStep ==
  \/ \E c \in Channels : Register(c) \/ Suppress(c)
  \/ \E a \in Actors, c \in Channels :
       BeginOptIn(a, c) \/ BeginOptOut(a, c) \/ \E to \in Lifecycle : BeginMove(a, c, to)
  \/ \E a \in Actors : CommitMove(a) \/ CommitOptIn(a) \/ CommitOptOut(a) \/ Abort(a)

-----------------------------------------------------------------------------

(* The Speaker's latest choice stands until the Speaker changes it: whoever*)
(* opted in stays a candidate no Connector suppresses, and whoever opted    *)
(* out stays suppressed, whatever Connectors and links do meanwhile.        *)
SpeakersWordStands ==
  \A c \in Channels :
    /\ choice[c] = "opt_in" =>
         /\ contact[c] = "active_candidate"
         /\ ~ (suppression[c].active /\ suppression[c].source = "coordinator")
    /\ choice[c] = "opt_out" => suppression[c].active

(* A suppression is lifted by nothing but the opt-in that was decided on    *)
(* that very suppression: one recorded since, at a higher rank, stands.     *)
StopsAreLiftedKnowingly ==
  [][\A c \in Channels :
       suppression[c].active /\ ~ suppression'[c].active =>
         \E a \in Actors :
           tx[a].op = "opt_in" /\ tx[a].channel = c /\ tx[a].read = suppression[c]
    ]_consentVars

=============================================================================
