--------------------------- MODULE OutreachProofs ---------------------------
(***************************************************************************)
(* What holds of Outreach for any number of contacts, sessions, commands,  *)
(* workers and runs.                                                       *)
(*                                                                         *)
(* A consent transaction knows what it read: LocksKept says what of it is  *)
(* still true when it commits, which is all that SpeakersWordStands and    *)
(* StopsAreLiftedKnowingly need. A run knows how far it got: RunsKept says *)
(* what the send's row holds by then. Dispositions only ever grow.         *)
(***************************************************************************)
EXTENDS Outreach, TLAPS

Open(a) == tx[a].op # "none"

(* The channel's lock, and the suppression row's where there was a row.    *)
LocksKept ==
  /\ \A a, b \in Actors : Open(a) /\ Open(b) /\ tx[a].channel = tx[b].channel => a = b
  /\ \A a \in Actors : tx[a].op = "move" => choice[tx[a].channel] # "opt_in"
  /\ \A a \in Actors : tx[a].op = "opt_in" =>
       LET c == tx[a].channel IN
       /\ tx[a].read.active => tx[a].read.source \in Liftable(c)
       /\ tx[a].read # NoRow => suppression[c] = tx[a].read
       /\ tx[a].read = NoRow =>
            suppression[c] = NoRow \/ suppression[c].source = "unsubscribe_link"

ConsentInv == ConsentTypeOK /\ LocksKept /\ SpeakersWordStands

(* What a run has established, by its place.                               *)
RunKept(w) ==
  run[w] # Idle =>
    /\ run[w].at \in {"reserved", "queued", "called"} =>
         sends[run[w].job].disposition # "absent"
    /\ \/ run[w].at \in {"replaying", "recorded"}
       \/ run[w].at = "ended" /\ run[w].outcome \in {"succeeded", "failed_policy"}
       => Concluded(run[w].job)
    /\ run[w].facts => allowed[w]
    /\ run[w].replay =>
         /\ Concluded(run[w].job)
         /\ run[w].at \in {"claimed", "read", "replaying", "ended"}

RunsKept == \A w \in Workers : RunKept(w)

EventsKept == \A j \in Jobs : Concluded(j) => sends[j].disposition \in sends[j].events
EndingsKept ==
  \A j \in Jobs : jobs[j].state \in {"succeeded", "failed_policy"} => Concluded(j)

SendTypeOK ==
  /\ jobs \in [Jobs -> Job]
  /\ sends \in [Jobs -> Send]
  /\ run \in [Workers -> Run]
  /\ calls \in [Jobs -> Nat]
  /\ allowed \in [Workers -> BOOLEAN]

SendInv == SendTypeOK /\ RunsKept /\ EventsKept /\ EndingsKept

(* The history, and a step of the send or of the consent data without it.  *)
Remembers ==
  allowed' = [w \in Workers |-> run'[w] # Idle /\ (allowed[w] \/ MayBeWrittenTo(w)')]
Sending == SendStep /\ UNCHANGED consentVars
Consenting == (ConsentStep \/ \E j \in Jobs : FollowLink(j)) /\ UNCHANGED sendVars

-----------------------------------------------------------------------------
(* Consent.                                                                *)

(* Merging never yields a missing row, and never lowers an active one.     *)
LEMMA MergedRow ==
  ASSUME NEW row \in Suppression, NEW source \in Sources
  PROVE  /\ Merged(row, source) \in Suppression
         /\ Merged(row, source).active
         /\ Merged(row, source) # NoRow
         /\ Merged(row, source).source \in {row.source, source}
         /\ ~ row.active => Merged(row, source).source = source
  BY DEF Merged, Suppression, NoRow, Sources

(* The initial states have no transaction and no choice.                   *)
LEMMA ConsentStarts == ConsentInit => ConsentInv
  <1>. SUFFICES ASSUME ConsentInit PROVE ConsentInv
    OBVIOUS
  <1>1. NoRow \in Suppression /\ NoTx \in Transaction
    BY DEF Suppression, Transaction
  <1>2. ConsentTypeOK
    BY <1>1 DEF ConsentTypeOK, ConsentInit
  <1>3. LocksKept
    BY DEF LocksKept, ConsentInit, Open, NoTx
  <1>4. SpeakersWordStands
    BY DEF SpeakersWordStands, ConsentInit
  <1>. QED
    BY <1>2, <1>3, <1>4 DEF ConsentInv

(* Opening a transaction: its channel was free, and nothing else changes.  *)
LEMMA BeginKeepsConsent ==
  ASSUME ConsentInv, NEW a \in Actors, NEW t \in Transaction, t # NoTx, Begin(a, t),
         t.op = "move" => choice[t.channel] # "opt_in",
         t.op = "opt_in" => /\ t.read = suppression[t.channel]
                            /\ t.read.active => t.read.source \in Liftable(t.channel)
  PROVE  ConsentInv'
  <1>1. /\ contact' = contact /\ suppression' = suppression /\ choice' = choice
        /\ tx' = [tx EXCEPT ![a] = t]
    BY DEF Begin
  <1>2. t.channel \in Channels /\ t.op # "none"
    BY DEF Transaction, NoTx
  <1>3. ConsentTypeOK'
    BY <1>1 DEF ConsentInv, ConsentTypeOK
  <1>4. \A b \in Actors : Open(b) => tx[b].channel # t.channel
    BY DEF Begin, ChannelIsFree, HoldsChannel, Open
  <1>5. \A b \in Actors : tx'[b] = IF b = a THEN t ELSE tx[b]
    BY <1>1 DEF ConsentInv, ConsentTypeOK
  <1>6. LocksKept'
    <2>1. ASSUME NEW b \in Actors, NEW d \in Actors,
                 Open(b)', Open(d)', tx'[b].channel = tx'[d].channel
          PROVE  b = d
      BY <1>4, <1>5, <2>1 DEF Open, ConsentInv, LocksKept
    <2>2. ASSUME NEW b \in Actors, tx'[b].op = "move"
          PROVE  choice'[tx'[b].channel] # "opt_in"
      BY <1>1, <1>5, <2>2 DEF ConsentInv, LocksKept
    <2>3. ASSUME NEW b \in Actors, tx'[b].op = "opt_in"
          PROVE  /\ tx'[b].read.active => tx'[b].read.source \in Liftable(tx'[b].channel)
                 /\ tx'[b].read # NoRow => suppression'[tx'[b].channel] = tx'[b].read
                 /\ tx'[b].read = NoRow =>
                      \/ suppression'[tx'[b].channel] = NoRow
                      \/ suppression'[tx'[b].channel].source = "unsubscribe_link"
      <3>1. CASE b = a
        BY <1>1, <1>5, <2>3, <3>1
      <3>2. CASE b # a
        BY <1>1, <1>5, <2>3, <3>2 DEF ConsentInv, LocksKept
      <3>. QED
        BY <3>1, <3>2
    <2>. QED
      BY <2>1, <2>2, <2>3 DEF LocksKept
  <1>7. SpeakersWordStands'
    BY <1>1 DEF ConsentInv, SpeakersWordStands
  <1>. QED
    BY <1>3, <1>6, <1>7 DEF ConsentInv

(* Ending a transaction: what others know does not depend on it, as long   *)
(* as what was written was written to its own channel.                     *)
LEMMA EndKeepsConsent ==
  ASSUME ConsentInv, NEW a \in Actors, Open(a), End(a),
         ConsentTypeOK', SpeakersWordStands',
         \A c \in Channels : c # tx[a].channel =>
           /\ choice'[c] = choice[c]
           /\ suppression'[c] = suppression[c]
  PROVE  ConsentInv'
  <1>1. \A b \in Actors : tx'[b] = IF b = a THEN NoTx ELSE tx[b]
    BY DEF End, ConsentInv, ConsentTypeOK
  <1>2. \A b \in Actors : b # a /\ Open(b) =>
          tx[b].channel \in Channels /\ tx[b].channel # tx[a].channel
    BY DEF ConsentInv, LocksKept, ConsentTypeOK, Transaction, Open, NoTx
  <1>3. LocksKept'
    <2>1. ASSUME NEW b \in Actors, NEW d \in Actors,
                 Open(b)', Open(d)', tx'[b].channel = tx'[d].channel
          PROVE  b = d
      BY <1>1, <2>1 DEF Open, NoTx, ConsentInv, LocksKept
    <2>2. ASSUME NEW b \in Actors, tx'[b].op # "none"
          PROVE  b # a /\ tx'[b] = tx[b] /\ tx[b].channel \in Channels
                 /\ choice'[tx[b].channel] = choice[tx[b].channel]
                 /\ suppression'[tx[b].channel] = suppression[tx[b].channel]
      BY <1>1, <1>2, <2>2 DEF NoTx, Open
    <2>3. \A b \in Actors : tx'[b].op = "move" => choice'[tx'[b].channel] # "opt_in"
      BY <2>2 DEF ConsentInv, LocksKept
    <2>4. \A b \in Actors : tx'[b].op = "opt_in" =>
            /\ tx'[b].read.active => tx'[b].read.source \in Liftable(tx'[b].channel)
            /\ tx'[b].read # NoRow => suppression'[tx'[b].channel] = tx'[b].read
            /\ tx'[b].read = NoRow =>
                 \/ suppression'[tx'[b].channel] = NoRow
                 \/ suppression'[tx'[b].channel].source = "unsubscribe_link"
      BY <2>2 DEF ConsentInv, LocksKept
    <2>. QED
      BY <2>1, <2>3, <2>4 DEF LocksKept
  <1>. QED
    BY <1>3 DEF ConsentInv

(* Every begun transaction has established what its commit relies on.      *)
LEMMA BeginsKeepConsent ==
  ASSUME ConsentInv, NEW a \in Actors, NEW c \in Channels,
         \/ BeginOptIn(a, c)
         \/ BeginOptOut(a, c)
         \/ \E to \in Lifecycle : BeginMove(a, c, to)
  PROVE  ConsentInv'
  <1>0. suppression[c] \in Suppression
    BY DEF ConsentInv, ConsentTypeOK
  <1>1. CASE BeginOptIn(a, c)
    <2>1. [op |-> "opt_in", channel |-> c, read |-> suppression[c]] \in Transaction \ {NoTx}
      BY <1>0 DEF Transaction, NoTx
    <2>2. suppression[c].active => suppression[c].source \in Liftable(c)
      BY <1>1 DEF BeginOptIn
    <2>. QED
      BY <1>1, <2>1, <2>2, BeginKeepsConsent DEF BeginOptIn
  <1>2. CASE BeginOptOut(a, c)
    <2>1. [op |-> "opt_out", channel |-> c, read |-> suppression[c]] \in Transaction \ {NoTx}
      BY <1>0 DEF Transaction, NoTx
    <2>. QED
      BY <1>2, <2>1, BeginKeepsConsent DEF BeginOptOut
  <1>3. ASSUME NEW to \in Lifecycle, BeginMove(a, c, to)
        PROVE  ConsentInv'
    <2>1. [op |-> "move", channel |-> c, to |-> to] \in Transaction \ {NoTx}
      BY DEF Transaction, NoTx
    <2>2. choice[c] # "opt_in"
      BY <1>3 DEF BeginMove, Conflicts, ConsentInv, SpeakersWordStands
    <2>. QED
      BY <1>3, <2>1, <2>2, BeginKeepsConsent DEF BeginMove
  <1>. QED
    BY <1>1, <1>2, <1>3

(* A committed move finds that the Speaker has not opted in.               *)
LEMMA MovesKeepConsent ==
  ASSUME ConsentInv, NEW a \in Actors, CommitMove(a)
  PROVE  ConsentInv'
  <1>1. /\ tx[a] \in [op: {"move"}, channel: Channels, to: Lifecycle]
        /\ contact' = [contact EXCEPT ![tx[a].channel] = tx[a].to]
        /\ suppression' = suppression /\ choice' = choice /\ End(a)
    BY DEF CommitMove, ConsentInv, ConsentTypeOK, Transaction, NoTx
  <1>2. ConsentTypeOK'
    BY <1>1 DEF End, ConsentInv, ConsentTypeOK, Transaction
  <1>3. choice[tx[a].channel] # "opt_in"
    BY <1>1 DEF ConsentInv, LocksKept
  <1>4. SpeakersWordStands'
    BY <1>1, <1>3 DEF ConsentInv, ConsentTypeOK, SpeakersWordStands
  <1>. QED
    BY <1>1, <1>2, <1>4, EndKeepsConsent DEF Open

(* What an opt-in leaves behind: a candidate whom no Connector stopped. It *)
(* lifts the suppression it read, and no other.                            *)
LEMMA OptInKnows ==
  ASSUME ConsentInv, NEW a \in Actors, CommitOptIn(a)
  PROVE  LET c == tx[a].channel IN
         /\ c \in Channels /\ Open(a) /\ End(a)
         /\ contact' = [contact EXCEPT ![c] = "active_candidate"]
         /\ choice' = [choice EXCEPT ![c] = "opt_in"]
         /\ \/ /\ tx[a].read = suppression[c]
               /\ suppression[c].source \in Sources
               /\ suppression' = [suppression EXCEPT ![c].active = FALSE]
            \/ /\ suppression' = suppression
               /\ ~ (suppression[c].active /\ suppression[c].source = "coordinator")
  <1>1. /\ tx[a] \in [op: {"opt_in", "opt_out"}, channel: Channels, read: Suppression]
        /\ tx[a].op = "opt_in"
    BY DEF CommitOptIn, ConsentInv, ConsentTypeOK, Transaction, NoTx
  <1>2. tx[a].read # NoRow => suppression[tx[a].channel] = tx[a].read
    BY <1>1 DEF ConsentInv, LocksKept
  <1>3. tx[a].read = NoRow =>
          \/ suppression[tx[a].channel] = NoRow
          \/ suppression[tx[a].channel].source = "unsubscribe_link"
    BY <1>1 DEF ConsentInv, LocksKept
  <1>4. CASE tx[a].read.active
    <2>1. tx[a].read # NoRow /\ tx[a].read.source \in Sources
      BY <1>1, <1>4 DEF Suppression, NoRow
    <2>. QED
      BY <1>1, <1>2, <1>4, <2>1 DEF CommitOptIn, Lift, Open
  <1>5. CASE ~ tx[a].read.active
    <2>1. suppression' = suppression
      BY <1>5 DEF CommitOptIn, Lift
    <2>2. ~ (suppression[tx[a].channel].active /\ suppression[tx[a].channel].source = "coordinator")
      BY <1>2, <1>3, <1>5 DEF NoRow
    <2>. QED
      BY <1>1, <2>1, <2>2 DEF CommitOptIn, Open
  <1>. QED
    BY <1>4, <1>5

(* So the opt-in's own word stands.                                        *)
LEMMA OptInsKeepConsent ==
  ASSUME ConsentInv, NEW a \in Actors, CommitOptIn(a)
  PROVE  ConsentInv'
  <1>. DEFINE c == tx[a].channel
  <1>1. /\ c \in Channels /\ Open(a) /\ End(a)
        /\ contact' = [contact EXCEPT ![c] = "active_candidate"]
        /\ choice' = [choice EXCEPT ![c] = "opt_in"]
    BY OptInKnows
  <1>2. /\ suppression' \in [Channels -> Suppression]
        /\ \A d \in Channels : d # c => suppression'[d] = suppression[d]
        /\ ~ (suppression'[c].active /\ suppression'[c].source = "coordinator")
    <2>1. CASE /\ suppression[c].source \in Sources
               /\ suppression' = [suppression EXCEPT ![c].active = FALSE]
      <3>0. suppression[c] \in [source: Sources, active: BOOLEAN]
        BY <1>1, <2>1 DEF ConsentInv, ConsentTypeOK, Suppression, NoRow, Sources
      <3>1. [suppression[c] EXCEPT !.active = FALSE] \in [source: Sources, active: BOOLEAN]
        BY <3>0
      <3>. QED
        BY <1>1, <2>1, <3>1 DEF ConsentInv, ConsentTypeOK, Suppression
    <2>2. CASE /\ suppression' = suppression
               /\ ~ (suppression[c].active /\ suppression[c].source = "coordinator")
      BY <2>2 DEF ConsentInv, ConsentTypeOK
    <2>. QED
      BY <2>1, <2>2, OptInKnows
  <1>3. contact' \in [Channels -> Lifecycle \union {"absent"}]
    BY <1>1, ConsentAssumption DEF ConsentInv, ConsentTypeOK
  <1>4. ConsentTypeOK'
    BY <1>1, <1>2, <1>3 DEF ConsentInv, ConsentTypeOK, End, Transaction
  <1>5. SpeakersWordStands'
    BY <1>1, <1>2 DEF ConsentInv, ConsentTypeOK, SpeakersWordStands
  <1>. QED
    BY <1>1, <1>2, <1>4, <1>5, EndKeepsConsent

(* An opt-out leaves the address suppressed, whatever stood there.         *)
LEMMA OptOutsKeepConsent ==
  ASSUME ConsentInv, NEW a \in Actors, CommitOptOut(a)
  PROVE  ConsentInv'
  <1>. DEFINE c == tx[a].channel
  <1>. DEFINE row == Merged(suppression[c], "speaker_portal")
  <1>1. /\ c \in Channels /\ Open(a) /\ End(a)
        /\ contact' = contact
        /\ suppression' = [suppression EXCEPT ![c] = row]
        /\ choice' = [choice EXCEPT ![c] = "opt_out"]
    BY DEF CommitOptOut, Record, ConsentInv, ConsentTypeOK, Transaction, NoTx, Open
  <1>2. row \in Suppression /\ row.active
    BY <1>1, MergedRow DEF ConsentInv, ConsentTypeOK, Sources
  <1>. HIDE DEF row
  <1>3. ConsentTypeOK'
    BY <1>1, <1>2 DEF ConsentInv, ConsentTypeOK, End, Transaction
  <1>4. SpeakersWordStands'
    BY <1>1, <1>2 DEF ConsentInv, ConsentTypeOK, SpeakersWordStands
  <1>. QED
    BY <1>1, <1>3, <1>4, EndKeepsConsent DEF ConsentInv, ConsentTypeOK

(* A Connector suppresses under the channel's lock, and not who opted in.  *)
LEMMA SuppressKeepsConsent ==
  ASSUME ConsentInv, NEW c \in Channels, Suppress(c)
  PROVE  ConsentInv'
  <1>. DEFINE row == Merged(suppression[c], "coordinator")
  <1>1. /\ contact' = contact /\ choice' = choice /\ tx' = tx
        /\ suppression' = [suppression EXCEPT ![c] = row]
        /\ choice[c] # "opt_in"
    BY DEF Suppress, Record
  <1>2. row \in Suppression /\ row.active
    BY MergedRow DEF ConsentInv, ConsentTypeOK, Sources
  <1>. HIDE DEF row
  <1>3. ConsentTypeOK'
    BY <1>1, <1>2 DEF ConsentInv, ConsentTypeOK
  <1>4. SpeakersWordStands'
    BY <1>1, <1>2 DEF ConsentInv, ConsentTypeOK, SpeakersWordStands
  <1>5. \A a \in Actors : Open(a) => tx[a].channel # c
    BY DEF Suppress, ChannelIsFree, HoldsChannel, Open
  <1>6. LocksKept'
    BY <1>1, <1>5 DEF ConsentInv, ConsentTypeOK, LocksKept, Open
  <1>. QED
    BY <1>3, <1>4, <1>6 DEF ConsentInv

(* The link takes the row's lock only: an opt-in that is open has read no  *)
(* row, and will find this one.                                            *)
LEMMA UnsubscribeKeepsConsent ==
  ASSUME ConsentInv, NEW c \in Channels, Unsubscribe(c)
  PROVE  ConsentInv'
  <1>. DEFINE row == Merged(suppression[c], "unsubscribe_link")
  <1>1. /\ contact' = contact /\ choice' = choice /\ tx' = tx
        /\ suppression' = [suppression EXCEPT ![c] = row]
    BY DEF Unsubscribe, Record
  <1>2. /\ row \in Suppression /\ row.active
        /\ row.source \in {suppression[c].source, "unsubscribe_link"}
        /\ ~ suppression[c].active => row.source = "unsubscribe_link"
    BY MergedRow DEF ConsentInv, ConsentTypeOK, Sources
  <1>. HIDE DEF row
  <1>3. ConsentTypeOK'
    BY <1>1, <1>2 DEF ConsentInv, ConsentTypeOK
  <1>4. SpeakersWordStands'
    BY <1>1, <1>2 DEF ConsentInv, ConsentTypeOK, SpeakersWordStands
  <1>5. \A a \in Actors : tx[a].op = "opt_in" /\ tx[a].channel = c => tx[a].read = NoRow
    BY DEF Unsubscribe, SuppressionIsFree, HoldsSuppression
  <1>6. \A a \in Actors : tx[a].op = "opt_in" /\ tx[a].channel = c =>
          suppression'[c].source = "unsubscribe_link"
    BY <1>1, <1>2, <1>5 DEF ConsentInv, ConsentTypeOK, LocksKept, NoRow
  <1>7. \A a \in Actors : tx[a].op = "opt_in" /\ tx[a].channel # c =>
          suppression'[tx[a].channel] = suppression[tx[a].channel]
    BY <1>1 DEF ConsentInv, ConsentTypeOK, Transaction, NoTx
  <1>8. LocksKept'
    <2>1. \A a, b \in Actors : Open(a)' /\ Open(b)' /\ tx'[a].channel = tx'[b].channel => a = b
      BY <1>1 DEF ConsentInv, LocksKept, Open
    <2>2. \A a \in Actors : tx'[a].op = "move" => choice'[tx'[a].channel] # "opt_in"
      BY <1>1 DEF ConsentInv, LocksKept
    <2>3. ASSUME NEW a \in Actors, tx'[a].op = "opt_in"
          PROVE  /\ tx'[a].read.active => tx'[a].read.source \in Liftable(tx'[a].channel)
                 /\ tx'[a].read # NoRow => suppression'[tx'[a].channel] = tx'[a].read
                 /\ tx'[a].read = NoRow =>
                      \/ suppression'[tx'[a].channel] = NoRow
                      \/ suppression'[tx'[a].channel].source = "unsubscribe_link"
      <3>1. CASE tx[a].channel = c
        BY <1>1, <1>5, <1>6, <2>3, <3>1 DEF NoRow
      <3>2. CASE tx[a].channel # c
        BY <1>1, <1>7, <2>3, <3>2 DEF ConsentInv, LocksKept
      <3>. QED
        BY <3>1, <3>2
    <2>. QED
      BY <2>1, <2>2, <2>3 DEF LocksKept
  <1>. QED
    BY <1>3, <1>4, <1>8 DEF ConsentInv

(* A new channel has no choice, and an aborted transaction wrote nothing.  *)
LEMMA OthersKeepConsent ==
  ASSUME ConsentInv,
         \/ \E c \in Channels : Register(c)
         \/ \E a \in Actors : Abort(a)
         \/ UNCHANGED consentVars
  PROVE  ConsentInv'
  <1>1. ASSUME NEW c \in Channels, Register(c)
        PROVE  ConsentInv'
    <2>1. /\ contact[c] = "absent"
          /\ \E state \in Lifecycle : contact' = [contact EXCEPT ![c] = state]
          /\ suppression' = suppression /\ choice' = choice /\ tx' = tx
      BY <1>1 DEF Register
    <2>2. ConsentTypeOK'
      BY <2>1 DEF ConsentInv, ConsentTypeOK
    <2>3. SpeakersWordStands'
      BY <2>1 DEF ConsentInv, ConsentTypeOK, SpeakersWordStands
    <2>. QED
      BY <2>1, <2>2, <2>3 DEF ConsentInv, LocksKept, Open
  <1>2. ASSUME NEW a \in Actors, Abort(a)
        PROVE  ConsentInv'
    <2>1. /\ contact' = contact /\ suppression' = suppression /\ choice' = choice
          /\ End(a) /\ Open(a)
      BY <1>2 DEF Abort, Open, ConsentInv, ConsentTypeOK, Transaction, NoTx
    <2>2. ConsentTypeOK' /\ SpeakersWordStands'
      BY <2>1 DEF ConsentInv, ConsentTypeOK, SpeakersWordStands, End, Transaction
    <2>. QED
      BY <2>1, <2>2, EndKeepsConsent
  <1>3. CASE UNCHANGED consentVars
    BY <1>3 DEF consentVars, ConsentInv, ConsentTypeOK, LocksKept, Open, SpeakersWordStands
  <1>. QED
    BY <1>1, <1>2, <1>3

(* So every step keeps what the Speaker's word rests on.                   *)
LEMMA ConsentKept ==
  ASSUME ConsentInv, Sending \/ Consenting
  PROVE  ConsentInv'
  <1>1. CASE Sending
    BY <1>1, OthersKeepConsent DEF Sending
  <1>2. CASE Consenting
    <2>1. ASSUME NEW j \in Jobs, FollowLink(j)
          PROVE  ConsentInv'
      BY <2>1, OutreachAssumption, UnsubscribeKeepsConsent DEF FollowLink
    <2>. QED
      BY <1>2, <2>1, OthersKeepConsent, SuppressKeepsConsent, BeginsKeepConsent,
         MovesKeepConsent, OptInsKeepConsent, OptOutsKeepConsent
         DEF Consenting, ConsentStep
  <1>. QED
    BY <1>1, <1>2

(* Only a committed opt-in makes a suppression inactive, the one it read.  *)
LEMMA OnlyOptInsLift ==
  ASSUME ConsentInv, Sending \/ Consenting, NEW c \in Channels,
         suppression[c].active, ~ suppression'[c].active
  PROVE  \E a \in Actors :
           tx[a].op = "opt_in" /\ tx[a].channel = c /\ tx[a].read = suppression[c]
  <1>1. ASSUME NEW d \in Channels, NEW source \in Sources, Record(d, source)
        PROVE  FALSE
    <2>1. Merged(suppression[d], source).active
      BY MergedRow DEF ConsentInv, ConsentTypeOK
    <2>2. suppression'[c] = IF c = d THEN Merged(suppression[d], source) ELSE suppression[c]
      BY <1>1 DEF Record, ConsentInv, ConsentTypeOK
    <2>. QED
      BY <2>1, <2>2
  <1>2. ASSUME NEW d \in Channels, Suppress(d) \/ Unsubscribe(d)
        PROVE  FALSE
    BY <1>1, <1>2 DEF Suppress, Unsubscribe, Sources
  <1>3. ASSUME NEW a \in Actors, CommitOptOut(a)
        PROVE  FALSE
    <2>1. tx[a].channel \in Channels
      BY <1>3 DEF CommitOptOut, ConsentInv, ConsentTypeOK, Transaction, NoTx
    <2>. QED
      BY <1>1, <1>3, <2>1 DEF CommitOptOut, Sources
  <1>4. ASSUME NEW a \in Actors, CommitOptIn(a)
        PROVE  tx[a].op = "opt_in" /\ tx[a].channel = c /\ tx[a].read = suppression[c]
    <2>. DEFINE d == tx[a].channel
    <2>1. d \in Channels /\ (d # c => suppression'[c] = suppression[c])
      <3>1. d \in Channels /\
            (suppression' = suppression \/ suppression' = [suppression EXCEPT ![d].active = FALSE])
        BY <1>4, OptInKnows
      <3>. QED
        BY <3>1 DEF ConsentInv, ConsentTypeOK
    <2>2. d = c
      BY <2>1
    <2>. QED
      BY <1>4, <2>2, OptInKnows DEF CommitOptIn
  <1>5. suppression' # suppression
    OBVIOUS
  <1>6. CASE Sending
    BY <1>5, <1>6 DEF Sending, consentVars
  <1>7. CASE Consenting
    <2>1. ASSUME NEW j \in Jobs, FollowLink(j)
          PROVE  FALSE
      BY <1>2, <2>1, OutreachAssumption DEF FollowLink
    <2>2. CASE \E a \in Actors : CommitOptIn(a)
      BY <1>4, <2>2
    <2>3. CASE \/ \E d \in Channels : Register(d)
               \/ \E a \in Actors : CommitMove(a) \/ Abort(a)
               \/ \E a \in Actors, d \in Channels :
                    \/ BeginOptIn(a, d) \/ BeginOptOut(a, d)
                    \/ \E to \in Lifecycle : BeginMove(a, d, to)
      BY <1>5, <2>3
         DEF Register, CommitMove, Abort, BeginOptIn, BeginOptOut, BeginMove, Begin
    <2>. QED
      BY <1>2, <1>3, <1>7, <2>1, <2>2, <2>3 DEF Consenting, ConsentStep
  <1>. QED
    BY <1>6, <1>7

-----------------------------------------------------------------------------
(* Sends.                                                                  *)

(* What may become of a send's row: it is reserved, its stream grows, and  *)
(* it is concluded once.                                                   *)
Grows(j) ==
  /\ sends[j].events \subseteq sends'[j].events
  /\ sends[j].disposition # "absent" => sends'[j].disposition # "absent"
  /\ Concluded(j) => sends'[j].disposition = sends[j].disposition

SendsGrow == \A j \in Jobs : Grows(j)

(* A conclusion is recorded with its event, and over no other conclusion.  *)
LEMMA ConcludingConcludes ==
  ASSUME NEW send \in Send, NEW d \in Dispositions
  PROVE  LET next == ConcludedAs(send, d) IN
         /\ next \in Send
         /\ next.events = send.events \union {d}
         /\ send.disposition = "null" => next.disposition = d
         /\ send.disposition # "null" => next.disposition = send.disposition
  BY DEF ConcludedAs, Appended, Send

(* A run's place, and what it knows, in a record that says so.             *)
LEMMA RunFields ==
  ASSUME SendTypeOK, NEW w \in Workers, run[w].at # "idle"
  PROVE  /\ run[w] \in [at: Places, job: Jobs, facts: BOOLEAN, replay: BOOLEAN, outcome: Outcome]
         /\ run[w].job \in Jobs /\ run[w] # Idle
  BY DEF SendTypeOK, Run, Idle

(* A step that leaves a worker alone leaves what its run has established.  *)
LEMMA AloneIsKept ==
  ASSUME SendInv, SendsGrow, Remembers, NEW w \in Workers, run'[w] = run[w]
  PROVE  RunKept(w)'
  <1>. SUFFICES ASSUME run[w] # Idle PROVE RunKept(w)'
    BY DEF RunKept
  <1>1. run[w].job \in Jobs
    BY DEF SendInv, SendTypeOK, Run
  <1>2. Grows(run[w].job) /\ RunKept(w)
    BY <1>1 DEF SendsGrow, SendInv, RunsKept
  <1>3. allowed[w] => allowed'[w]
    BY DEF Remembers
  <1>. QED
    BY <1>2, <1>3 DEF RunKept, Grows, Concluded

(* The history is Boolean, and what is so now is remembered from now on.   *)
LEMMA Remembered ==
  ASSUME Remembers
  PROVE  /\ allowed' \in [Workers -> BOOLEAN]
         /\ \A w \in Workers : run'[w] # Idle /\ MayBeWrittenTo(w)' => allowed'[w]
         /\ \A w \in Workers : run'[w] # Idle /\ allowed[w] => allowed'[w]
  <1>1. \A w \in Workers : (run'[w] # Idle /\ (allowed[w] \/ MayBeWrittenTo(w)')) \in BOOLEAN
    OBVIOUS
  <1>. QED
    BY <1>1 DEF Remembers

(* A step of one run that writes to no job.                                *)
LEMMA RunMoves ==
  ASSUME SendInv, Remembers, NEW w \in Workers, NEW next \in Run,
         run' = [run EXCEPT ![w] = next], jobs' = jobs,
         calls' \in [Jobs -> Nat], sends' \in [Jobs -> Send],
         SendsGrow, EventsKept', RunKept(w)'
  PROVE  SendInv' /\ SendsGrow
  <1>1. run' \in [Workers -> Run] /\ \A v \in Workers \ {w} : run'[v] = run[v]
    BY DEF SendInv, SendTypeOK
  <1>2. SendTypeOK'
    BY <1>1, Remembered DEF SendInv, SendTypeOK
  <1>3. RunsKept'
    BY <1>1, AloneIsKept DEF RunsKept
  <1>4. EndingsKept'
    BY DEF SendInv, EndingsKept, SendsGrow, Grows, Concluded
  <1>. QED
    BY <1>2, <1>3, <1>4 DEF SendInv

(* A step that leaves the rows of the sends alone lets them "grow".        *)
LEMMA RowsStay ==
  ASSUME SendInv, sends' = sends
  PROVE  SendsGrow /\ EventsKept' /\ sends' \in [Jobs -> Send]
  BY DEF SendsGrow, Grows, SendInv, SendTypeOK, EventsKept, Concluded

(* A step that writes one row of the sends.                                *)
LEMMA RowGrows ==
  ASSUME SendInv, NEW j \in Jobs, NEW row \in Send, sends' = [sends EXCEPT ![j] = row],
         Grows(j), Concluded(j)' => row.disposition \in row.events
  PROVE  SendsGrow /\ EventsKept' /\ sends' \in [Jobs -> Send] /\ sends'[j] = row
  BY DEF SendsGrow, Grows, SendInv, SendTypeOK, EventsKept, Concluded

(* The command's own steps reach no outcome.                               *)
LEMMA CommandsKeepSends ==
  ASSUME SendInv, Remembers, NEW j \in Jobs,
         Check(j) \/ Submit(j) \/ SweepJob(j) \/ Redrive(j)
  PROVE  SendInv' /\ SendsGrow
  <1>1. /\ \E to \in {"checked", "ready", "timed_out"} :
             jobs' = [jobs EXCEPT ![j].state = to]
        /\ sends' = sends /\ run' = run /\ calls' = calls
    BY DEF Check, Submit, SweepJob, Redrive, Move
  <1>2. jobs' \in [Jobs -> Job]
    BY <1>1 DEF SendInv, SendTypeOK, Job
  <1>3. SendsGrow /\ EventsKept'
    BY <1>1, RowsStay
  <1>4. SendTypeOK'
    BY <1>1, <1>2, Remembered DEF SendInv, SendTypeOK
  <1>5. RunsKept'
    BY <1>1, <1>3, AloneIsKept DEF RunsKept
  <1>6. EndingsKept'
    BY <1>1 DEF SendInv, SendTypeOK, EndingsKept, Concluded
  <1>. QED
    BY <1>3, <1>4, <1>5, <1>6 DEF SendInv

(* A claimed run knows whether its send had an outcome.                    *)
LEMMA ClaimKeepsSends ==
  ASSUME SendInv, Remembers, NEW w \in Workers, NEW j \in Jobs, Claim(w, j)
  PROVE  SendInv' /\ SendsGrow
  <1>. DEFINE next == [at |-> "claimed", job |-> j, facts |-> FALSE,
                       replay |-> Concluded(j), outcome |-> "failed_provider"]
  <1>1. /\ jobs' = [jobs EXCEPT ![j].state = "running", ![j].runs = @ + 1]
        /\ run' = [run EXCEPT ![w] = next]
        /\ sends' = sends /\ calls' = calls
    BY DEF Claim
  <1>2. Concluded(j) \in BOOLEAN
    BY DEF Concluded
  <1>3. next \in Run
    BY <1>2 DEF Run, Places, Outcome
  <1>4. jobs' \in [Jobs -> Job]
    BY <1>1 DEF SendInv, SendTypeOK, Job
  <1>5. run' \in [Workers -> Run] /\ run'[w] = next /\ \A v \in Workers \ {w} : run'[v] = run[v]
    <2>. HIDE DEF next
    <2>. QED
      BY <1>1, <1>3 DEF SendInv, SendTypeOK
  <1>6. SendsGrow /\ EventsKept'
    BY <1>1, RowsStay
  <1>7. RunKept(w)'
    BY <1>1, <1>5 DEF RunKept, Concluded
  <1>8. RunsKept'
    BY <1>5, <1>6, <1>7, AloneIsKept DEF RunsKept
  <1>9. SendTypeOK'
    BY <1>1, <1>4, <1>5, Remembered DEF SendInv, SendTypeOK
  <1>10. EndingsKept'
    BY <1>1 DEF SendInv, SendTypeOK, EndingsKept, Concluded
  <1>. QED
    BY <1>6, <1>8, <1>9, <1>10 DEF SendInv

(* Where a run goes, with what it has kept of its claim.                   *)
LEMMA Went ==
  ASSUME SendInv, NEW w \in Workers, run[w].at # "idle",
         NEW place \in Places, NEW outcome \in Outcome,
         \/ GoTo(w, place)
         \/ place = "ended" /\ EndWith(w, outcome)
  PROVE  \E next \in Run :
           /\ run' = [run EXCEPT ![w] = next]
           /\ run'[w] = next
           /\ next # Idle /\ next.at = place
           /\ next.job = run[w].job /\ next.job \in Jobs
           /\ next.facts = run[w].facts /\ next.replay = run[w].replay
           /\ GoTo(w, place) \/ next.outcome = outcome
  <1>. DEFINE R == [at: Places, job: Jobs, facts: BOOLEAN, replay: BOOLEAN, outcome: Outcome]
  <1>1. run[w] \in R /\ run[w].job \in Jobs
    BY RunFields DEF SendInv
  <1>2. \A r \in R : r # Idle /\ r \in Run
    BY DEF Idle, Run
  <1>3. CASE GoTo(w, place)
    <2>. DEFINE next == [run[w] EXCEPT !.at = place]
    <2>1. /\ next \in R /\ next.at = place /\ next.job = run[w].job
          /\ next.facts = run[w].facts /\ next.replay = run[w].replay
      BY <1>1
    <2>2. run' = [run EXCEPT ![w] = next]
      BY <1>3 DEF GoTo
    <2>. HIDE DEF next, R
    <2>3. run'[w] = next
      BY <2>2 DEF SendInv, SendTypeOK
    <2>. QED
      BY <1>1, <1>2, <1>3, <2>1, <2>2, <2>3
  <1>4. CASE place = "ended" /\ EndWith(w, outcome)
    <2>. DEFINE next == [run[w] EXCEPT !.at = "ended", !.outcome = outcome]
    <2>1. /\ next \in R /\ next.at = place /\ next.job = run[w].job /\ next.outcome = outcome
          /\ next.facts = run[w].facts /\ next.replay = run[w].replay
      BY <1>1, <1>4
    <2>2. run' = [run EXCEPT ![w] = next]
      BY <1>4 DEF EndWith
    <2>. HIDE DEF next, R
    <2>3. run'[w] = next
      BY <2>2 DEF SendInv, SendTypeOK
    <2>. QED
      BY <1>1, <1>2, <2>1, <2>2, <2>3
  <1>. QED
    BY <1>3, <1>4

(* Reading the recipient: what is so now is remembered.                    *)
LEMMA LoadKeepsSends ==
  ASSUME SendInv, Remembers, UNCHANGED consentVars, NEW w \in Workers, LoadRecipient(w)
  PROVE  SendInv' /\ SendsGrow
  <1>. DEFINE R == [at: Places, job: Jobs, facts: BOOLEAN, replay: BOOLEAN, outcome: Outcome]
  <1>. DEFINE may == Sendable(Recipient[run[w].job])
  <1>. DEFINE next == [run[w] EXCEPT !.at = "read", !.facts = may]
  <1>1. /\ run' = [run EXCEPT ![w] = next]
        /\ jobs' = jobs /\ sends' = sends /\ calls' = calls /\ run[w].at = "claimed"
    BY DEF LoadRecipient, At
  <1>2. run[w] \in R /\ run[w] # Idle
    BY <1>1, RunFields DEF SendInv
  <1>3. may \in BOOLEAN
    BY DEF Sendable
  <1>. HIDE DEF may
  <1>4. next \in R /\ next.at = "read" /\ next.facts = may
        /\ next.job = run[w].job /\ next.replay = run[w].replay
    BY <1>2, <1>3 DEF Places
  <1>5. next \in Run /\ next # Idle
    BY <1>4 DEF Run, Idle
  <1>. HIDE DEF next, R
  <1>6. run'[w] = next
    BY <1>1 DEF SendInv, SendTypeOK
  <1>7. MayBeWrittenTo(w)' = may
    BY <1>4, <1>6 DEF MayBeWrittenTo, Sendable, consentVars, may
  <1>8. SendsGrow /\ EventsKept' /\ sends' \in [Jobs -> Send]
    BY <1>1, RowsStay
  <1>9. RunKept(w)
    BY DEF SendInv, RunsKept
  <1>10. RunKept(w)'
    <2>1. next.facts => allowed'[w]
      BY <1>4, <1>5, <1>6, <1>7, Remembered
    <2>2. next.replay => sends'[run'[w].job].disposition \in Dispositions
      BY <1>1, <1>2, <1>4, <1>6, <1>9 DEF RunKept, Concluded
    <2>. QED
      BY <1>4, <1>6, <2>1, <2>2 DEF RunKept, Concluded
  <1>. QED
    BY <1>1, <1>5, <1>8, <1>10, RunMoves DEF SendInv, SendTypeOK

(* The reservation: after it the row is there, and with an outcome it is    *)
(* replayed.                                                               *)
LEMMA ReserveKeepsSends ==
  ASSUME SendInv, Remembers, NEW w \in Workers, ReserveSend(w)
  PROVE  SendInv' /\ SendsGrow
  <1>0. run[w].at = "read" /\ run[w].job \in Jobs /\ run[w] # Idle
    BY RunFields DEF ReserveSend, At, SendInv
  <1>. PICK j \in Jobs : j = run[w].job
    BY <1>0
  <1>. PICK place \in Places : place = IF Concluded(j) THEN "replaying" ELSE "reserved"
    BY DEF Places
  <1>1. jobs' = jobs /\ calls' = calls /\ GoTo(w, place)
    BY DEF ReserveSend
  <1>2. run[w] # Idle
    BY <1>0
  <1>3. PICK next \in Run :
          /\ run' = [run EXCEPT ![w] = next] /\ run'[w] = next
          /\ next # Idle /\ next.at = place
          /\ next.job = j /\ next.facts = run[w].facts /\ next.replay = run[w].replay
    BY <1>0, <1>1, Went DEF Outcome
  <1>4. /\ SendsGrow /\ EventsKept' /\ sends' \in [Jobs -> Send]
        /\ sends'[j].disposition # "absent"
        /\ Concluded(j) => Concluded(j)'
    <2>1. CASE sends[j].disposition = "absent"
      <3>. DEFINE row == [sends[j] EXCEPT !.disposition = "null"]
      <3>1. sends' = [sends EXCEPT ![j] = row]
        BY <2>1 DEF ReserveSend, Concluded
      <3>2. row \in Send /\ row.disposition = "null" /\ row.events = sends[j].events
        BY <1>2 DEF SendInv, SendTypeOK, Send
      <3>. HIDE DEF row
      <3>3. sends'[j] = row
        BY <3>1 DEF SendInv, SendTypeOK
      <3>4. Grows(j) /\ ~ Concluded(j) /\ ~ Concluded(j)'
        BY <2>1, <3>2, <3>3 DEF Grows, Concluded, Dispositions
      <3>. QED
        BY <3>1, <3>2, <3>3, <3>4, RowGrows
    <2>2. CASE sends[j].disposition # "absent"
      <3>1. sends' = sends
        BY <2>2 DEF ReserveSend
      <3>. QED
        BY <2>2, <3>1, RowsStay DEF Concluded
    <2>. QED
      BY <2>1, <2>2
  <1>5. RunKept(w)
    BY DEF SendInv, RunsKept
  <1>6. run[w].replay => Concluded(j)
    BY <1>2, <1>5 DEF RunKept
  <1>7. RunKept(w)'
    <2>1. next.facts => allowed'[w]
      BY <1>2, <1>3, <1>5, Remembered DEF RunKept
    <2>. QED
      BY <1>3, <1>4, <1>6, <2>1 DEF RunKept, Concluded
  <1>. QED
    BY <1>1, <1>3, <1>4, <1>7, RunMoves DEF SendInv, SendTypeOK

(* A run that only moves on, or ends as its place entitles it to.          *)
LEMMA MovesKeepSends ==
  ASSUME SendInv, Remembers, NEW w \in Workers,
         Replayed(w) \/ CallProvider(w) \/ Succeeded(w) \/ EmitFails(w)
  PROVE  SendInv' /\ SendsGrow
  <1>1. run[w].at \in {"replaying", "queued", "recorded", "reserved"}
    BY DEF Replayed, CallProvider, Succeeded, EmitFails, At
  <1>2. /\ jobs' = jobs /\ sends' = sends
        /\ \/ run[w].at \in {"replaying", "recorded"} /\ EndWith(w, "succeeded")
           \/ run[w].at = "queued" /\ GoTo(w, "called")
           \/ EndWith(w, "failed_provider")
    BY DEF Replayed, CallProvider, Succeeded, EmitFails, At
  <1>3. calls' \in [Jobs -> Nat]
    BY <1>1, RunFields DEF Replayed, CallProvider, Succeeded, EmitFails, SendInv, SendTypeOK
  <1>4. run[w] # Idle /\ run[w].job \in Jobs
    BY <1>1, RunFields DEF SendInv
  <1>5. PICK next \in Run :
          /\ run' = [run EXCEPT ![w] = next] /\ run'[w] = next /\ next # Idle
          /\ next.job = run[w].job /\ next.facts = run[w].facts /\ next.replay = run[w].replay
          /\ \/ /\ run[w].at \in {"replaying", "recorded"}
                /\ next.at = "ended"
             \/ run[w].at = "queued" /\ next.at = "called"
             \/ next.at = "ended" /\ next.outcome = "failed_provider"
    <2>1. CASE run[w].at \in {"replaying", "recorded"} /\ EndWith(w, "succeeded")
      <3>. "ended" \in Places /\ "succeeded" \in Outcome
        BY DEF Places, Outcome
      <3>. QED
        BY <1>1, <2>1, Went
    <2>2. CASE run[w].at = "queued" /\ GoTo(w, "called")
      <3>. "called" \in Places /\ "succeeded" \in Outcome
        BY DEF Places, Outcome
      <3>. QED
        BY <1>1, <2>2, Went
    <2>3. CASE EndWith(w, "failed_provider")
      <3>1. "ended" \in Places /\ "failed_provider" \in Outcome
        BY DEF Places, Outcome
      <3>3. run'[w].outcome = "failed_provider"
        BY <1>1, <2>3, RunFields DEF EndWith, SendInv, SendTypeOK
      <3>. QED
        BY <1>1, <2>3, <3>1, <3>3, Went
    <2>. QED
      BY <1>2, <2>1, <2>2, <2>3
  <1>6. RunKept(w)
    BY DEF SendInv, RunsKept
  <1>7. RunKept(w)'
    <2>1. next.facts => allowed'[w]
      BY <1>4, <1>5, <1>6, Remembered DEF RunKept
    <2>2. next.replay => run[w].at = "replaying" /\ Concluded(next.job)'
      BY <1>1, <1>2, <1>4, <1>5, <1>6 DEF RunKept, Concluded
    <2>3. run[w].at \in {"replaying", "recorded"} => Concluded(next.job)'
      BY <1>2, <1>4, <1>5, <1>6 DEF RunKept, Concluded
    <2>4. run[w].at = "queued" => sends'[next.job].disposition # "absent"
      BY <1>2, <1>4, <1>5, <1>6 DEF RunKept
    <2>. QED
      BY <1>5, <2>1, <2>2, <2>3, <2>4 DEF RunKept
  <1>. QED
    BY <1>2, <1>3, <1>5, <1>7, RowsStay, RunMoves

(* A run that records something: "queued" beside what stands, or the       *)
(* outcome where none does.                                                *)
LEMMA RecordsKeepSends ==
  ASSUME SendInv, Remembers, NEW w \in Workers,
         Queued(w) \/ Refuse(w) \/ ProviderFailed(w) \/ ProviderAccepted(w)
  PROVE  SendInv' /\ SendsGrow
  <1>1. run[w].at \in {"reserved", "queued", "called"}
    BY DEF Queued, Refuse, ProviderFailed, ProviderAccepted, At
  <1>2. run[w] # Idle /\ run[w].job \in Jobs
    BY <1>1, RunFields DEF SendInv
  <1>. PICK j \in Jobs : j = run[w].job
    BY <1>2
  <1>3. /\ RunKept(w) /\ ~ run[w].replay /\ sends[j].disposition # "absent"
        /\ sends[j] \in Send
    BY <1>1, <1>2 DEF SendInv, SendTypeOK, RunsKept, RunKept
  <1>4. jobs' = jobs /\ calls' = calls
    BY DEF Queued, Refuse, ProviderFailed, ProviderAccepted
  <1>5. CASE Queued(w)
    <2>. DEFINE row == Appended(sends[j], "queued")
    <2>1. sends' = [sends EXCEPT ![j] = row]
      BY <1>5 DEF Queued
    <2>2. /\ row \in Send /\ row.disposition = sends[j].disposition
          /\ row.events = sends[j].events \union {"queued"}
      BY <1>3 DEF Appended, Send
    <2>. HIDE DEF row
    <2>3. sends'[j] = row
      BY <2>1 DEF SendInv, SendTypeOK
    <2>4. Grows(j) /\ (Concluded(j)' => row.disposition \in row.events)
      BY <2>2, <2>3 DEF Grows, Concluded, SendInv, EventsKept
    <2>5. SendsGrow /\ EventsKept' /\ sends' \in [Jobs -> Send]
      BY <2>1, <2>2, <2>4, RowGrows
    <2>6. GoTo(w, "queued") /\ "queued" \in Places /\ "succeeded" \in Outcome
      BY <1>5 DEF Queued, Places, Outcome
    <2>7. PICK next \in Run :
            /\ run' = [run EXCEPT ![w] = next] /\ run'[w] = next /\ next # Idle
            /\ next.at = "queued" /\ next.job = j
            /\ next.facts = run[w].facts /\ next.replay = run[w].replay
      BY <1>1, <2>6, Went
    <2>8. RunKept(w)'
      BY <1>2, <1>3, <2>2, <2>3, <2>7, Remembered DEF RunKept
    <2>. QED
      BY <1>4, <2>5, <2>7, <2>8, RunMoves DEF SendInv, SendTypeOK
  <1>6. ASSUME NEW d \in Dispositions, Conclude(w, d),
               NEW place \in {"recorded", "ended"}, NEW outcome \in Outcome,
               \/ GoTo(w, place)
               \/ place = "ended" /\ EndWith(w, outcome)
        PROVE  SendInv' /\ SendsGrow
    <2>. DEFINE row == ConcludedAs(sends[j], d)
    <2>1. sends' = [sends EXCEPT ![j] = row]
      BY <1>6 DEF Conclude
    <2>2. /\ row \in Send
          /\ row.events = sends[j].events \union {d}
          /\ sends[j].disposition = "null" => row.disposition = d
          /\ sends[j].disposition # "null" => row.disposition = sends[j].disposition
      BY <1>3, ConcludingConcludes
    <2>. HIDE DEF row
    <2>3. sends'[j] = row
      BY <2>1 DEF SendInv, SendTypeOK
    <2>4. sends[j].disposition \in Dispositions \union {"null"}
      BY <1>3 DEF Send
    <2>5. Concluded(j)' /\ row.disposition \in row.events
      BY <2>2, <2>3, <2>4 DEF Concluded, SendInv, EventsKept
    <2>6. Grows(j)
      BY <2>2, <2>3, <2>5 DEF Grows, Concluded, Dispositions
    <2>7. SendsGrow /\ EventsKept' /\ sends' \in [Jobs -> Send]
      BY <2>1, <2>2, <2>5, <2>6, RowGrows
    <2>8. PICK next \in Run :
            /\ run' = [run EXCEPT ![w] = next] /\ run'[w] = next /\ next # Idle
            /\ next.at = place /\ next.job = j
            /\ next.facts = run[w].facts /\ next.replay = run[w].replay
      BY <1>1, <1>6, Went DEF Places
    <2>9. RunKept(w)'
      BY <1>2, <1>3, <2>5, <2>8, Remembered DEF RunKept, Concluded
    <2>. QED
      BY <1>4, <2>7, <2>8, <2>9, RunMoves DEF SendInv, SendTypeOK
  <1>7. {"blocked", "failed", "accepted"} \subseteq Dispositions
        /\ {"failed_policy", "failed_provider"} \subseteq Outcome
    BY DEF Dispositions, Outcome
  <1>8. CASE Refuse(w)
    BY <1>6, <1>7, <1>8 DEF Refuse
  <1>9. CASE ProviderFailed(w)
    BY <1>6, <1>7, <1>9 DEF ProviderFailed
  <1>10. CASE ProviderAccepted(w)
    BY <1>6, <1>7, <1>10 DEF ProviderAccepted
  <1>. QED
    BY <1>5, <1>8, <1>9, <1>10

(* A run that is over, or dead. What it reports it has made sure of.       *)
LEMMA EndsKeepSends ==
  ASSUME SendInv, Remembers, NEW w \in Workers, Finish(w) \/ Crash(w)
  PROVE  SendInv' /\ SendsGrow
  <1>1. /\ run' = [run EXCEPT ![w] = Idle] /\ sends' = sends /\ calls' = calls
        /\ run[w].at # "idle"
    BY DEF Finish, Crash, At
  <1>2. Idle \in Run /\ run[w].job \in Jobs /\ run[w] # Idle
    BY <1>1, RunFields DEF Run, SendInv
  <1>3. SendsGrow /\ EventsKept' /\ sends' \in [Jobs -> Send]
    BY <1>1, RowsStay
  <1>4. run'[w] = Idle /\ RunKept(w)'
    BY <1>1, <1>2 DEF SendInv, SendTypeOK, RunKept
  <1>5. CASE jobs' = jobs
    BY <1>1, <1>2, <1>3, <1>4, <1>5, RunMoves DEF SendInv, SendTypeOK
  <1>6. CASE jobs' # jobs
    <2>. PICK j \in Jobs : j = run[w].job
      BY <1>2
    <2>1. /\ jobs' = [jobs EXCEPT ![j].state = run[w].outcome] /\ run[w].at = "ended"
      BY <1>6 DEF Finish, Crash, At
    <2>2. run[w].outcome \in Outcome
      BY <1>1, RunFields DEF SendInv
    <2>3. jobs' \in [Jobs -> Job]
      BY <2>1, <2>2 DEF SendInv, SendTypeOK, Job
    <2>4. RunKept(w)
      BY DEF SendInv, RunsKept
    <2>5. run[w].outcome \in {"succeeded", "failed_policy"} => Concluded(j)
      BY <1>2, <2>1, <2>4 DEF RunKept
    <2>6. \A i \in Jobs : /\ i # j => jobs'[i] = jobs[i]
                          /\ i = j => jobs'[i].state = run[w].outcome
      BY <2>1 DEF SendInv, SendTypeOK, Job
    <2>7. EndingsKept'
      BY <1>1, <2>5, <2>6 DEF SendInv, EndingsKept, Concluded
    <2>8. SendTypeOK'
      BY <1>1, <1>2, <1>3, <2>3, Remembered DEF SendInv, SendTypeOK
    <2>9. \A v \in Workers \ {w} : run'[v] = run[v]
      BY <1>1 DEF SendInv, SendTypeOK
    <2>10. RunsKept'
      BY <1>3, <1>4, <2>9, AloneIsKept DEF RunsKept
    <2>. QED
      BY <1>3, <2>7, <2>8, <2>10 DEF SendInv
  <1>. QED
    BY <1>5, <1>6

(* Every step keeps what the runs have established, and rows only grow.    *)
LEMMA SendsKept ==
  ASSUME SendInv, Remembers, Sending \/ Consenting
  PROVE  SendInv' /\ SendsGrow
  <1>1. CASE Sending
    BY <1>1, CommandsKeepSends, ClaimKeepsSends, LoadKeepsSends, ReserveKeepsSends,
       MovesKeepSends, RecordsKeepSends, EndsKeepSends
       DEF Sending, SendStep
  <1>2. CASE Consenting
    <2>1. jobs' = jobs /\ sends' = sends /\ run' = run /\ calls' = calls
      BY <1>2 DEF Consenting, sendVars
    <2>2. SendsGrow /\ EventsKept'
      BY <2>1, RowsStay
    <2>3. SendTypeOK' /\ EndingsKept'
      BY <2>1, Remembered DEF SendInv, SendTypeOK, EndingsKept, Concluded
    <2>4. RunsKept'
      BY <2>1, <2>2, AloneIsKept DEF RunsKept
    <2>. QED
      BY <2>2, <2>3, <2>4 DEF SendInv
  <1>. QED
    BY <1>1, <1>2

(* The initial states have no run, no row and no outcome.                  *)
LEMMA SendsStart == Init => SendInv
  <1>. SUFFICES ASSUME Init PROVE SendInv
    OBVIOUS
  <1>1. SendTypeOK
    BY DEF Init, SendTypeOK, Job, Send, Run
  <1>2. RunsKept /\ EventsKept /\ EndingsKept
    BY DEF Init, RunsKept, RunKept, EventsKept, EndingsKept, Concluded, Dispositions
  <1>. QED
    BY <1>1, <1>2 DEF SendInv

-----------------------------------------------------------------------------
(* Theorems.                                                               *)

(* Only CallProvider calls the provider, and on facts that were read.      *)
LEMMA CallsAreMade ==
  ASSUME SendInv, Sending \/ Consenting, NEW w \in Workers,
         run[w].at = "queued", run'[w].at = "called"
  PROVE  run[w].facts
  <1>1. run' # run
    OBVIOUS
  <1>2. Sending
    BY <1>1 DEF Consenting, sendVars
  <1>3. ASSUME NEW v \in Workers,
               \/ \E j \in Jobs : Claim(v, j)
               \/ LoadRecipient(v) \/ ReserveSend(v) \/ Replayed(v) \/ Queued(v)
               \/ Refuse(v) \/ ProviderFailed(v) \/ ProviderAccepted(v)
               \/ Succeeded(v) \/ EmitFails(v) \/ Finish(v) \/ Crash(v)
        PROVE  FALSE
    <2>1. CASE v # w
      BY <1>3, <2>1 DEF Claim, LoadRecipient, ReserveSend, Replayed, Queued, Refuse,
         ProviderFailed, ProviderAccepted, Succeeded, EmitFails, Finish, Crash, GoTo, EndWith,
         SendInv, SendTypeOK
    <2>2. CASE v = w
      <3>1. Refuse(w) \/ Crash(w)
        BY <1>3, <2>2 DEF Claim, LoadRecipient, ReserveSend, Replayed, Queued,
           ProviderFailed, ProviderAccepted, Succeeded, EmitFails, Finish, At
      <3>2. CASE Crash(w)
        BY <3>2 DEF Crash, Idle, SendInv, SendTypeOK
      <3>3. CASE Refuse(w)
        <4>1. run' = [run EXCEPT ![w] = [run[w] EXCEPT !.at = "ended", !.outcome = "failed_policy"]]
          BY <3>3 DEF Refuse, EndWith
        <4>2. run'[w].at = "ended"
          BY <4>1, RunFields DEF SendInv, SendTypeOK
        <4>. QED
          BY <4>2
      <3>. QED
        BY <3>1, <3>2, <3>3
    <2>. QED
      BY <2>1, <2>2
  <1>4. ASSUME NEW v \in Workers, CallProvider(v)
        PROVE  run[w].facts
    BY <1>4 DEF CallProvider, GoTo, SendInv, SendTypeOK
  <1>. QED
    BY <1>1, <1>2, <1>3, <1>4 DEF Sending, SendStep, Check, Submit, SweepJob, Redrive

Inv == ConsentInv /\ SendInv

(* A step is a step of the send or of the consent data, remembered.        *)
LEMMA StepsAre == Next => Remembers /\ (Sending \/ Consenting)
  BY DEF Next, Remembers, Sending, Consenting

(* The invariant of the whole is inductive.                                *)
LEMMA InvInductive == Inv /\ [Next]_vars => Inv'
  <1>. SUFFICES ASSUME Inv, [Next]_vars PROVE Inv'
    OBVIOUS
  <1>1. CASE Next
    BY <1>1, StepsAre, ConsentKept, SendsKept DEF Inv
  <1>2. CASE UNCHANGED vars
    <2>1. ConsentInv'
      BY <1>2, OthersKeepConsent DEF vars, consentVars, Inv
    <2>2. SendInv'
      BY <1>2 DEF vars, Inv, SendInv, SendTypeOK, RunsKept, RunKept, EventsKept,
                  EndingsKept, Concluded
    <2>. QED
      BY <2>1, <2>2 DEF Inv
  <1>. QED
    BY <1>1, <1>2

(* It holds in every reachable state.                                      *)
LEMMA InvHolds == Spec => []Inv
  <1>1. Init => Inv
    BY ConsentStarts, SendsStart DEF Inv, Init
  <1>. QED
    BY <1>1, InvInductive, PTL DEF Spec

(* Every variable keeps its type.                                          *)
THEOREM OutreachTypeCorrect == Spec => []TypeOK
  <1>1. Inv => TypeOK
    BY DEF Inv, ConsentInv, SendInv, SendTypeOK, TypeOK
  <1>. QED
    BY <1>1, InvHolds, PTL

(* Whoever opted in stays a candidate no Connector stops, and whoever      *)
(* opted out stays suppressed, whatever runs beside it.                    *)
THEOREM SpeakersWordAlwaysStands == Spec => []SpeakersWordStands
  <1>1. Inv => SpeakersWordStands
    BY DEF Inv, ConsentInv
  <1>. QED
    BY <1>1, InvHolds, PTL

(* A command that ended for good has an outcome of its send, explained.    *)
THEOREM EndingsAreExplained == Spec => []EndedIsExplained
  <1>1. Inv => EndedIsExplained
    BY DEF Inv, SendInv, EventsKept, EndingsKept, EndedIsExplained
  <1>. QED
    BY <1>1, InvHolds, PTL

(* A suppression is lifted by the opt-in that read it, and nothing else.   *)
THEOREM StopsLiftedKnowingly == Spec => StopsAreLiftedKnowingly
  <1>. DEFINE A == \A c \in Channels :
       suppression[c].active /\ ~ suppression'[c].active =>
         \E a \in Actors :
           tx[a].op = "opt_in" /\ tx[a].channel = c /\ tx[a].read = suppression[c]
  <1>1. Inv /\ [Next]_vars => [A]_consentVars
    <2>1. Inv /\ Next => A
      BY StepsAre, OnlyOptInsLift DEF Inv
    <2>2. UNCHANGED vars => UNCHANGED consentVars
      BY DEF vars, consentVars
    <2>. QED
      BY <2>1, <2>2
  <1>. QED
    BY <1>1, InvHolds, PTL DEF Spec, StopsAreLiftedKnowingly

(* The provider is called for nobody who could not be written to at some   *)
(* moment since the run was claimed.                                       *)
THEOREM CallsAllowed == Spec => CallsWereAllowed
  <1>. DEFINE A == \A w \in Workers : Called(w) => allowed[w]
  <1>1. Inv /\ [Next]_vars => [A]_vars
    <2>. SUFFICES ASSUME Inv, Next, NEW w \in Workers, Called(w) PROVE allowed[w]
      OBVIOUS
    <2>1. run[w].at = "queued" /\ run'[w].at = "called"
      BY DEF Called, At
    <2>2. run[w].facts
      BY <2>1, StepsAre, CallsAreMade DEF Inv
    <2>3. run[w] # Idle /\ RunKept(w)
      BY <2>1 DEF Idle, Inv, SendInv, RunsKept
    <2>. QED
      BY <2>2, <2>3 DEF RunKept
  <1>. QED
    BY <1>1, InvHolds, PTL DEF Spec, CallsWereAllowed

(* The outcome of a send is recorded once.                                 *)
THEOREM ConcludedOnceAlways == Spec => ConcludedOnce
  <1>. DEFINE A == \A j \in Jobs : Concluded(j) => sends'[j].disposition = sends[j].disposition
  <1>1. Inv /\ [Next]_vars => [A]_vars
    <2>1. Inv /\ Next => A
      BY StepsAre, SendsKept DEF Inv, SendsGrow, Grows
    <2>. QED
      BY <2>1
  <1>. QED
    BY <1>1, InvHolds, PTL DEF Spec, ConcludedOnce

(* A run that found an outcome when it was claimed calls no provider.      *)
THEOREM ConcludedNotResent == Spec => ConcludedIsNotResent
  <1>. DEFINE A == \A w \in Workers : Called(w) => ~ run[w].replay
  <1>1. Inv /\ [Next]_vars => [A]_vars
    <2>. SUFFICES ASSUME Inv, NEW w \in Workers, Called(w) PROVE ~ run[w].replay
      OBVIOUS
    <2>1. run[w].at = "queued" /\ run[w] # Idle
      BY DEF Called, At, Idle
    <2>2. RunKept(w)
      BY DEF Inv, SendInv, RunsKept
    <2>. QED
      BY <2>1, <2>2 DEF RunKept
  <1>. QED
    BY <1>1, InvHolds, PTL DEF Spec, ConcludedIsNotResent

=============================================================================
