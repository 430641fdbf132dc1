-------------------------------- MODULE Trust --------------------------------
(***************************************************************************)
(* The trust engine: the handlers of marketplace events                    *)
(* (application/trust/handlers.py) count evidence in one profile per user  *)
(* (domain/trust/aggregate.py), compute its score (domain/trust/score.py)  *)
(* and save events of their own in the outbox.  The handlers run on the    *)
(* outbox loops, one update of one profile at a time under the handlers'   *)
(* lock; a delivery that raises or is lost in a crash is repeated.         *)
(*                                                                         *)
(* Left out: verification levels, which no running code grants, the age of *)
(* the account, a function of the events' times alone, and a dispute that  *)
(* names one user only and has the outcome WON.                            *)
(***************************************************************************)
EXTENDS Integers, FiniteSets, SequencesExt

CONSTANTS
  Events,       \* marketplace events: [kind, one, two, other], the users they name
  Users,
  Loops,        \* outbox loops
  MaxEvents,    \* bounds: events in the outbox,
  MaxFaults, MaxCrashes   \* calls that raise (fewer than max_retry_count), crashes

NoUser == "none"   \* an attribute the event does not have
NoEvent == [kind |-> "none", one |-> NoUser, two |-> NoUser, other |-> NoUser]
Kinds == {"deal", "review", "dispute"}

ASSUME UsersAssumption == IsFiniteSet(Users) /\ NoUser \notin Users
ASSUME EventsAssumption ==
  /\ IsFiniteSet(Events)
  /\ LET Named == Users \cup {NoUser}
     IN \A e \in Events : e.kind \in Kinds /\ {e.one, e.two, e.other} \subseteq Named
ASSUME LoopsAssumption == IsFiniteSet(Loops)
ASSUME BoundAssumption == {MaxEvents, MaxFaults, MaxCrashes} \subseteq Nat

\* Definitions named ..._mutant are plausible bugs of the definition after them;
\* no action uses them, the properties are tested against them.

VARIABLES
  profile,    \* the profiles: evidence counted, and the score stored with it
  changes,    \* the outbox: <<previous, current>> scores of each user's TrustScoreChanged events
  pending,    \* marketplace events that are not published
  deliveries, \* history: how often each was handed to its handler
  \* each loop: its step in the handler, the event, the updates left, and the
  \* profile as _update read it
  at, event, parts, read,
  faults, crashes

saved == <<profile, changes>>
bounds == <<faults, crashes>>
locals == <<at, event, parts, read>>
vars == <<saved, pending, deliveries, locals, bounds>>

Evidence == {"sale", "purchase", "trade", "given", "received", "won", "lost"}

-----------------------------------------------------------------------------
(* Scores, and the updates an event calls for. *)

Least(a, b) == IF a < b THEN a ELSE b

Clamp(score) == IF score < 0 THEN 0 ELSE Least(1000, score)

\* TrustScoreCalculator.calculate with the default policy.  The handlers open no
\* dispute, so disputes_opened stays 0.
Score(count) ==
  Clamp(100 + Least(20 * (count["sale"] + count["purchase"] + count["trade"]), 400)
            + Least(4 * count["received"], 160)
            + 5 * count["won"] - 75 * count["lost"])

NoEvidence == [k \in Evidence |-> 0]
NewProfile == [count |-> NoEvidence, score |-> Score(NoEvidence)]

First == [deal |-> "sale", review |-> "given", dispute |-> "won"]
Second == [deal |-> "purchase", review |-> "received", dispute |-> "lost"]

\* The update of a user's evidence, if the event names one there.
Part(u, k) == IF u = NoUser THEN <<>> ELSE <<<<u, k>>>>

PartsOf_mutant(e) ==   \* counts a user named twice twice
  Part(e.one, First[e.kind]) \o Part(e.two, Second[e.kind])

\* The handlers' updates in order: a user named twice has the first role only,
\* and an event that names neither may name a user on his own.
PartsOf(e) ==
  IF e.one = NoUser /\ e.two = NoUser
  THEN IF e.kind = "review" THEN <<>>
       ELSE Part(e.other, IF e.kind = "deal" THEN "trade" ELSE "lost")
  ELSE Part(e.one, First[e.kind])
         \o (IF e.two = e.one THEN <<>> ELSE Part(e.two, Second[e.kind]))

Scores == 0..1000
Profiles == [count : [Evidence -> Nat], score : Scores]

\* record_transaction, record_review and record_dispute, with _refresh_score.
Record(p, k) ==
  LET count == [p.count EXCEPT ![k] = @ + 1]
  IN [count |-> count, score |-> Score(count)]

-----------------------------------------------------------------------------

\* Profiles, events and locals have their types; scores stay in 0..1000
\* (domain/trust/score.py:43).
TypeOK ==
  /\ profile \in [Users -> Profiles]
  /\ \A u \in Users : \A i \in DOMAIN changes[u] : changes[u][i] \in Scores \X Scores
  /\ pending \subseteq Events /\ deliveries \in [Events -> Nat]
  /\ at \in [Loops -> {"idle", "update", "save", "record", "change"}]
  /\ \A w \in Loops :
       /\ event[w] \in Events \cup {NoEvent}
       /\ ToSet(parts[w]) \subseteq Users \X Evidence
       /\ read[w] \in Profiles
       /\ at[w] \in {"save", "record", "change"} => parts[w] # <<>>
  /\ faults \in Nat /\ crashes \in Nat

Init ==
  /\ profile = [u \in Users |-> NewProfile]
  /\ changes = [u \in Users |-> <<>>]
  /\ pending \in UNION {kSubset(n, Events) : n \in 1..MaxEvents}
  /\ deliveries = [e \in Events |-> 0]
  /\ at = [w \in Loops |-> "idle"]
  /\ event = [w \in Loops |-> NoEvent]
  /\ parts = [w \in Loops |-> <<>>]
  /\ read = [w \in Loops |-> NewProfile]
  /\ faults = 0 /\ crashes = 0

Go(w, from, to) == at[w] = from /\ at' = [at EXCEPT ![w] = to]

User(w) == Head(parts[w])[1]
Updated(w) == Record(read[w], Head(parts[w])[2])

\* A loop hands a pending event to its handler.
Deliver(w) ==
  /\ Go(w, "idle", "update")
  /\ \E e \in pending :
       /\ event' = [event EXCEPT ![w] = e]
       /\ parts' = [parts EXCEPT ![w] = PartsOf(e)]
       /\ deliveries' = [deliveries EXCEPT ![e] = @ + 1]
  /\ UNCHANGED <<saved, pending, read, bounds>>

Updating == {"save", "record", "change"}

LockFree_mutant == TRUE
LockFree == \A w \in Loops : at[w] \notin Updating

\* _update: take the lock, read the profile or begin one.
Load(w) ==
  /\ parts[w] # <<>> /\ LockFree
  /\ Go(w, "update", "save")
  /\ read' = [read EXCEPT ![w] = profile[User(w)]]
  /\ UNCHANGED <<saved, pending, deliveries, event, parts, bounds>>

\* The operation on the aggregate, and repository.save.
SaveProfile(w) ==
  /\ Go(w, "save", "record")
  /\ profile' = [profile EXCEPT ![User(w)] = Updated(w)]
  /\ UNCHANGED <<changes, pending, deliveries, event, parts, read, bounds>>

\* The lock is released, the next update follows.
NextPart(w) == at' = [at EXCEPT ![w] = "update"] /\ parts' = [parts EXCEPT ![w] = Tail(@)]

\* outbox.save of the evidence's event, ...
SaveRecorded(w) ==
  /\ at[w] = "record"
  /\ IF Updated(w).score = read[w].score
     THEN NextPart(w)
     ELSE Go(w, "record", "change") /\ UNCHANGED parts
  /\ UNCHANGED <<saved, pending, deliveries, event, read, bounds>>

\* ... and of TrustScoreChanged when the score did change.
SaveChanged(w) ==
  /\ at[w] = "change"
  /\ changes' = [changes EXCEPT ![User(w)] =
                   Append(@, <<read[w].score, Updated(w).score>>)]
  /\ NextPart(w)
  /\ UNCHANGED <<profile, pending, deliveries, event, read, bounds>>

Leave(w) ==
  /\ at' = [at EXCEPT ![w] = "idle"]
  /\ event' = [event EXCEPT ![w] = NoEvent]
  /\ parts' = [parts EXCEPT ![w] = <<>>]
  /\ read' = [read EXCEPT ![w] = NewProfile]

\* The handler returns and the loop marks the event published.
Settle(w) ==
  /\ at[w] = "update" /\ parts[w] = <<>>
  /\ pending' = pending \ {event[w]}
  /\ Leave(w)
  /\ UNCHANGED <<saved, deliveries, bounds>>

\* The call that is next raises, or the one before it did after its commit: the
\* lock is released and the event will be delivered again.
Raise(w) ==
  /\ faults < MaxFaults
  /\ faults' = faults + 1
  /\ at[w] # "idle"
  /\ Leave(w)
  /\ UNCHANGED <<saved, pending, deliveries, crashes>>

\* What was saved stays.
Crash ==
  /\ crashes < MaxCrashes
  /\ crashes' = crashes + 1
  /\ at' = [w \in Loops |-> "idle"]
  /\ event' = [w \in Loops |-> NoEvent]
  /\ parts' = [w \in Loops |-> <<>>]
  /\ read' = [w \in Loops |-> NewProfile]
  /\ UNCHANGED <<saved, pending, deliveries, faults>>

Next ==
  \/ \E w \in Loops :
       \/ Deliver(w) \/ Load(w) \/ SaveProfile(w) \/ SaveRecorded(w) \/ SaveChanged(w)
       \/ Settle(w) \/ Raise(w)
  \/ Crash

Spec == Init /\ [][Next]_vars
-----------------------------------------------------------------------------
(* Properties. *)

\* An event is evidence k about u: each user it names in a role is counted in
\* the first of them, a user it names otherwise only when it names none in a role.
IsEvidence(e, u, k) ==
  \/ k = First[e.kind] /\ e.one = u
  \/ k = Second[e.kind] /\ e.two = u /\ e.one # u
  \/ /\ e.other = u /\ {e.one, e.two} = {NoUser}
     /\ <<e.kind, k>> \in {<<"deal", "trade">>, <<"dispute", "lost">>}

EvidenceFor(u, k) == {e \in Events : IsEvidence(e, u, k)}

\* The deliveries so far of the events that are evidence k about u.
DeliveriesOf(u, k) == UNION {{e} \X (1..deliveries[e]) : e \in EvidenceFor(u, k)}

\* An event counts for a user at most once for each time it is delivered, also when
\* it names the user twice: "completed_transactions == 1" after one delivery
\* (handlers.py:21-75; tests/test_trust_event_integration.py:72).
CountedPerDelivery ==
  \A u \in Users, k \in Evidence : profile[u].count[k] <= Cardinality(DeliveriesOf(u, k))

\* Whatever raises or restarts, a published event has been counted.
PublishedIsCounted ==
  \A u \in Users, k \in Evidence :
    profile[u].count[k] >= Cardinality({e \in EvidenceFor(u, k) \ pending : deliveries[e] > 0})

\* Types hold, and delivery at least once is all a profile shows: no event is lost to it, and none
\* counts more often than it was delivered.
CountedAsDelivered == TypeOK /\ PublishedIsCounted /\ CountedPerDelivery

\* As long as nothing raises or crashes, the TrustScoreChanged events of a user lead
\* from 100 to the score in the profile without a gap, also when two loops run the
\* handlers (handlers.py:67-75).
ScoreHistoryUnbroken ==
  faults = 0 /\ crashes = 0 /\ (\A w \in Loops : at[w] \notin Updating) =>
    \A u \in Users :
      LET scores == <<<<100, 100>>>> \o changes[u]
      IN /\ \A i \in 2..Len(scores) : scores[i][1] = scores[i - 1][2]
         /\ Last(scores)[2] = profile[u].score
=============================================================================
