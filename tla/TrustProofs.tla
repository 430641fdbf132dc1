----------------------------- MODULE TrustProofs -----------------------------
(***************************************************************************)
(* What the trust engine guarantees for every set of events, users and     *)
(* loops, any number of calls that raise and of crashes: a published event *)
(* is counted, none counts more often than it was delivered, and the score *)
(* changes announced lead to the score that is stored.                     *)
(***************************************************************************)
EXTENDS Trust, FiniteSetTheorems, SequenceTheorems, TLAPS

(* The updates an event calls for. *)

Pairs == Users \X Evidence

\* No update comes twice.
Once(s) == \A i, j \in DOMAIN s : s[i] = s[j] => i = j

LEMMA PartIs ==
  ASSUME NEW u \in Users \cup {NoUser}, NEW k \in Evidence
  PROVE  \/ u = NoUser /\ Part(u, k) = <<>>
         \/ u \in Users /\ <<u, k>> \in Pairs /\ Part(u, k) = <<<<u, k>>>>
BY UsersAssumption DEF Part, Pairs

LEMMA TwoParts ==
  ASSUME NEW S, NEW a \in S, NEW b \in S, a # b, NEW p, p = <<a, b>>
  PROVE  p \in Seq(S) /\ Once(p) /\ ToSet(p) = {a, b}
<1>1. p \in Seq(S) /\ DOMAIN p = {1, 2} /\ p[1] = a /\ p[2] = b
  OBVIOUS
<1>2. ToSet(p) = {a, b}
  BY <1>1, Zenon DEF ToSet
<1>3. Once(p)
  BY <1>1 DEF Once
<1> QED
  BY <1>1, <1>2, <1>3

LEMMA Joined ==
  ASSUME NEW S, NEW a \in S, NEW b \in S
  PROVE  /\ <<>> \o <<>> = <<>> /\ <<a>> \o <<>> = <<a>>
         /\ <<>> \o <<b>> = <<b>> /\ <<a>> \o <<b>> = <<a, b>>
<1>1. <<>> \in Seq(S) /\ <<a>> \in Seq(S) /\ <<b>> \in Seq(S)
  OBVIOUS
<1>2. \A s \in Seq(S) : s \o <<>> = s /\ <<>> \o s = s
  BY ConcatEmptySeq
<1>3. <<a>> \o <<b>> = <<a, b>>
  <2>1. PICK s, t : s = <<a>> /\ t = <<b>>
    OBVIOUS
  <2>2. s \in Seq(S) /\ t \in Seq(S) /\ Len(s) = 1 /\ Len(t) = 1 /\ s[1] = a /\ t[1] = b
    BY <2>1
  <2>3. /\ s \o t \in Seq(S) /\ Len(s \o t) = 2
        /\ \A i \in 1..2 : (s \o t)[i] = IF i <= 1 THEN s[i] ELSE t[i - 1]
    BY <2>2, ConcatProperties
  <2>4. (s \o t)[1] = a /\ (s \o t)[2] = b
    BY <2>2, <2>3
  <2>5. PICK c, d : c = s \o t /\ d = <<a, b>>
    OBVIOUS
  <2>6. d \in Seq(S) /\ Len(d) = 2 /\ d[1] = a /\ d[2] = b
    BY <2>5
  <2>7. c \in Seq(S) /\ Len(c) = Len(d) /\ \A i \in 1..Len(c) : c[i] = d[i]
    BY <2>3, <2>4, <2>5, <2>6
  <2>8. c = d
    BY <2>6, <2>7, SeqEqual
  <2> QED
    BY <2>1, <2>5, <2>8
<1> QED
  BY <1>1, <1>2, <1>3

\* The updates of an event are those of the evidence it is, each once.
LEMMA PartsAre ==
  ASSUME NEW e \in Events
  PROVE  /\ PartsOf(e) \in Seq(Pairs) /\ Once(PartsOf(e))
         /\ \A u \in Users, k \in Evidence : <<u, k>> \in ToSet(PartsOf(e)) <=> IsEvidence(e, u, k)
<1>1. /\ {e.one, e.two, e.other} \subseteq Users \cup {NoUser} /\ e.kind \in Kinds
      /\ NoUser \notin Users
  BY EventsAssumption, UsersAssumption
<1>2. /\ First[e.kind] \in Evidence /\ Second[e.kind] \in Evidence
      /\ First[e.kind] # Second[e.kind]
  BY <1>1 DEF Kinds, First, Second, Evidence
<1>3. PICK a, b : a = <<e.one, First[e.kind]>> /\ b = <<e.two, Second[e.kind]>>
  OBVIOUS
<1>4. a # b /\ (e.one \in Users => a \in Pairs) /\ (e.two \in Users => b \in Pairs)
  BY <1>2, <1>3 DEF Pairs
<1>5. CASE e.one = NoUser /\ e.two = NoUser
  <2> DEFINE k0 == IF e.kind = "deal" THEN "trade" ELSE "lost"
  <2>1. CASE e.kind = "review" \/ e.other = NoUser
    <3>1. PartsOf(e) = <<>>
      BY <1>5, <2>1 DEF PartsOf, Part
    <3>2. ToSet(PartsOf(e)) = {} /\ Once(PartsOf(e)) /\ PartsOf(e) \in Seq(Pairs)
      BY <3>1 DEF ToSet, Once
    <3>3. \A u \in Users, k \in Evidence : ~IsEvidence(e, u, k)
      BY <1>1, <1>5, <2>1 DEF IsEvidence
    <3> QED
      BY <3>2, <3>3
  <2>2. CASE e.kind # "review" /\ e.other # NoUser
    <3>1. PICK p : p = <<e.other, k0>>
      OBVIOUS
    <3>2. PartsOf(e) = <<p>> /\ p \in Pairs
      BY <1>1, <1>5, <2>2, <3>1 DEF PartsOf, Part, Pairs, Evidence
    <3>3. PartsOf(e) \in Seq(Pairs) /\ Once(PartsOf(e)) /\ ToSet(PartsOf(e)) = {p}
      BY <3>2 DEF Once, ToSet
    <3>4. \A u \in Users, k \in Evidence : IsEvidence(e, u, k) <=> u = e.other /\ k = k0
      BY <1>1, <1>5, <2>2 DEF IsEvidence, Kinds
    <3> QED
      BY <3>1, <3>3, <3>4
  <2> QED
    BY <2>1, <2>2
<1>6. CASE ~(e.one = NoUser /\ e.two = NoUser)
  <2>1. \A u \in Users, k \in Evidence :
          IsEvidence(e, u, k) <=> \/ <<u, k>> = a
                                  \/ <<u, k>> = b /\ e.two # e.one
    BY <1>3, <1>6 DEF IsEvidence
  <2>2. CASE e.one = NoUser
    <3>1. PartsOf(e) = <<b>> /\ b \in Pairs /\ e.two # e.one
      BY <1>1, <1>3, <1>4, <1>6, <2>2, Joined DEF PartsOf, Part
    <3>2. PartsOf(e) \in Seq(Pairs) /\ Once(PartsOf(e)) /\ ToSet(PartsOf(e)) = {b}
      BY <3>1 DEF Once, ToSet
    <3>3. \A u \in Users, k \in Evidence : <<u, k>> # a
      BY <1>1, <1>3, <2>2
    <3> QED
      BY <2>1, <3>1, <3>2, <3>3
  <2>3. CASE e.one # NoUser /\ (e.two = NoUser \/ e.two = e.one)
    <3>1. PartsOf(e) = <<a>> /\ a \in Pairs
      BY <1>1, <1>3, <1>4, <1>6, <2>3, Joined DEF PartsOf, Part
    <3>2. PartsOf(e) \in Seq(Pairs) /\ Once(PartsOf(e)) /\ ToSet(PartsOf(e)) = {a}
      BY <3>1 DEF Once, ToSet
    <3>3. e.two # e.one => \A u \in Users, k \in Evidence : <<u, k>> # b
      BY <1>1, <1>3, <2>3
    <3> QED
      BY <2>1, <3>2, <3>3
  <2>4. CASE e.one # NoUser /\ e.two # NoUser /\ e.two # e.one
    <3>1. a \in Pairs /\ b \in Pairs
      BY <1>1, <1>4, <2>4
    <3>2. /\ PartsOf(e) = Part(e.one, First[e.kind]) \o Part(e.two, Second[e.kind])
          /\ Part(e.one, First[e.kind]) = <<a>> /\ Part(e.two, Second[e.kind]) = <<b>>
      BY <1>3, <1>6, <2>4 DEF PartsOf, Part
    <3>3. <<a>> \o <<b>> = <<a, b>>
      BY <3>1, Joined
    <3>4. PICK p : p = PartsOf(e) /\ p = <<a, b>>
      BY <3>2, <3>3
    <3>5. p \in Seq(Pairs) /\ Once(p) /\ ToSet(p) = {a, b}
      BY <1>4, <3>1, <3>4, TwoParts
    <3> QED
      BY <2>1, <2>4, <3>4, <3>5
  <2> QED
    BY <2>2, <2>3, <2>4
<1> QED
  BY <1>5, <1>6

\* What is left when the first update is done.
LEMMA TailLeaves ==
  ASSUME NEW s \in Seq(Pairs), s # <<>>, Once(s)
  PROVE  /\ Head(s) \in Pairs /\ Tail(s) \in Seq(Pairs) /\ Once(Tail(s))
         /\ ToSet(s) = {Head(s)} \cup ToSet(Tail(s)) /\ Head(s) \notin ToSet(Tail(s))
<1>1. PICK n \in Nat : n = Len(s)
  BY LenProperties
<1>2. PICK t : t = Tail(s)
  OBVIOUS
<1>3. /\ DOMAIN s = 1..n /\ n >= 1 /\ Head(s) = s[1] /\ s[1] \in Pairs
      /\ t \in Seq(Pairs) /\ DOMAIN t = 1..n - 1 /\ \A i \in 1..n - 1 : t[i] = s[i + 1]
  BY <1>1, <1>2, LenProperties, HeadTailProperties
<1>4. Once(t)
  <2> SUFFICES ASSUME NEW i \in 1..n - 1, NEW j \in 1..n - 1, s[i + 1] = s[j + 1] PROVE i = j
    BY <1>3 DEF Once
  <2>1. i + 1 \in 1..n /\ j + 1 \in 1..n
    BY <1>1
  <2>2. i + 1 = j + 1
    BY <1>3, <2>1 DEF Once
  <2> QED
    BY <1>1, <2>2
<1>5. \A i \in 1..n : i # 1 => i - 1 \in 1..n - 1 /\ s[i] = t[i - 1]
  BY <1>3
<1>6. \A i \in 1..n - 1 : i + 1 \in 1..n /\ i + 1 # 1
  BY <1>3
<1>7. ToSet(s) = {s[1]} \cup ToSet(t)
  <2>1. ToSet(s) = {s[i] : i \in 1..n} /\ ToSet(t) = {t[i] : i \in 1..n - 1} /\ 1 \in 1..n
    BY <1>3 DEF ToSet
  <2>2. \A x : (\E i \in 1..n : x = s[i]) <=> x = s[1] \/ \E i \in 1..n - 1 : x = t[i]
    BY <1>3, <1>5, <1>6, <2>1
  <2> QED
    BY <2>1, <2>2
<1>8. s[1] \notin ToSet(t)
  BY <1>3, <1>6 DEF Once, ToSet
<1> QED
  BY <1>2, <1>3, <1>4, <1>7, <1>8

-----------------------------------------------------------------------------
(* Types, and the handlers' lock. *)

Typed ==
  /\ profile \in [Users -> Profiles] /\ changes \in [Users -> Seq(Scores \X Scores)]
  /\ pending \subseteq Events /\ deliveries \in [Events -> Nat]
  /\ at \in [Loops -> {"idle", "update", "save", "record", "change"}]
  /\ event \in [Loops -> Events \cup {NoEvent}]
  /\ parts \in [Loops -> Seq(Pairs)] /\ read \in [Loops -> Profiles]
  /\ \A w \in Loops :
       /\ Once(parts[w])
       /\ at[w] \in Updating => parts[w] # <<>>
       /\ at[w] = "idle" => parts[w] = <<>>
       /\ at[w] # "idle" => event[w] \in Events
  /\ faults \in Nat /\ crashes \in Nat

\* One loop at a time updates a profile; until it saves, what it has read is what is
\* stored, and then what is stored is what it has saved.
Locked ==
  /\ \A v, w \in Loops : at[v] \in Updating /\ at[w] \in Updating => v = w
  /\ \A w \in Loops :
       /\ at[w] = "save" => profile[User(w)] = read[w]
       /\ at[w] \in {"record", "change"} => profile[User(w)] = Updated(w)

LEMMA ScoreIs == ASSUME NEW c \in [Evidence -> Nat] PROVE Score(c) \in Scores
<1>1. PICK n \in Int :
        n = 100 + Least(20 * (c["sale"] + c["purchase"] + c["trade"]), 400)
                + Least(4 * c["received"], 160) + 5 * c["won"] - 75 * c["lost"]
  BY DEF Evidence, Least
<1>2. Clamp(n) \in Scores
  BY DEF Clamp, Least, Scores
<1> QED
  BY <1>1, <1>2 DEF Score

LEMMA NewIs == NewProfile \in Profiles /\ \A k \in Evidence : NewProfile.count[k] = 0
<1>1. NoEvidence \in [Evidence -> Nat] /\ \A k \in Evidence : NoEvidence[k] = 0
  BY DEF NoEvidence
<1> QED
  BY <1>1, ScoreIs DEF NewProfile, Profiles

LEMMA RecordIs ==
  ASSUME NEW p \in Profiles, NEW k \in Evidence
  PROVE  /\ Record(p, k) \in Profiles
         /\ \A j \in Evidence : Record(p, k).count[j] = IF j = k THEN p.count[j] + 1 ELSE p.count[j]
<1>1. PICK c : c = [p.count EXCEPT ![k] = @ + 1]
  OBVIOUS
<1>2. c \in [Evidence -> Nat] /\ \A j \in Evidence : c[j] = IF j = k THEN p.count[j] + 1 ELSE p.count[j]
  BY <1>1 DEF Profiles
<1>3. Record(p, k) = [count |-> c, score |-> Score(c)]
  BY <1>1 DEF Record
<1> QED
  BY <1>2, <1>3, ScoreIs DEF Profiles

\* The update a loop is at.
LEMMA AtUpdate ==
  ASSUME Typed, NEW w \in Loops, parts[w] # <<>>
  PROVE  /\ User(w) \in Users /\ Head(parts[w])[2] \in Evidence
         /\ Head(parts[w]) = <<User(w), Head(parts[w])[2]>>
         /\ Updated(w) \in Profiles
         /\ \A j \in Evidence : Updated(w).count[j] =
              IF j = Head(parts[w])[2] THEN read[w].count[j] + 1 ELSE read[w].count[j]
         /\ Tail(parts[w]) \in Seq(Pairs) /\ Once(Tail(parts[w]))
         /\ ToSet(parts[w]) = {Head(parts[w])} \cup ToSet(Tail(parts[w]))
         /\ Head(parts[w]) \notin ToSet(Tail(parts[w]))
<1>1. PICK s : s = parts[w]
  OBVIOUS
<1>2. s \in Seq(Pairs) /\ s # <<>> /\ Once(s) /\ read[w] \in Profiles
  BY <1>1 DEF Typed
<1>3. /\ Head(s) \in Pairs /\ Tail(s) \in Seq(Pairs) /\ Once(Tail(s))
      /\ ToSet(s) = {Head(s)} \cup ToSet(Tail(s)) /\ Head(s) \notin ToSet(Tail(s))
  BY <1>2, TailLeaves
<1>4. Head(s)[1] \in Users /\ Head(s)[2] \in Evidence /\ Head(s) = <<Head(s)[1], Head(s)[2]>>
  BY <1>3 DEF Pairs
<1> QED
  BY <1>1, <1>2, <1>3, <1>4, RecordIs DEF User, Updated

LEMMA TypedInit == Init => Typed /\ Locked
<1> SUFFICES ASSUME Init PROVE Typed /\ Locked
  OBVIOUS
<1>1. pending \subseteq Events
  BY DEF Init, kSubset
<1>2. parts \in [Loops -> Seq(Pairs)] /\ \A w \in Loops : Once(parts[w])
  BY DEF Init, Once
<1>3. profile \in [Users -> Profiles] /\ read \in [Loops -> Profiles]
  BY NewIs DEF Init
<1> QED
  BY <1>1, <1>2, <1>3 DEF Init, Typed, Locked, Updating

\* What the actions of a loop do to its place and to the profiles.
LEMMA LoadDoes ==
  ASSUME Typed, NEW w \in Loops, Load(w)
  PROVE  /\ at[w] = "update" /\ at'[w] = "save" /\ parts[w] # <<>> /\ read'[w] = profile[User(w)]
         /\ \A v \in Loops : at[v] \notin Updating
         /\ \A v \in Loops \ {w} : at'[v] = at[v] /\ read'[v] = read[v]
         /\ UNCHANGED <<profile, changes, pending, deliveries, event, parts, faults, crashes>>
BY DEF Load, LockFree, Go, saved, bounds, Typed

LEMMA SaveDoes ==
  ASSUME Typed, NEW w \in Loops, SaveProfile(w)
  PROVE  /\ at[w] = "save" /\ at'[w] = "record" /\ profile'[User(w)] = Updated(w)
         /\ \A v \in Loops \ {w} : at'[v] = at[v]
         /\ \A u \in Users \ {User(w)} : profile'[u] = profile[u]
         /\ UNCHANGED <<changes, pending, deliveries, event, parts, read, faults, crashes>>
BY AtUpdate DEF SaveProfile, Go, bounds, Typed, Updating

LEMMA NextDoes ==
  ASSUME Typed, NEW w \in Loops, SaveRecorded(w) \/ SaveChanged(w), at'[w] # "change"
  PROVE  /\ at[w] \in {"record", "change"} /\ at'[w] = "update" /\ parts'[w] = Tail(parts[w])
         /\ at[w] = "record" => Updated(w).score = read[w].score
         /\ \A v \in Loops \ {w} : at'[v] = at[v] /\ parts'[v] = parts[v]
         /\ UNCHANGED <<profile, pending, deliveries, event, read, faults, crashes>>
BY DEF SaveRecorded, SaveChanged, NextPart, Go, saved, bounds, Typed

LEMMA ChangeDoes ==
  ASSUME Typed, NEW w \in Loops, SaveRecorded(w) \/ SaveChanged(w), at'[w] = "change"
  PROVE  /\ at[w] = "record" /\ UNCHANGED <<profile, changes, pending, deliveries, event, parts, read, faults, crashes>>
         /\ Updated(w).score # read[w].score
         /\ \A v \in Loops \ {w} : at'[v] = at[v]
BY DEF SaveRecorded, SaveChanged, NextPart, Go, saved, bounds, Typed

LEMMA LeaveDoes ==
  ASSUME Typed, NEW w \in Loops, Settle(w) \/ Raise(w)
  PROVE  /\ at'[w] = "idle" /\ parts'[w] = <<>> /\ event'[w] = NoEvent /\ read'[w] = NewProfile
         /\ \A v \in Loops \ {w} :
              at'[v] = at[v] /\ parts'[v] = parts[v] /\ event'[v] = event[v] /\ read'[v] = read[v]
         /\ UNCHANGED <<profile, changes, deliveries, crashes>>
BY DEF Settle, Raise, Leave, saved, bounds, Typed

LEMMA DeliverDoes ==
  ASSUME Typed, NEW w \in Loops, Deliver(w)
  PROVE  \E e \in pending :
           /\ at[w] = "idle" /\ at'[w] = "update" /\ event'[w] = e /\ parts'[w] = PartsOf(e)
           /\ \A v \in Loops \ {w} :
                at'[v] = at[v] /\ parts'[v] = parts[v] /\ event'[v] = event[v]
           /\ deliveries'[e] = deliveries[e] + 1 
           /\ \A f \in Events \ {e} : deliveries'[f] = deliveries[f]
           /\ UNCHANGED <<profile, changes, pending, read, faults, crashes>>
BY DEF Deliver, Go, saved, bounds, Typed

LEMMA TypedStep == Typed /\ [Next]_vars => Typed'
<1> SUFFICES ASSUME Typed, Next PROVE Typed'
  BY DEF Typed, vars, saved, locals, bounds, Updating
<1>1. ASSUME NEW w \in Loops, Deliver(w) PROVE Typed'
  <2>1. PICK e \in pending :
          /\ event' = [event EXCEPT ![w] = e] /\ parts' = [parts EXCEPT ![w] = PartsOf(e)]
          /\ deliveries' = [deliveries EXCEPT ![e] = @ + 1]
    BY <1>1 DEF Deliver
  <2>2. at' = [at EXCEPT ![w] = "update"] /\ UNCHANGED <<profile, changes, pending, read, faults, crashes>>
    BY <1>1 DEF Deliver, Go, saved, bounds
  <2>3. e \in Events /\ PartsOf(e) \in Seq(Pairs) /\ Once(PartsOf(e))
    BY PartsAre DEF Typed
  <2> QED
    BY <2>1, <2>2, <2>3 DEF Typed, Updating
<1>2. ASSUME NEW w \in Loops, Load(w) PROVE Typed'
  <2>1. /\ at' = [at EXCEPT ![w] = "save"] /\ read' = [read EXCEPT ![w] = profile[User(w)]]
        /\ at[w] = "update" /\ parts[w] # <<>>
        /\ UNCHANGED <<profile, changes, pending, deliveries, event, parts, faults, crashes>>
    BY <1>2 DEF Load, Go, saved, bounds
  <2>2. profile[User(w)] \in Profiles
    BY <2>1, AtUpdate DEF Typed
  <2> QED
    BY <2>1, <2>2 DEF Typed, Updating
<1>3. ASSUME NEW w \in Loops, SaveProfile(w) PROVE Typed'
  <2>1. /\ at' = [at EXCEPT ![w] = "record"] /\ profile' = [profile EXCEPT ![User(w)] = Updated(w)]
        /\ at[w] = "save"
        /\ UNCHANGED <<changes, pending, deliveries, event, parts, read, faults, crashes>>
    BY <1>3 DEF SaveProfile, Go, bounds
  <2>2. User(w) \in Users /\ Updated(w) \in Profiles
    BY <2>1, AtUpdate DEF Typed, Updating
  <2> QED
    BY <2>1, <2>2 DEF Typed, Updating
<1>4. ASSUME NEW w \in Loops, SaveRecorded(w) \/ SaveChanged(w) PROVE Typed'
  <2>1. /\ at[w] \in {"record", "change"} /\ UNCHANGED <<profile, pending, deliveries, event, read, faults, crashes>>
        /\ \/ at' = [at EXCEPT ![w] = "change"] /\ UNCHANGED parts
           \/ at' = [at EXCEPT ![w] = "update"] /\ parts' = [parts EXCEPT ![w] = Tail(@)]
        /\ \/ UNCHANGED changes
           \/ changes' = [changes EXCEPT ![User(w)] = Append(@, <<read[w].score, Updated(w).score>>)]
    BY <1>4 DEF SaveRecorded, SaveChanged, NextPart, Go, saved, bounds
  <2>2. /\ User(w) \in Users /\ Updated(w) \in Profiles
        /\ Tail(parts[w]) \in Seq(Pairs) /\ Once(Tail(parts[w]))
    BY <2>1, AtUpdate DEF Typed, Updating
  <2>3. <<read[w].score, Updated(w).score>> \in Scores \X Scores
    BY <2>2 DEF Typed, Profiles
  <2>4. changes' \in [Users -> Seq(Scores \X Scores)]
    <3>1. PICK x \in Scores \X Scores : x = <<read[w].score, Updated(w).score>>
      BY <2>3
    <3>2. Append(changes[User(w)], x) \in Seq(Scores \X Scores)
      BY <2>2, AppendProperties DEF Typed
    <3> QED
      BY <2>1, <3>1, <3>2 DEF Typed
  <2>5. at' \in [Loops -> {"idle", "update", "save", "record", "change"}] /\ parts' \in [Loops -> Seq(Pairs)]
    BY <2>1, <2>2 DEF Typed
  <2>6. \A v \in Loops :
          /\ Once(parts'[v])
          /\ at'[v] \in Updating => parts'[v] # <<>>
          /\ at'[v] = "idle" => parts'[v] = <<>>
          /\ at'[v] # "idle" => at[v] # "idle"
    BY <2>1, <2>2 DEF Typed, Updating
  <2> QED
    BY <2>1, <2>4, <2>5, <2>6 DEF Typed
<1>5. ASSUME NEW w \in Loops, Settle(w) \/ Raise(w) PROVE Typed'
  <2>1. /\ at' = [at EXCEPT ![w] = "idle"] /\ event' = [event EXCEPT ![w] = NoEvent]
        /\ parts' = [parts EXCEPT ![w] = <<>>] /\ read' = [read EXCEPT ![w] = NewProfile]
        /\ pending' \subseteq Events /\ faults' \in Nat
        /\ UNCHANGED <<profile, changes, deliveries, crashes>>
    BY <1>5 DEF Settle, Raise, Leave, saved, bounds, Typed
  <2>2. Once(<<>>)
    BY DEF Once
  <2> QED
    BY <2>1, <2>2, NewIs DEF Typed, Updating
<1>6. CASE Crash
  <2>1. Once(<<>>)
    BY DEF Once
  <2> QED
    BY <1>6, <2>1, NewIs DEF Crash, Typed, Updating, saved
<1> QED
  BY <1>1, <1>2, <1>3, <1>4, <1>5, <1>6 DEF Next

LEMMA TypedIsTypeOK == Typed => TypeOK
<1> SUFFICES ASSUME Typed PROVE TypeOK
  OBVIOUS
<1>1. \A u \in Users : \A i \in DOMAIN changes[u] : changes[u][i] \in Scores \X Scores
  BY LenProperties, ElementOfSeq DEF Typed
<1>2. \A w \in Loops : ToSet(parts[w]) \subseteq Users \X Evidence
  BY LenProperties, ElementOfSeq DEF Typed, ToSet, Pairs
<1>3. \A w \in Loops :
        /\ event[w] \in Events \cup {NoEvent} /\ read[w] \in Profiles
        /\ at[w] \in {"save", "record", "change"} => parts[w] # <<>>
  BY DEF Typed, Updating
<1> QED
  BY <1>1, <1>2, <1>3 DEF Typed, TypeOK

LEMMA LockedStep == Typed /\ Locked /\ [Next]_vars => Locked'
<1> SUFFICES ASSUME Typed, Locked, [Next]_vars PROVE Locked'
  OBVIOUS
<1>1. CASE UNCHANGED vars
  BY <1>1 DEF vars, saved, locals, bounds, Locked, User, Updated
<1>2. ASSUME NEW w \in Loops, Deliver(w) PROVE Locked'
  BY <1>2, DeliverDoes DEF Locked, User, Updated, Updating
<1>3. ASSUME NEW w \in Loops, Load(w) PROVE Locked'
  BY <1>3, LoadDoes DEF Locked, User, Updated, Updating
<1>4. ASSUME NEW w \in Loops, SaveProfile(w) PROVE Locked'
  BY <1>4, SaveDoes DEF Locked, User, Updated, Updating
<1>5. ASSUME NEW w \in Loops, SaveRecorded(w) \/ SaveChanged(w) PROVE Locked'
  <2>1. CASE at'[w] = "change"
    BY <1>5, <2>1, ChangeDoes DEF Locked, User, Updated, Updating
  <2>2. CASE at'[w] # "change"
    BY <1>5, <2>2, NextDoes DEF Locked, User, Updated, Updating
  <2> QED
    BY <2>1, <2>2
<1>6. ASSUME NEW w \in Loops, Settle(w) \/ Raise(w) PROVE Locked'
  BY <1>6, LeaveDoes DEF Locked, User, Updated, Updating
<1>7. CASE Crash
  BY <1>7 DEF Crash, Locked, Updating
<1> QED
  BY <1>1, <1>2, <1>3, <1>4, <1>5, <1>6, <1>7 DEF Next

-----------------------------------------------------------------------------
(* Evidence is counted once for each delivery, and before the event is published. *)

\* The updates of its event that a loop has not saved yet.
Left(w) == IF at[w] \in {"record", "change"} THEN ToSet(Tail(parts[w])) ELSE ToSet(parts[w])

\* The loops that are still to count k for u.
Open(u, k) == {w \in Loops : <<u, k>> \in Left(w)}

\* A delivery is counted already or some loop is still to count it.
CountedOrOpen ==
  \A u \in Users, k \in Evidence :
    profile[u].count[k] + Cardinality(Open(u, k)) <= Cardinality(DeliveriesOf(u, k))

\* The events counted for sure: those published, and those a loop has passed.
Counted(u, k) ==
  {e \in EvidenceFor(u, k) :
     \/ e \notin pending /\ deliveries[e] > 0
     \/ \E w \in Loops : at[w] # "idle" /\ event[w] = e /\ <<u, k>> \notin Left(w)}

CountedEnough == \A u \in Users, k \in Evidence : Cardinality(Counted(u, k)) <= profile[u].count[k]

LEMMA CountIs ==
  ASSUME Typed, NEW u \in Users, NEW k \in Evidence
  PROVE  /\ profile[u].count[k] \in Nat
         /\ IsFiniteSet(Open(u, k)) /\ Cardinality(Open(u, k)) \in Nat
         /\ IsFiniteSet(Counted(u, k)) /\ Cardinality(Counted(u, k)) \in Nat
<1>1. profile[u].count[k] \in Nat
  BY DEF Typed, Profiles
<1>2. IsFiniteSet(Open(u, k))
  BY LoopsAssumption, FS_Subset DEF Open
<1>3. IsFiniteSet(Counted(u, k))
  BY EventsAssumption, FS_Subset DEF Counted, EvidenceFor
<1> QED
  BY <1>1, <1>2, <1>3, FS_CardinalityType

LEMMA DeliveriesFinite ==
  ASSUME Typed, NEW u \in Users, NEW k \in Evidence
  PROVE  IsFiniteSet(DeliveriesOf(u, k)) /\ Cardinality(DeliveriesOf(u, k)) \in Nat
<1> DEFINE Each == {{e} \X (1..deliveries[e]) : e \in EvidenceFor(u, k)}
<1>1. IsFiniteSet(EvidenceFor(u, k))
  BY EventsAssumption, FS_Subset DEF EvidenceFor
<1>2. IsFiniteSet(Each)
  <2> DEFINE f == [e \in EvidenceFor(u, k) |-> {e} \X (1..deliveries[e])]
  <2>1. f \in Surjection(EvidenceFor(u, k), Each)
    BY DEF Surjection
  <2> QED
    BY <1>1, <2>1, FS_Surjection
<1>3. \A e \in EvidenceFor(u, k) : IsFiniteSet({e} \X (1..deliveries[e]))
  <2> TAKE e \in EvidenceFor(u, k)
  <2>1. deliveries[e] \in Nat
    BY DEF EvidenceFor, Typed
  <2>2. IsFiniteSet(1..deliveries[e]) /\ IsFiniteSet({e})
    <3>1. 1 \in Int /\ deliveries[e] \in Int
      BY <2>1
    <3> QED
      BY <3>1, FS_Interval, FS_Singleton, Zenon
  <2> QED
    BY <2>2, FS_Product
<1>4. \A T \in Each : IsFiniteSet(T)
  BY <1>3
<1>5. IsFiniteSet(UNION Each)
  BY <1>2, <1>4, FS_UNION
<1> QED
  BY <1>5, FS_CardinalityType DEF DeliveriesOf

\* A delivery of an event that is evidence for u is one more; of another it is not.
LEMMA DeliveredOnceMore ==
  ASSUME Typed, NEW u \in Users, NEW k \in Evidence, NEW e \in Events,
         deliveries'[e] = deliveries[e] + 1, \A f \in Events \ {e} : deliveries'[f] = deliveries[f]
  PROVE  /\ e \in EvidenceFor(u, k) =>
              Cardinality(DeliveriesOf(u, k)') = Cardinality(DeliveriesOf(u, k)) + 1
         /\ e \notin EvidenceFor(u, k) => DeliveriesOf(u, k)' = DeliveriesOf(u, k)
<1>1. \A f, n : <<f, n>> \in DeliveriesOf(u, k) <=> f \in EvidenceFor(u, k) /\ n \in 1..deliveries[f]
  BY DEF DeliveriesOf
<1>2. \A f, n : <<f, n>> \in DeliveriesOf(u, k)' <=> f \in EvidenceFor(u, k) /\ n \in 1..deliveries'[f]
  BY DEF DeliveriesOf
<1>3. /\ \A d \in DeliveriesOf(u, k) : \E f, n : d = <<f, n>>
      /\ \A d \in DeliveriesOf(u, k)' : \E f, n : d = <<f, n>>
  BY DEF DeliveriesOf
<1>4. \A f \in EvidenceFor(u, k) : f \in Events /\ deliveries[f] \in Nat
  BY DEF EvidenceFor, Typed
<1>5. CASE e \in EvidenceFor(u, k)
  <2>1. PICK d : d = <<e, deliveries[e] + 1>>
    OBVIOUS
  <2>2. d \notin DeliveriesOf(u, k)
    BY <1>1, <1>4, <1>5, <2>1
  <2>3. \A f, n : <<f, n>> \in DeliveriesOf(u, k)' <=> <<f, n>> \in DeliveriesOf(u, k) \/ <<f, n>> = d
    <3> TAKE f, n
    <3>1. CASE f = e
      BY <1>1, <1>2, <1>4, <1>5, <2>1, <3>1
    <3>2. CASE f # e
      BY <1>1, <1>2, <1>4, <2>1, <3>2
    <3> QED
      BY <3>1, <3>2
  <2>4. DeliveriesOf(u, k)' = DeliveriesOf(u, k) \cup {d}
    BY <1>3, <2>1, <2>3
  <2>5. Cardinality(DeliveriesOf(u, k) \cup {d}) = Cardinality(DeliveriesOf(u, k)) + 1
    BY <2>2, DeliveriesFinite, FS_AddElement
  <2> QED
    BY <1>5, <2>4, <2>5
<1>6. CASE e \notin EvidenceFor(u, k)
  <2>1. \A f, n : <<f, n>> \in DeliveriesOf(u, k)' <=> <<f, n>> \in DeliveriesOf(u, k)
    BY <1>1, <1>2, <1>4, <1>6
  <2>2. DeliveriesOf(u, k)' = DeliveriesOf(u, k)
    BY <1>3, <2>1
  <2> QED
    BY <1>6, <2>2
<1> QED
  BY <1>5, <1>6

LEMMA CountsInit == Init => CountedOrOpen /\ CountedEnough
<1> SUFFICES ASSUME Init, NEW u \in Users, NEW k \in Evidence
             PROVE  /\ profile[u].count[k] + Cardinality(Open(u, k)) <= Cardinality(DeliveriesOf(u, k))
                    /\ Cardinality(Counted(u, k)) <= profile[u].count[k]
  BY DEF CountedOrOpen, CountedEnough
<1>1. profile[u].count[k] = 0
  BY NewIs DEF Init
<1>2. Open(u, k) = {} /\ Counted(u, k) = {}
  BY DEF Init, Open, Counted, Left, ToSet, EvidenceFor
<1>3. Cardinality(DeliveriesOf(u, k)) \in Nat
  BY TypedInit, DeliveriesFinite
<1> QED
  BY <1>1, <1>2, <1>3, FS_EmptySet

LEMMA OneMore ==
  ASSUME NEW S, IsFiniteSet(S), NEW x, NEW T, T \subseteq S \cup {x}
  PROVE  Cardinality(S) \in Nat /\ Cardinality(T) \in Nat /\ Cardinality(T) <= Cardinality(S) + 1
<1>1. /\ IsFiniteSet(S \cup {x})
      /\ Cardinality(S \cup {x}) = IF x \in S THEN Cardinality(S) ELSE Cardinality(S) + 1
  BY FS_AddElement
<1>2. IsFiniteSet(T) /\ Cardinality(T) <= Cardinality(S \cup {x})
  BY <1>1, FS_Subset
<1>3. Cardinality(S) \in Nat /\ Cardinality(T) \in Nat
  BY <1>2, FS_CardinalityType
<1> QED
  BY <1>1, <1>2, <1>3

\* A step that saves no profile and delivers nothing only forgets.
LEMMA Forgets ==
  ASSUME Typed, CountedOrOpen, CountedEnough, UNCHANGED <<profile, deliveries>>,
         \A w \in Loops : Left(w)' \subseteq Left(w),
         \A u \in Users, k \in Evidence : Counted(u, k)' \subseteq Counted(u, k)
  PROVE  CountedOrOpen' /\ CountedEnough'
<1>1. ASSUME NEW u \in Users, NEW k \in Evidence
      PROVE  /\ profile'[u].count[k] + Cardinality(Open(u, k)') <= Cardinality(DeliveriesOf(u, k)')
             /\ Cardinality(Counted(u, k)') <= profile'[u].count[k]
  <2>1. /\ profile[u].count[k] + Cardinality(Open(u, k)) <= Cardinality(DeliveriesOf(u, k))
        /\ Cardinality(Counted(u, k)) <= profile[u].count[k]
    BY DEF CountedOrOpen, CountedEnough
  <2>2. Open(u, k)' \subseteq Open(u, k)
    BY DEF Open
  <2>3. Cardinality(Open(u, k)') <= Cardinality(Open(u, k)) /\ Cardinality(Open(u, k)') \in Nat
    BY <2>2, CountIs, FS_Subset, FS_CardinalityType
  <2>4. Cardinality(Counted(u, k)') <= Cardinality(Counted(u, k)) /\ Cardinality(Counted(u, k)') \in Nat
    BY CountIs, FS_Subset, FS_CardinalityType
  <2>5. DeliveriesOf(u, k)' = DeliveriesOf(u, k)
    BY DEF DeliveriesOf
  <2> QED
    BY <2>1, <2>3, <2>4, <2>5, CountIs, DeliveriesFinite
<1> QED
  BY <1>1 DEF CountedOrOpen, CountedEnough

\* A delivery opens what the event is evidence for, and nothing else.
LEMMA DeliverCounts ==
  ASSUME Typed, CountedOrOpen, CountedEnough, NEW w \in Loops, Deliver(w)
  PROVE  CountedOrOpen' /\ CountedEnough'
<1>1. PICK e \in pending :
        /\ at[w] = "idle" /\ at'[w] = "update" /\ event'[w] = e /\ parts'[w] = PartsOf(e)
        /\ \A v \in Loops \ {w} : at'[v] = at[v] /\ parts'[v] = parts[v] /\ event'[v] = event[v]
        /\ deliveries'[e] = deliveries[e] + 1
        /\ \A f \in Events \ {e} : deliveries'[f] = deliveries[f]
        /\ UNCHANGED <<profile, changes, pending, read, faults, crashes>>
  BY DeliverDoes
<1>2. e \in Events
  BY DEF Typed
<1>3. Left(w)' = ToSet(PartsOf(e)) /\ \A v \in Loops \ {w} : Left(v)' = Left(v)
  BY <1>1 DEF Left
<1>4. ASSUME NEW u \in Users, NEW k \in Evidence
      PROVE  /\ profile'[u].count[k] + Cardinality(Open(u, k)') <= Cardinality(DeliveriesOf(u, k)')
             /\ Cardinality(Counted(u, k)') <= profile'[u].count[k]
  <2>1. /\ profile[u].count[k] + Cardinality(Open(u, k)) <= Cardinality(DeliveriesOf(u, k))
        /\ Cardinality(Counted(u, k)) <= profile[u].count[k]
    BY DEF CountedOrOpen, CountedEnough
  <2>2. <<u, k>> \in Left(w)' <=> e \in EvidenceFor(u, k)
    BY <1>2, <1>3, PartsAre DEF EvidenceFor
  <2>3. e \in EvidenceFor(u, k) => Open(u, k)' \subseteq Open(u, k) \cup {w}
    BY <1>3 DEF Open
  <2>4. e \notin EvidenceFor(u, k) => Open(u, k)' \subseteq Open(u, k)
    BY <1>3, <2>2 DEF Open
  <2>5. profile'[u].count[k] + Cardinality(Open(u, k)') <= Cardinality(DeliveriesOf(u, k)')
    <3>1. CASE e \in EvidenceFor(u, k)
      <4>1. Cardinality(Open(u, k)') <= Cardinality(Open(u, k)) + 1 /\ Cardinality(Open(u, k)') \in Nat
        BY <2>3, <3>1, CountIs, OneMore
      <4>2. profile'[u].count[k] = profile[u].count[k]
        BY <1>1
      <4>3. Cardinality(DeliveriesOf(u, k)') = Cardinality(DeliveriesOf(u, k)) + 1
        BY <1>1, <1>2, <3>1, DeliveredOnceMore
      <4> QED
        BY <2>1, <4>1, <4>2, <4>3, CountIs, DeliveriesFinite
    <3>2. CASE e \notin EvidenceFor(u, k)
      <4>1. Cardinality(Open(u, k)') <= Cardinality(Open(u, k)) /\ Cardinality(Open(u, k)') \in Nat
        BY <2>4, <3>2, CountIs, FS_Subset, FS_CardinalityType
      <4>2. DeliveriesOf(u, k)' = DeliveriesOf(u, k)
        BY <1>1, <1>2, <3>2, DeliveredOnceMore
      <4> QED
        BY <1>1, <2>1, <4>1, <4>2, CountIs, DeliveriesFinite
    <3> QED
      BY <3>1, <3>2
  <2>6. Counted(u, k)' \subseteq Counted(u, k)
    <3> SUFFICES ASSUME NEW f \in Counted(u, k)' PROVE f \in Counted(u, k)
      OBVIOUS
    <3>1. f \in EvidenceFor(u, k) /\ f \in Events
      BY DEF Counted, EvidenceFor
    <3>2. CASE f \notin pending' /\ deliveries'[f] > 0
      BY <1>1, <3>1, <3>2 DEF Counted
    <3>3. ASSUME NEW v \in Loops, at'[v] # "idle", event'[v] = f, <<u, k>> \notin Left(v)'
          PROVE  f \in Counted(u, k)
      <4>1. v # w
        BY <1>1, <2>2, <3>1, <3>3
      <4> QED
        BY <1>1, <1>3, <3>1, <3>3, <4>1 DEF Counted
    <3> QED
      BY <3>2, <3>3 DEF Counted
  <2>7. Cardinality(Counted(u, k)') <= Cardinality(Counted(u, k)) /\ Cardinality(Counted(u, k)') \in Nat
    BY <2>6, CountIs, FS_Subset, FS_CardinalityType
  <2> QED
    BY <1>1, <2>1, <2>5, <2>7, CountIs
<1> QED
  BY <1>4 DEF CountedOrOpen, CountedEnough

\* Saving a profile counts the loop's update, which is open no more, and no other.
LEMMA SaveCounts ==
  ASSUME Typed, Locked, CountedOrOpen, CountedEnough, NEW w \in Loops, SaveProfile(w)
  PROVE  CountedOrOpen' /\ CountedEnough'
<1>1. /\ at[w] = "save" /\ at'[w] = "record" /\ profile'[User(w)] = Updated(w)
      /\ \A v \in Loops \ {w} : at'[v] = at[v]
      /\ \A u \in Users \ {User(w)} : profile'[u] = profile[u]
      /\ UNCHANGED <<changes, pending, deliveries, event, parts, read, faults, crashes>>
  BY SaveDoes
<1>2. PICK k0 : k0 = Head(parts[w])[2]
  OBVIOUS
<1>3. /\ User(w) \in Users /\ k0 \in Evidence /\ Head(parts[w]) = <<User(w), k0>>
      /\ \A j \in Evidence :
           Updated(w).count[j] = IF j = k0 THEN read[w].count[j] + 1 ELSE read[w].count[j]
      /\ ToSet(parts[w]) = {<<User(w), k0>>} \cup ToSet(Tail(parts[w]))
      /\ <<User(w), k0>> \notin ToSet(Tail(parts[w]))
  <2>1. parts[w] # <<>>
    BY <1>1 DEF Typed, Updating
  <2> QED
    BY <1>2, <2>1, AtUpdate
<1>4. /\ Left(w) = {<<User(w), k0>>} \cup Left(w)' /\ <<User(w), k0>> \notin Left(w)'
      /\ \A v \in Loops \ {w} : Left(v)' = Left(v)
  BY <1>1, <1>3 DEF Left
<1>5. profile[User(w)] = read[w]
  BY <1>1 DEF Locked
<1>6. \A u \in Users, k \in Evidence :
        profile'[u].count[k] = IF <<u, k>> = <<User(w), k0>> THEN profile[u].count[k] + 1
                                                             ELSE profile[u].count[k]
  BY <1>1, <1>3, <1>5
<1>7. ASSUME NEW u \in Users, NEW k \in Evidence
      PROVE  /\ profile'[u].count[k] + Cardinality(Open(u, k)') <= Cardinality(DeliveriesOf(u, k)')
             /\ Cardinality(Counted(u, k)') <= profile'[u].count[k]
  <2>1. /\ profile[u].count[k] + Cardinality(Open(u, k)) <= Cardinality(DeliveriesOf(u, k))
        /\ Cardinality(Counted(u, k)) <= profile[u].count[k]
    BY DEF CountedOrOpen, CountedEnough
  <2>2. DeliveriesOf(u, k)' = DeliveriesOf(u, k)
    BY <1>1 DEF DeliveriesOf
  <2>3. CASE <<u, k>> = <<User(w), k0>>
    <3>1. Open(u, k)' = Open(u, k) \ {w} /\ w \in Open(u, k)
      BY <1>4, <2>3 DEF Open
    <3>2. Cardinality(Open(u, k) \ {w}) = Cardinality(Open(u, k)) - 1
      BY <3>1, CountIs, FS_RemoveElement
    <3>3. Counted(u, k)' \subseteq Counted(u, k) \cup {event[w]}
      BY <1>1, <1>4 DEF Counted
    <3>4. Cardinality(Counted(u, k)') <= Cardinality(Counted(u, k)) + 1
          /\ Cardinality(Counted(u, k)') \in Nat
      BY <3>3, CountIs, OneMore
    <3>5. profile'[u].count[k] = profile[u].count[k] + 1
      BY <1>6, <2>3
    <3> QED
      BY <2>1, <2>2, <3>1, <3>2, <3>4, <3>5, CountIs, DeliveriesFinite
  <2>4. CASE <<u, k>> # <<User(w), k0>>
    <3>1. \A v \in Loops : <<u, k>> \in Left(v)' <=> <<u, k>> \in Left(v)
      BY <1>4, <2>4
    <3>2. Open(u, k)' = Open(u, k)
      BY <3>1 DEF Open
    <3>3. Counted(u, k)' = Counted(u, k)
      BY <1>1, <3>1 DEF Counted
    <3>4. profile'[u].count[k] = profile[u].count[k]
      BY <1>6, <2>4
    <3> QED
      BY <2>1, <2>2, <3>2, <3>3, <3>4
  <2> QED
    BY <2>3, <2>4
<1> QED
  BY <1>7 DEF CountedOrOpen, CountedEnough

LEMMA CountsStep ==
  Typed /\ Locked /\ CountedOrOpen /\ CountedEnough /\ [Next]_vars => CountedOrOpen' /\ CountedEnough'
<1> SUFFICES ASSUME Typed, Locked, CountedOrOpen, CountedEnough, [Next]_vars
             PROVE  CountedOrOpen' /\ CountedEnough'
  OBVIOUS
<1> DEFINE Less == /\ \A w \in Loops : Left(w)' \subseteq Left(w)
                   /\ \A u \in Users, k \in Evidence : Counted(u, k)' \subseteq Counted(u, k)
<1>1. CASE UNCHANGED vars
  <2>1. UNCHANGED <<profile, deliveries>> /\ Less
    BY <1>1 DEF vars, saved, locals, bounds, Left, Counted
  <2> QED
    BY <2>1, Forgets
<1>2. ASSUME NEW w \in Loops, Load(w) PROVE CountedOrOpen' /\ CountedEnough'
  <2>1. \A v \in Loops : Left(v)' = Left(v) /\ (at'[v] # "idle" <=> at[v] # "idle")
    BY <1>2, LoadDoes DEF Left
  <2>2. UNCHANGED <<profile, deliveries>> /\ Less
    BY <1>2, <2>1, LoadDoes DEF Counted
  <2> QED
    BY <2>2, Forgets
<1>3. ASSUME NEW w \in Loops, SaveRecorded(w) \/ SaveChanged(w) PROVE CountedOrOpen' /\ CountedEnough'
  <2>1. /\ \A v \in Loops : Left(v)' = Left(v) /\ (at'[v] # "idle" <=> at[v] # "idle")
        /\ UNCHANGED <<profile, pending, deliveries, event>>
    <3>1. CASE at'[w] = "change"
      BY <1>3, <3>1, ChangeDoes DEF Left
    <3>2. CASE at'[w] # "change"
      BY <1>3, <3>2, NextDoes DEF Left
    <3> QED
      BY <3>1, <3>2
  <2>2. Less
    BY <2>1 DEF Counted
  <2> QED
    BY <2>1, <2>2, Forgets
<1>4. ASSUME NEW w \in Loops, Settle(w) \/ Raise(w) PROVE CountedOrOpen' /\ CountedEnough'
  <2>1. /\ Left(w)' = {} /\ at'[w] = "idle"
        /\ \A v \in Loops \ {w} : Left(v)' = Left(v) /\ at'[v] = at[v] /\ event'[v] = event[v]
        /\ UNCHANGED <<profile, deliveries>>
    <3>1. ToSet(<<>>) = {}
      BY DEF ToSet
    <3> QED
      BY <1>4, <3>1, LeaveDoes DEF Left
  <2>2. /\ pending' = pending \/ pending' = pending \ {event[w]}
        /\ pending' # pending => at[w] = "update" /\ Left(w) = {}
    BY <1>4 DEF Settle, Raise, Left, ToSet
  <2>3. ASSUME NEW u \in Users, NEW k \in Evidence, NEW e \in Counted(u, k)'
        PROVE  e \in Counted(u, k)
    <3>1. e \in EvidenceFor(u, k)
      BY DEF Counted, EvidenceFor
    <3>2. CASE e \notin pending' /\ deliveries'[e] > 0
      <4>1. CASE e \notin pending
        BY <2>1, <3>1, <3>2, <4>1 DEF Counted
      <4>2. CASE e \in pending
        <5>1. at[w] # "idle" /\ event[w] = e /\ <<u, k>> \notin Left(w)
          BY <2>2, <3>2, <4>2
        <5> QED
          BY <3>1, <5>1 DEF Counted
      <4> QED
        BY <4>1, <4>2
    <3>3. ASSUME NEW v \in Loops, at'[v] # "idle", event'[v] = e, <<u, k>> \notin Left(v)'
          PROVE  e \in Counted(u, k)
      BY <2>1, <3>1, <3>3 DEF Counted
    <3> QED
      BY <3>2, <3>3 DEF Counted
  <2> QED
    BY <2>1, <2>3, Forgets
<1>5. CASE Crash
  <2>1. /\ \A w \in Loops : Left(w)' = {} /\ at'[w] = "idle"
        /\ UNCHANGED <<profile, pending, deliveries>>
    BY <1>5 DEF Crash, Left, ToSet, saved
  <2>2. Less
    BY <2>1 DEF Counted
  <2> QED
    BY <2>1, <2>2, Forgets
<1> QED
  BY <1>1, <1>2, <1>3, <1>4, <1>5, DeliverCounts, SaveCounts DEF Next

CountInv == Typed /\ Locked /\ CountedOrOpen /\ CountedEnough

LEMMA CountInvariant == Spec => []CountInv
<1>1. Init => CountInv
  BY TypedInit, CountsInit DEF CountInv
<1>2. CountInv /\ [Next]_vars => CountInv'
  BY TypedStep, LockedStep, CountsStep DEF CountInv
<1> QED
  BY <1>1, <1>2, PTL DEF Spec

\* Types hold, with scores in 0..1000; whatever raises, crashes or is delivered again, a
\* published event has been counted, and no event counts for a user more often than it
\* was delivered (handlers.py:21-75, domain/trust/score.py:43).
THEOREM EvidenceIsCounted == Spec => []CountedAsDelivered
<1>1. CountInv => CountedAsDelivered
  <2> SUFFICES ASSUME CountInv PROVE CountedAsDelivered
    OBVIOUS
  <2>1. ASSUME NEW u \in Users, NEW k \in Evidence
        PROVE  /\ profile[u].count[k] <= Cardinality(DeliveriesOf(u, k))
               /\ profile[u].count[k] >= Cardinality({e \in EvidenceFor(u, k) \ pending : deliveries[e] > 0})
    <3>1. /\ profile[u].count[k] + Cardinality(Open(u, k)) <= Cardinality(DeliveriesOf(u, k))
          /\ Cardinality(Counted(u, k)) <= profile[u].count[k]
      BY DEF CountInv, CountedOrOpen, CountedEnough
    <3>2. PICK P : P = {e \in EvidenceFor(u, k) \ pending : deliveries[e] > 0}
      OBVIOUS
    <3>3. P \subseteq Counted(u, k)
      BY <3>2 DEF Counted
    <3>4. Cardinality(P) <= Cardinality(Counted(u, k)) /\ Cardinality(P) \in Nat
      BY <3>3, CountIs, FS_Subset, FS_CardinalityType DEF CountInv
    <3>5. Typed
      BY DEF CountInv
    <3> QED
      BY <3>1, <3>2, <3>4, <3>5, CountIs, DeliveriesFinite
  <2>2. TypeOK
    BY TypedIsTypeOK DEF CountInv
  <2> QED
    BY <2>1, <2>2 DEF CountedAsDelivered, PublishedIsCounted, CountedPerDelivery
<1> QED
  BY <1>1, CountInvariant, PTL

-----------------------------------------------------------------------------
(* The announced scores. *)

\* The score the events of a user have led to.
Announced(u) == IF changes[u] = <<>> THEN 100 ELSE changes[u][Len(changes[u])][2]

\* Each event begins where the one before it ended.
Chained(u) ==
  /\ changes[u] # <<>> => changes[u][1][1] = 100
  /\ \A i \in 2..Len(changes[u]) : changes[u][i][1] = changes[u][i - 1][2]

\* What is announced is what the loop that updates the profile has read, until it
\* announces its own; and otherwise what is stored.
InStep ==
  faults = 0 /\ crashes = 0 =>
    \A u \in Users :
      /\ Chained(u)
      /\ (\A w \in Loops : ~(at[w] \in {"record", "change"} /\ User(w) = u)) => Announced(u) = profile[u].score
      /\ \A w \in Loops : at[w] \in {"record", "change"} /\ User(w) = u => Announced(u) = read[w].score

LEMMA InStepInit == Init => InStep
<1>1. NewProfile.score = 100
  BY DEF NewProfile, Score, NoEvidence, Clamp, Least, Evidence
<1> QED
  BY <1>1 DEF Init, InStep, Chained, Announced

\* A change announced with the score it begins from lengthens the chain.
LEMMA Lengthens ==
  ASSUME Typed, NEW u \in Users, NEW a \in Scores, NEW b \in Scores,
         changes'[u] = Append(changes[u], <<a, b>>), Chained(u), Announced(u) = a
  PROVE  Chained(u)' /\ Announced(u)' = b
<1>1. PICK s, t, x : s = changes[u] /\ t = changes'[u] /\ x = <<a, b>>
  OBVIOUS
<1>2. s \in Seq(Scores \X Scores) /\ x \in Scores \X Scores /\ x[1] = a /\ x[2] = b /\ t = Append(s, x)
  BY <1>1 DEF Typed
<1>3. PICK n \in Nat : n = Len(s)
  BY <1>2, LenProperties
<1>4. /\ t # <<>> /\ Len(t) = n + 1 /\ t[n + 1] = x /\ \A i \in 1..n : t[i] = s[i]
      /\ s = <<>> <=> n = 0
  BY <1>2, <1>3, AppendProperties, EmptySeq
<1>5. /\ s # <<>> => s[1][1] = 100
      /\ \A i \in 2..n : s[i][1] = s[i - 1][2]
      /\ a = IF s = <<>> THEN 100 ELSE s[n][2]
  BY <1>1, <1>3 DEF Chained, Announced
<1>6. t[1][1] = 100
  BY <1>2, <1>4, <1>5
<1>7. \A i \in 2..n + 1 : t[i][1] = t[i - 1][2]
  <2> TAKE i \in 2..n + 1
  <2>1. CASE i = n + 1
    <3>1. n \in 1..n /\ i - 1 = n /\ s # <<>>
      BY <1>4, <2>1
    <3> QED
      BY <1>2, <1>4, <1>5, <2>1, <3>1
  <2>2. CASE i # n + 1
    <3>1. i \in 2..n /\ i \in 1..n /\ i - 1 \in 1..n
      BY <2>2
    <3> QED
      BY <1>4, <1>5, <3>1
  <2> QED
    BY <2>1, <2>2
<1>8. t[n + 1][2] = b
  BY <1>2, <1>4
<1>9. Chained(u)'
  BY <1>1, <1>4, <1>6, <1>7 DEF Chained
<1>10. Announced(u)' = b
  BY <1>1, <1>4, <1>8 DEF Announced
<1> QED
  BY <1>9, <1>10

LEMMA InStepStep == Typed /\ Locked /\ InStep /\ [Next]_vars => InStep'
<1> SUFFICES ASSUME Typed, Locked, InStep, [Next]_vars, faults' = 0, crashes' = 0 PROVE InStep'
  BY DEF InStep
<1> DEFINE Busy(w, u) == at[w] \in {"record", "change"} /\ User(w) = u
<1>1. \A w \in Loops : ~Raise(w)
  BY DEF Raise, Typed
<1>2. ~Crash
  BY DEF Crash, Typed
<1>3. faults = 0 /\ crashes = 0
  BY <1>1, <1>2 DEF Next, vars, bounds, Deliver, Load, SaveProfile, SaveRecorded, SaveChanged, Settle
<1>4. \A u \in Users :
        /\ Chained(u)
        /\ (\A w \in Loops : ~Busy(w, u)) => Announced(u) = profile[u].score
        /\ \A w \in Loops : Busy(w, u) => Announced(u) = read[w].score
  BY <1>3 DEF InStep
<1>5. ASSUME UNCHANGED <<profile, changes>>,
             \A w \in Loops, u \in Users : Busy(w, u)' <=> Busy(w, u),
             \A w \in Loops, u \in Users : Busy(w, u) => read'[w] = read[w]
      PROVE  InStep'
  BY <1>4, <1>5 DEF InStep, Chained, Announced
<1>6. CASE UNCHANGED vars
  BY <1>5, <1>6 DEF vars, saved, locals, User
<1>7. ASSUME NEW w \in Loops, Deliver(w) PROVE InStep'
  <2>1. /\ UNCHANGED <<profile, changes, read>> /\ at[w] = "idle" /\ at'[w] = "update"
        /\ \A v \in Loops \ {w} : at'[v] = at[v] /\ parts'[v] = parts[v]
    BY <1>7, DeliverDoes
  <2> QED
    BY <1>5, <2>1 DEF User
<1>8. ASSUME NEW w \in Loops, Load(w) PROVE InStep'
  BY <1>5, <1>8, LoadDoes DEF User
<1>9. ASSUME NEW w \in Loops, SaveProfile(w) PROVE InStep'
  <2>1. /\ at[w] = "save" /\ at'[w] = "record" /\ UNCHANGED <<changes, parts, read>>
        /\ \A v \in Loops \ {w} : at'[v] = at[v]
        /\ \A u \in Users \ {User(w)} : profile'[u] = profile[u]
    BY <1>9, SaveDoes
  <2>2. \A v \in Loops : at[v] \notin {"record", "change"}
    BY <2>1 DEF Locked, Updating
  <2>3. \A u \in Users : Announced(u) = profile[u].score
    BY <1>4, <2>2
  <2>4. \A v \in Loops, u \in Users : Busy(v, u)' <=> v = w /\ u = User(w)
    BY <2>1, <2>2 DEF User
  <2>5. read[w] = profile[User(w)] /\ User(w) \in Users
    BY <2>1, AtUpdate DEF Locked, Typed, Updating
  <2>6. \A u \in Users : Announced(u)' = Announced(u) /\ Chained(u)'
    BY <1>4, <2>1 DEF Announced, Chained
  <2> QED
    BY <2>1, <2>3, <2>4, <2>5, <2>6 DEF InStep
<1>10. ASSUME NEW w \in Loops, SaveRecorded(w) \/ SaveChanged(w) PROVE InStep'
  <2>1. CASE at'[w] = "change"
    BY <1>5, <1>10, <2>1, ChangeDoes DEF User
  <2>2. CASE at'[w] # "change"
    <3>1. /\ at[w] \in {"record", "change"} /\ at'[w] = "update" /\ UNCHANGED <<profile, read>>
          /\ at[w] = "record" => Updated(w).score = read[w].score
          /\ \A v \in Loops \ {w} : at'[v] = at[v] /\ parts'[v] = parts[v]
      BY <1>10, <2>2, NextDoes
    <3>2. PICK u0 \in Users : u0 = User(w)
      BY <3>1, AtUpdate DEF Typed, Updating
    <3>3. /\ profile[u0] = Updated(w) /\ Announced(u0) = read[w].score
          /\ read[w].score \in Scores /\ Updated(w).score \in Scores
      BY <1>4, <3>1, <3>2, AtUpdate DEF Locked, Typed, Profiles, Updating
    <3>4. \A v \in Loops : v # w => at[v] \notin {"record", "change"}
      BY <3>1 DEF Locked, Updating
    <3>5. \A v \in Loops, u \in Users : ~Busy(v, u)'
      BY <3>1, <3>4
    <3>6. Chained(u0)' /\ Announced(u0)' = Updated(w).score
      <4>1. CASE at[w] = "record"
        <5>1. UNCHANGED changes
          BY <1>10, <4>1 DEF SaveRecorded, SaveChanged, saved
        <5> QED
          BY <1>4, <3>1, <3>3, <4>1, <5>1 DEF Chained, Announced
      <4>2. CASE at[w] = "change"
        <5>1. changes'[u0] = Append(changes[u0], <<read[w].score, Updated(w).score>>)
          BY <1>10, <3>2, <4>2 DEF SaveRecorded, SaveChanged, Go, Typed
        <5> QED
          BY <1>4, <3>3, <5>1, Lengthens
      <4> QED
        BY <3>1, <4>1, <4>2
    <3>7. \A u \in Users \ {u0} : changes'[u] = changes[u]
      BY <1>10, <3>2 DEF SaveRecorded, SaveChanged, saved, Typed
    <3>8. \A u \in Users \ {u0} : Chained(u)' /\ Announced(u)' = profile[u].score
      <4> TAKE u \in Users \ {u0}
      <4>1. \A v \in Loops : ~Busy(v, u)
        BY <3>2, <3>4
      <4> QED
        BY <1>4, <3>7, <4>1 DEF Chained, Announced
    <3> QED
      BY <3>1, <3>3, <3>5, <3>6, <3>8 DEF InStep
  <2> QED
    BY <2>1, <2>2
<1>11. ASSUME NEW w \in Loops, Settle(w) PROVE InStep'
  <2>1. at[w] = "update"
    BY <1>11 DEF Settle
  <2> QED
    BY <1>5, <1>11, <2>1, LeaveDoes DEF User
<1> QED
  BY <1>1, <1>2, <1>6, <1>7, <1>8, <1>9, <1>10, <1>11 DEF Next

\* With any number of loops, and until a call raises or the process crashes, the
\* TrustScoreChanged events of a user lead from 100 to the score in the profile without
\* a gap whenever nobody is updating one (handlers.py:67-75).
THEOREM ScoresAreAnnounced == Spec => []ScoreHistoryUnbroken
<1>1. Typed /\ InStep => ScoreHistoryUnbroken
  <2> SUFFICES ASSUME Typed, InStep, faults = 0, crashes = 0,
                      \A w \in Loops : at[w] \notin Updating,
                      NEW u \in Users, NEW scores, scores = <<<<100, 100>>>> \o changes[u]
               PROVE  /\ \A i \in 2..Len(scores) : scores[i][1] = scores[i - 1][2]
                      /\ Last(scores)[2] = profile[u].score
    BY DEF ScoreHistoryUnbroken
  <2>1. Chained(u) /\ Announced(u) = profile[u].score
    BY DEF InStep, Updating
  <2>2. PICK s, f, n : s = changes[u] /\ f = <<<<100, 100>>>> /\ n = Len(s)
    OBVIOUS
  <2>3. /\ s \in Seq(Scores \X Scores) /\ f \in Seq(Scores \X Scores) /\ n \in Nat
        /\ Len(f) = 1 /\ f[1] = <<100, 100>> /\ (s = <<>> <=> n = 0)
    BY <2>2, LenProperties, EmptySeq DEF Typed, Scores
  <2>4. /\ Len(scores) = n + 1
        /\ \A i \in 1..n + 1 : scores[i] = IF i <= 1 THEN f[i] ELSE s[i - 1]
    BY <2>2, <2>3, ConcatProperties
  <2>5. scores[1][2] = 100 /\ \A i \in 2..n + 1 : scores[i] = s[i - 1]
    BY <2>3, <2>4
  <2>6. \A i \in 2..n + 1 : scores[i][1] = scores[i - 1][2]
    <3> TAKE i \in 2..n + 1
    <3>1. CASE i = 2
      BY <2>1, <2>2, <2>3, <2>5, <3>1 DEF Chained
    <3>2. CASE i # 2
      <4>1. i - 1 \in 2..n + 1 /\ i - 1 \in 2..n
        BY <2>3, <3>2
      <4> QED
        BY <2>1, <2>2, <2>5, <4>1 DEF Chained
    <3> QED
      BY <3>1, <3>2
  <2>7. Last(scores)[2] = Announced(u)
    <3>1. Last(scores) = scores[n + 1]
      BY <2>4 DEF Last
    <3>2. CASE n = 0
      BY <2>2, <2>3, <2>5, <3>1, <3>2 DEF Announced
    <3>3. CASE n # 0
      <4>1. n + 1 \in 2..n + 1 /\ (n + 1) - 1 = n
        BY <2>3, <3>3
      <4>2. scores[n + 1] = s[n]
        BY <2>5, <4>1
      <4> QED
        BY <2>2, <2>3, <3>1, <3>3, <4>2 DEF Announced
    <3> QED
      BY <3>2, <3>3
  <2> QED
    BY <2>1, <2>4, <2>6, <2>7
<1> QED
  BY <1>1, TypedInit, InStepInit, TypedStep, LockedStep, InStepStep, PTL DEF Spec
=============================================================================
