-------------------------- MODULE DispatcherProofs --------------------------
(***************************************************************************)
(* What the in-process dispatcher guarantees for every set of events, any  *)
(* number of starts and stops, and whether or not stop() gives up on its   *)
(* thread: events are handled once and, until it has given up, in order;   *)
(* when nothing is left nothing is counted; idle means handled.            *)
(***************************************************************************)
EXTENDS Dispatcher, FiniteSetTheorems, SequenceTheorems, TLAPS

Items == Events \cup {Sentinel}

LEMMA NamesDiffer == Sentinel \notin Events /\ NoEvent \notin Events /\ Sentinel # NoEvent
BY EventsAssumption DEF Sentinel, NoEvent

-----------------------------------------------------------------------------
(* Types. *)

\* A thread holds an item while it handles it and until it has counted it down.
Typed ==
  /\ status \in {"stopped", "running", "joining"} /\ thread \in Loops \cup {NoThread}
  /\ queue \in Seq(Items) /\ pending \in Nat
  /\ publisher \in [Events -> {"idle", "count", "put", "done", "refused"}]
  /\ at \in [Loops -> {"off", "get", "handle", "release"}]
  /\ got \in [Loops -> Items \cup {NoEvent}]
  /\ \A w \in Loops : at[w] = "handle" => got[w] \in Events
  /\ \A w \in Loops : at[w] = "release" => got[w] \in Items
  /\ waiter \in {"out", "check", "blocked", "idle", "late"}
  /\ order \in Seq(Events) /\ handled \in Seq(Events)
  /\ abandoned \in BOOLEAN /\ stops \in Nat
  /\ status # "stopped" => thread \in Loops

LEMMA TypedInit == Init => Typed
<1> SUFFICES ASSUME Init PROVE Typed
  OBVIOUS
<1>1. queue \in Seq(Items) /\ order \in Seq(Events) /\ handled \in Seq(Events)
  BY DEF Init
<1>2. abandoned \in BOOLEAN
  BY DEF Init
<1>3. at \in [Loops -> {"off", "get", "handle", "release"}] /\ \A w \in Loops : at[w] = "off"
  BY DEF Init
<1> QED
  BY <1>1, <1>2, <1>3 DEF Init, Typed

LEMMA TypedStep == Typed /\ [Next]_vars => Typed'
<1> SUFFICES ASSUME Typed, [Next]_vars PROVE Typed'
  OBVIOUS
<1> USE NamesDiffer DEF Typed, control, loop, history
<1>1. ASSUME NEW e \in Events, BeginPublish(e) PROVE Typed'
  BY <1>1 DEF BeginPublish, Publisher
<1>2. ASSUME NEW e \in Events, Count(e) PROVE Typed'
  BY <1>2 DEF Count, Publisher
<1>3. ASSUME NEW e \in Events, Put(e) PROVE Typed'
  BY <1>3 DEF Put, Publisher, Items
<1>4. ASSUME NEW w \in Loops, Get(w) PROVE Typed'
  <2>1. Head(queue) \in Items /\ Tail(queue) \in Seq(Items)
    BY <1>4, HeadTailProperties DEF Get
  <2> QED
    BY <1>4, <2>1 DEF Get, Items
<1>5. ASSUME NEW w \in Loops, Handle(w) PROVE Typed'
  BY <1>5 DEF Handle, Items
<1>6. ASSUME NEW w \in Loops, Release(w) PROVE Typed'
  BY <1>6 DEF Release, Notify
<1>7. ASSUME NEW w \in Loops, Start(w) PROVE Typed'
  BY <1>7 DEF Start
<1>8. CASE Stop
  BY <1>8 DEF Stop, Items
<1>9. CASE Joined
  BY <1>9 DEF Joined
<1>10. CASE Wait \/ EvaluateIdle \/ WaitTimesOut
  BY <1>10 DEF Wait, EvaluateIdle, WaitTimesOut
<1>11. CASE UNCHANGED vars
  BY <1>11 DEF vars
<1> QED
  BY <1>1, <1>2, <1>3, <1>4, <1>5, <1>6, <1>7, <1>8, <1>9, <1>10, <1>11 DEF Next, LoopStep

LEMMA TypedIsTypeOK == Typed => TypeOK
<1> SUFFICES ASSUME Typed PROVE TypeOK
  OBVIOUS
<1>1. /\ \A i \in DOMAIN queue : queue[i] \in Items
      /\ \A i \in DOMAIN order : order[i] \in Events
      /\ \A i \in DOMAIN handled : handled[i] \in Events
  BY DEF Typed
<1> QED
  BY <1>1 DEF Typed, TypeOK, Items

-----------------------------------------------------------------------------
(* Where events are. *)

Handled(e) == \E k \in DOMAIN handled : handled[k] = e
Held(e) == \E w \in Loops : at[w] = "handle" /\ got[w] = e
Queued(e) == \E k \in DOMAIN queue : queue[k] = e

\* An event whose publish() has put it is somewhere, no other is anywhere, ...
PutIsSomewhere ==
  \A e \in Events : publisher[e] = "done" <=> Handled(e) \/ Held(e) \/ Queued(e)

\* ... and no event is in two places.
OnePlace ==
  /\ \A k, l \in DOMAIN handled : handled[k] = handled[l] => k = l
  /\ \A k, l \in DOMAIN queue : queue[k] = queue[l] /\ queue[k] # Sentinel => k = l
  /\ \A v, w \in Loops : at[v] = "handle" /\ at[w] = "handle" /\ got[v] = got[w] => v = w
  /\ \A e \in Events : ~(Handled(e) /\ Held(e)) /\ ~(Handled(e) /\ Queued(e))
                       /\ ~(Held(e) /\ Queued(e))

\* Every event put was put once.
PutOnce ==
  /\ \A i, j \in DOMAIN order : order[i] = order[j] => i = j
  /\ \A e \in Events : publisher[e] = "done" <=> \E i \in DOMAIN order : order[i] = e

Placed == PutIsSomewhere /\ OnePlace /\ PutOnce

LEMMA AppendIs ==
  ASSUME NEW S, NEW s \in Seq(S), NEW x \in S
  PROVE  /\ DOMAIN s = 1..Len(s) /\ Len(s) \in Nat /\ DOMAIN Append(s, x) = 1..Len(s) + 1
         /\ Len(Append(s, x)) = Len(s) + 1
         /\ Append(s, x)[Len(s) + 1] = x /\ \A k \in DOMAIN s : Append(s, x)[k] = s[k]
OBVIOUS

LEMMA TailIs ==
  ASSUME NEW S, NEW s \in Seq(S), s # <<>>
  PROVE  /\ DOMAIN s = 1..Len(s) /\ Len(s) \in Nat \ {0} /\ Head(s) = s[1]
         /\ DOMAIN Tail(s) = 1..Len(s) - 1 /\ \A k \in DOMAIN Tail(s) : Tail(s)[k] = s[k + 1]
<1>1. Len(s) \in Nat \ {0} /\ DOMAIN s = 1..Len(s)
  BY EmptySeq
<1>2. Tail(s) \in Seq(S) /\ Len(Tail(s)) = Len(s) - 1
      /\ \A k \in 1..Len(Tail(s)) : Tail(s)[k] = s[k + 1]
  BY HeadTailProperties
<1>3. DOMAIN Tail(s) = 1..Len(s) - 1
  BY <1>2
<1> QED
  BY <1>1, <1>2, <1>3

\* Places do not change when the queue and what has been handled stay, and hands too.
LEMMA PlacesStay ==
  ASSUME Placed, UNCHANGED <<queue, handled, order>>,
         \A w \in Loops : at'[w] = "handle" <=> at[w] = "handle",
         \A w \in Loops : at[w] = "handle" => got'[w] = got[w],
         \A e \in Events : publisher'[e] = "done" <=> publisher[e] = "done"
  PROVE  Placed'
<1>1. \A e : (Handled(e)' <=> Handled(e)) /\ (Held(e)' <=> Held(e)) /\ (Queued(e)' <=> Queued(e))
  BY DEF Handled, Held, Queued
<1> QED
  BY <1>1 DEF Placed, PutIsSomewhere, OnePlace, PutOnce

LEMMA PutPlaces ==
  ASSUME Typed, Placed, NEW e \in Events, Put(e)
  PROVE  Placed'
<1>1. /\ publisher[e] = "put" /\ publisher'[e] = "done"
      /\ \A f \in Events \ {e} : publisher'[f] = publisher[f]
      /\ UNCHANGED <<at, got, handled>>
      /\ queue' = Append(queue, e) /\ order' = Append(order, e)
  BY DEF Put, Publisher, Typed, loop
<1>2. /\ DOMAIN queue = 1..Len(queue) /\ Len(queue) \in Nat /\ DOMAIN queue' = 1..Len(queue) + 1
      /\ queue'[Len(queue) + 1] = e /\ \A k \in DOMAIN queue : queue'[k] = queue[k]
  BY <1>1, AppendIs DEF Typed, Items
<1>3. /\ DOMAIN order = 1..Len(order) /\ Len(order) \in Nat /\ DOMAIN order' = 1..Len(order) + 1
      /\ order'[Len(order) + 1] = e /\ \A k \in DOMAIN order : order'[k] = order[k]
  BY <1>1, AppendIs DEF Typed
<1>4. ~Handled(e) /\ ~Held(e) /\ ~Queued(e) /\ ~\E i \in DOMAIN order : order[i] = e
  BY <1>1 DEF Placed, PutIsSomewhere, PutOnce
<1>5. /\ \A f : (Handled(f)' <=> Handled(f)) /\ (Held(f)' <=> Held(f))
      /\ \A f : Queued(f)' <=> Queued(f) \/ f = e
  BY <1>1, <1>2 DEF Handled, Held, Queued
<1>6. PutIsSomewhere'
  BY <1>1, <1>5 DEF Placed, PutIsSomewhere
<1>7. \A k, l \in DOMAIN queue' : queue'[k] = queue'[l] /\ queue'[k] # Sentinel => k = l
  BY <1>2, <1>4 DEF Placed, OnePlace, Queued
<1>8. OnePlace'
  BY <1>1, <1>4, <1>5, <1>7 DEF Placed, OnePlace
<1>9. \A i, j \in DOMAIN order' : order'[i] = order'[j] => i = j
  BY <1>3, <1>4 DEF Placed, PutOnce
<1>10. \A f \in Events : publisher'[f] = "done" <=> \E i \in DOMAIN order' : order'[i] = f
  BY <1>1, <1>3 DEF Placed, PutOnce
<1> QED
  BY <1>6, <1>8, <1>9, <1>10 DEF Placed, PutOnce

LEMMA GetDoes ==
  ASSUME Typed, NEW w \in Loops, Get(w)
  PROVE  /\ at[w] = "get" /\ queue # <<>> /\ got'[w] = queue[1] /\ 1 \in DOMAIN queue
         /\ at'[w] = IF queue[1] = Sentinel THEN "release" ELSE "handle"
         /\ \A v \in Loops \ {w} : at'[v] = at[v] /\ got'[v] = got[v]
         /\ DOMAIN queue = 1..Len(queue) /\ Len(queue) \in Nat
         /\ DOMAIN queue' = 1..Len(queue) - 1
         /\ \A k \in DOMAIN queue' : k + 1 \in DOMAIN queue /\ queue'[k] = queue[k + 1]
         /\ \A k \in DOMAIN queue : k # 1 => k - 1 \in DOMAIN queue' /\ queue'[k - 1] = queue[k]
         /\ UNCHANGED <<status, thread, pending, publisher, waiter, order, handled, abandoned, stops>>
<1>1. /\ at[w] = "get" /\ queue # <<>> /\ got' = [got EXCEPT ![w] = Head(queue)]
      /\ at' = [at EXCEPT ![w] = IF Head(queue) = Sentinel THEN "release" ELSE "handle"]
      /\ queue' = Tail(queue)
      /\ UNCHANGED <<status, thread, pending, publisher, waiter, order, handled, abandoned, stops>>
  BY DEF Get, control, history
<1>2. /\ DOMAIN queue = 1..Len(queue) /\ Len(queue) \in Nat \ {0} /\ Head(queue) = queue[1]
      /\ DOMAIN queue' = 1..Len(queue) - 1 /\ \A k \in DOMAIN queue' : queue'[k] = queue[k + 1]
  BY <1>1, TailIs DEF Typed
<1>3. \A k \in DOMAIN queue : k # 1 => k - 1 \in DOMAIN queue' /\ queue'[k - 1] = queue[k]
  <2> SUFFICES ASSUME NEW k \in DOMAIN queue, k # 1
               PROVE  k - 1 \in DOMAIN queue' /\ queue'[k - 1] = queue[k]
    OBVIOUS
  <2>1. k - 1 \in DOMAIN queue' /\ (k - 1) + 1 = k
    BY <1>2
  <2> QED
    BY <1>2, <2>1
<1> QED
  BY <1>1, <1>2, <1>3 DEF Typed

LEMMA GetPlaces ==
  ASSUME Typed, Placed, NEW w \in Loops, Get(w)
  PROVE  Placed'
<1>1. PICK x : x = queue[1]
  OBVIOUS
<1>2. \A f : Handled(f)' <=> Handled(f)
  BY GetDoes DEF Handled
<1>3. /\ x # Sentinel => ~Held(x) /\ ~Handled(x) /\ x \in Events
      /\ x # Sentinel => \A k \in DOMAIN queue : queue[k] = x => k = 1
  BY <1>1, GetDoes DEF Placed, OnePlace, Queued, Typed, Items
<1>4. \A f \in Events : Queued(f)' <=> Queued(f) /\ f # x
  BY <1>1, <1>3, GetDoes, NamesDiffer DEF Queued
<1>5. \A f \in Events : Held(f)' <=> Held(f) \/ f = x
  <2> SUFFICES ASSUME NEW f \in Events PROVE Held(f)' <=> Held(f) \/ f = x
    OBVIOUS
  <2>1. /\ at[w] = "get" /\ got'[w] = x /\ at'[w] = IF x = Sentinel THEN "release" ELSE "handle"
        /\ \A v \in Loops \ {w} : at'[v] = at[v] /\ got'[v] = got[v]
    BY <1>1, GetDoes
  <2>2. f # Sentinel
    BY NamesDiffer
  <2> QED
    BY <2>1, <2>2 DEF Held
<1>6. x \in Events => Queued(x)
  BY <1>1, GetDoes DEF Queued
<1>7. PutIsSomewhere'
  BY <1>2, <1>4, <1>5, <1>6, GetDoes DEF Placed, PutIsSomewhere
<1>8. \A k, l \in DOMAIN queue' : queue'[k] = queue'[l] /\ queue'[k] # Sentinel => k = l
  <2> SUFFICES ASSUME NEW k \in DOMAIN queue', NEW l \in DOMAIN queue',
                      queue'[k] = queue'[l], queue'[k] # Sentinel
               PROVE  k = l
    OBVIOUS
  <2>1. k + 1 = l + 1
    BY GetDoes DEF Placed, OnePlace
  <2> QED
    BY <2>1, GetDoes
<1>9. \A u, v \in Loops : at'[u] = "handle" /\ at'[v] = "handle" /\ got'[u] = got'[v] => u = v
  BY <1>1, <1>3, GetDoes DEF Placed, OnePlace, Held
<1>10. OnePlace'
  BY <1>2, <1>3, <1>4, <1>5, <1>6, <1>8, <1>9, GetDoes DEF Placed, OnePlace
<1> QED
  BY <1>7, <1>10, GetDoes DEF Placed, PutOnce

LEMMA HandleDoes ==
  ASSUME Typed, NEW w \in Loops, Handle(w)
  PROVE  /\ at[w] = "handle" /\ at'[w] = "release" /\ got[w] \in Events
         /\ \A v \in Loops \ {w} : at'[v] = at[v]
         /\ DOMAIN handled = 1..Len(handled) /\ Len(handled) \in Nat
         /\ DOMAIN handled' = 1..Len(handled) + 1 /\ Len(handled') = Len(handled) + 1
         /\ handled'[Len(handled) + 1] = got[w]
         /\ \A k \in DOMAIN handled : handled'[k] = handled[k]
         /\ UNCHANGED <<status, thread, queue, pending, publisher, got, waiter, order, abandoned, stops>>
<1>1. /\ at[w] = "handle" /\ handled' = Append(handled, got[w]) /\ at' = [at EXCEPT ![w] = "release"]
      /\ UNCHANGED <<status, thread, queue, pending, publisher, got, waiter, order, abandoned, stops>>
  BY DEF Handle, control
<1>2. got[w] \in Events
  BY <1>1 DEF Typed
<1>3. /\ DOMAIN handled = 1..Len(handled) /\ Len(handled) \in Nat
      /\ DOMAIN handled' = 1..Len(handled) + 1 /\ Len(handled') = Len(handled) + 1
      /\ handled'[Len(handled) + 1] = got[w]
      /\ \A k \in DOMAIN handled : handled'[k] = handled[k]
  BY <1>1, <1>2, AppendIs DEF Typed
<1> QED
  BY <1>1, <1>2, <1>3 DEF Typed

LEMMA HandlePlaces ==
  ASSUME Typed, Placed, NEW w \in Loops, Handle(w)
  PROVE  Placed'
<1>1. PICK x : x = got[w]
  OBVIOUS
<1>2. x \in Events /\ Held(x) /\ ~Handled(x) /\ ~Queued(x)
  BY <1>1, HandleDoes DEF Placed, OnePlace, Held
<1>3. \A f : Handled(f)' <=> Handled(f) \/ f = x
  BY <1>1, HandleDoes DEF Handled
<1>4. \A f : Queued(f)' <=> Queued(f)
  BY HandleDoes DEF Queued
<1>5. \A f : Held(f)' <=> Held(f) /\ f # x
  BY <1>1, HandleDoes DEF Placed, OnePlace, Held
<1>6. PutIsSomewhere'
  BY <1>2, <1>3, <1>4, <1>5, HandleDoes DEF Placed, PutIsSomewhere
<1>7. \A k, l \in DOMAIN handled' : handled'[k] = handled'[l] => k = l
  BY <1>1, <1>2, HandleDoes DEF Placed, OnePlace, Handled
<1>8. \A u, v \in Loops : at'[u] = "handle" /\ at'[v] = "handle" /\ got'[u] = got'[v] => u = v
  BY HandleDoes DEF Placed, OnePlace
<1>9. OnePlace'
  BY <1>2, <1>3, <1>4, <1>5, <1>7, <1>8, HandleDoes DEF Placed, OnePlace
<1> QED
  BY <1>6, <1>9, HandleDoes DEF Placed, PutOnce

LEMMA StopPlaces ==
  ASSUME Typed, Placed, Stop
  PROVE  Placed'
<1>1. /\ queue' = Append(queue, Sentinel) /\ UNCHANGED <<at, got, handled, order, publisher>>
  BY DEF Stop, loop, history
<1>2. /\ DOMAIN queue = 1..Len(queue) /\ Len(queue) \in Nat /\ DOMAIN queue' = 1..Len(queue) + 1
      /\ queue'[Len(queue) + 1] = Sentinel /\ \A k \in DOMAIN queue : queue'[k] = queue[k]
  BY <1>1, AppendIs DEF Typed, Items
<1>3. \A f \in Events : (Handled(f)' <=> Handled(f)) /\ (Held(f)' <=> Held(f))
                        /\ (Queued(f)' <=> Queued(f))
  BY <1>1, <1>2, NamesDiffer DEF Handled, Held, Queued
<1>4. \A k, l \in DOMAIN queue' : queue'[k] = queue'[l] /\ queue'[k] # Sentinel => k = l
  BY <1>2 DEF Placed, OnePlace
<1> QED
  BY <1>1, <1>3, <1>4 DEF Placed, PutIsSomewhere, OnePlace, PutOnce

LEMMA PlacedInit == Init => Placed
BY DEF Init, Placed, PutIsSomewhere, OnePlace, PutOnce, Handled, Held, Queued

LEMMA PlacedStep == Typed /\ Placed /\ [Next]_vars => Placed'
<1> SUFFICES ASSUME Typed, Placed, [Next]_vars PROVE Placed'
  OBVIOUS
<1>1. ASSUME NEW e \in Events, BeginPublish(e) \/ Count(e) PROVE Placed'
  <2>1. UNCHANGED <<queue, handled, order, at, got>>
    BY <1>1 DEF BeginPublish, Count, loop, history
  <2>2. \A f \in Events : publisher'[f] = "done" <=> publisher[f] = "done"
    BY <1>1 DEF BeginPublish, Count, Publisher, Typed
  <2> QED
    BY <2>1, <2>2, PlacesStay
<1>2. ASSUME NEW w \in Loops, Release(w) \/ Start(w) PROVE Placed'
  <2>1. UNCHANGED <<queue, handled, order, publisher>>
    BY <1>2 DEF Release, Start, history
  <2>2. /\ at[w] # "handle" /\ at'[w] # "handle"
        /\ \A v \in Loops \ {w} : at'[v] = at[v] /\ got'[v] = got[v]
    BY <1>2 DEF Release, Start, Typed
  <2> QED
    BY <2>1, <2>2, PlacesStay
<1>3. CASE Joined \/ Wait \/ EvaluateIdle \/ WaitTimesOut \/ UNCHANGED vars
  <2>1. UNCHANGED <<queue, handled, order, publisher, at, got>>
    BY <1>3 DEF Joined, Wait, EvaluateIdle, WaitTimesOut, vars, loop, history
  <2> QED
    BY <2>1, PlacesStay
<1> QED
  BY <1>1, <1>2, <1>3, PutPlaces, GetPlaces, HandlePlaces, StopPlaces DEF Next, LoopStep

LEMMA PlacedInvariant == Spec => [](Typed /\ Placed)
BY TypedInit, TypedStep, PlacedInit, PlacedStep, PTL DEF Spec

LEMMA PlacedOnce == Typed /\ Placed => HandledOnce
<1> SUFFICES ASSUME Typed, Placed, NEW i \in DOMAIN order PROVE Cardinality(Places(order[i])) = 1
  BY DEF HandledOnce
<1>1. PICK e \in Events : e = order[i]
  BY DEF Typed
<1>2. Handled(e) \/ Held(e) \/ Queued(e)
  BY <1>1 DEF Placed, PutIsSomewhere, PutOnce
<1>3. e # Sentinel
  BY NamesDiffer
<1>4. \E p : Places(e) = {p}
  <2>1. CASE Handled(e)
    <3>1. PICK k \in DOMAIN handled : handled[k] = e
      BY <2>1 DEF Handled
    <3>2. Places(e) = {<<"handled", k>>}
      BY <2>1, <3>1 DEF Placed, OnePlace, Handled, Held, Queued, Places, InHand
    <3> QED
      BY <3>2
  <2>2. CASE Held(e)
    <3>1. PICK w \in Loops : at[w] = "handle" /\ got[w] = e
      BY <2>2 DEF Held
    <3>2. Places(e) = {<<"hand", w>>}
      BY <2>2, <3>1 DEF Placed, OnePlace, Handled, Held, Queued, Places, InHand
    <3> QED
      BY <3>2
  <2>3. CASE Queued(e)
    <3>1. PICK k \in DOMAIN queue : queue[k] = e
      BY <2>3 DEF Queued
    <3>2. Places(e) = {<<"queue", k>>}
      BY <1>3, <2>3, <3>1 DEF Placed, OnePlace, Handled, Held, Queued, Places, InHand
    <3> QED
      BY <3>2
  <2> QED
    BY <1>2, <2>1, <2>2, <2>3
<1> QED
  BY <1>1, <1>4, FS_Singleton

-----------------------------------------------------------------------------
(* The order. *)

\* Until stop() gives up, the thread it waits for is the only one.
OneThread ==
  ~abandoned => \A w \in Loops : at[w] # "off" => status # "stopped" /\ w = thread

HandledFirst ==
  /\ Len(handled) <= Len(order)
  /\ \A k \in DOMAIN handled : handled[k] = order[k]

HeldNext ==
  \A w \in Loops : at[w] = "handle" =>
    Len(handled) + 1 <= Len(order) /\ got[w] = order[Len(handled) + 1]

QueuedInOrder ==
  \A k, l \in DOMAIN queue : k < l /\ queue[k] # Sentinel /\ queue[l] # Sentinel =>
    \E i, j \in DOMAIN order : i < j /\ order[i] = queue[k] /\ order[j] = queue[l]

InOrder == ~abandoned => HandledFirst /\ HeldNext /\ QueuedInOrder

LEMMA OneThreadStep == Typed /\ OneThread /\ [Next]_vars => OneThread'
<1> SUFFICES ASSUME Typed, OneThread, [Next]_vars, ~abandoned' PROVE OneThread'
  BY DEF OneThread
<1> USE DEF Typed, control, loop, history
<1>1. ASSUME NEW e \in Events, BeginPublish(e) \/ Count(e) \/ Put(e) PROVE OneThread'
  BY <1>1 DEF BeginPublish, Count, Put, OneThread
<1>2. ASSUME NEW w \in Loops, LoopStep(w) PROVE OneThread'
  BY <1>2 DEF LoopStep, Get, Handle, Release, OneThread
<1>3. ASSUME NEW w \in Loops, Start(w) PROVE OneThread'
  BY <1>3 DEF Start, OneThread
<1>4. CASE Joined
  BY <1>4 DEF Joined, OneThread
<1>5. CASE Stop \/ Wait \/ EvaluateIdle \/ WaitTimesOut \/ UNCHANGED vars
  BY <1>5 DEF Stop, Wait, EvaluateIdle, WaitTimesOut, vars, OneThread
<1> QED
  BY <1>1, <1>2, <1>3, <1>4, <1>5 DEF Next

LEMMA OrderIs ==
  Typed => /\ DOMAIN order = 1..Len(order) /\ Len(order) \in Nat
           /\ DOMAIN handled = 1..Len(handled) /\ Len(handled) \in Nat
           /\ DOMAIN queue = 1..Len(queue) /\ Len(queue) \in Nat
           /\ \A i \in DOMAIN order : order[i] \in Events
           /\ \A i \in DOMAIN queue : queue[i] \in Items
BY DEF Typed

LEMMA PutOrder ==
  ASSUME Typed, Placed, NEW e \in Events, Put(e), HandledFirst, HeldNext, QueuedInOrder
  PROVE  HandledFirst' /\ HeldNext' /\ QueuedInOrder'
<1>1. /\ UNCHANGED <<at, got, handled>> /\ queue' = Append(queue, e) /\ order' = Append(order, e)
  BY DEF Put, loop
<1>2. /\ DOMAIN queue = 1..Len(queue) /\ Len(queue) \in Nat /\ DOMAIN queue' = 1..Len(queue) + 1
      /\ queue'[Len(queue) + 1] = e /\ \A k \in DOMAIN queue : queue'[k] = queue[k]
  BY <1>1, AppendIs DEF Typed, Items
<1>3. /\ DOMAIN order = 1..Len(order) /\ Len(order) \in Nat /\ DOMAIN order' = 1..Len(order) + 1
      /\ Len(order') = Len(order) + 1
      /\ order'[Len(order) + 1] = e /\ \A k \in DOMAIN order : order'[k] = order[k]
  BY <1>1, AppendIs DEF Typed
<1>4. DOMAIN handled = 1..Len(handled) /\ Len(handled) \in Nat
  BY OrderIs
<1>5. HandledFirst'
  BY <1>1, <1>3, <1>4 DEF HandledFirst
<1>6. HeldNext'
  BY <1>1, <1>3, <1>4 DEF HeldNext
<1>7. ASSUME NEW k \in DOMAIN queue', NEW l \in DOMAIN queue', k < l,
             queue'[k] # Sentinel, queue'[l] # Sentinel
      PROVE  \E i, j \in DOMAIN order' : i < j /\ order'[i] = queue'[k] /\ order'[j] = queue'[l]
  <2>1. k \in DOMAIN queue /\ queue'[k] = queue[k]
    BY <1>2, <1>7
  <2>2. CASE l \in DOMAIN queue
    <3>1. PICK i \in DOMAIN order, j \in DOMAIN order :
            i < j /\ order[i] = queue[k] /\ order[j] = queue[l]
      BY <1>2, <1>7, <2>1, <2>2 DEF QueuedInOrder
    <3> QED
      BY <1>2, <1>3, <2>1, <2>2, <3>1
  <2>3. CASE l \notin DOMAIN queue
    <3>1. queue'[l] = e
      BY <1>2, <2>3
    <3>2. Queued(queue[k]) /\ queue[k] \in Events
      BY <1>7, <2>1, OrderIs DEF Queued, Items
    <3>3. PICK i \in DOMAIN order : order[i] = queue[k]
      BY <3>2 DEF Placed, PutIsSomewhere, PutOnce
    <3>4. i < Len(order) + 1 /\ i \in DOMAIN order' /\ Len(order) + 1 \in DOMAIN order'
      BY <1>3, <3>3
    <3> QED
      BY <1>3, <2>1, <3>1, <3>3, <3>4
  <2> QED
    BY <2>2, <2>3
<1> QED
  BY <1>5, <1>6, <1>7 DEF QueuedInOrder

LEMMA GetOrder ==
  ASSUME Typed, Placed, OneThread, ~abandoned, NEW w \in Loops, Get(w),
         HandledFirst, HeldNext, QueuedInOrder
  PROVE  HandledFirst' /\ HeldNext' /\ QueuedInOrder'
<1>1. HandledFirst'
  BY GetDoes DEF HandledFirst
<1>2. QueuedInOrder'
  <2> SUFFICES ASSUME NEW k \in DOMAIN queue', NEW l \in DOMAIN queue', k < l,
                      queue'[k] # Sentinel, queue'[l] # Sentinel
               PROVE  \E i, j \in DOMAIN order' :
                        i < j /\ order'[i] = queue'[k] /\ order'[j] = queue'[l]
    BY DEF QueuedInOrder
  <2>1. k + 1 \in DOMAIN queue /\ l + 1 \in DOMAIN queue /\ k + 1 < l + 1
        /\ queue'[k] = queue[k + 1] /\ queue'[l] = queue[l + 1] /\ order' = order
    BY GetDoes
  <2> QED
    BY <2>1 DEF QueuedInOrder
<1>3. \A v \in Loops : at[v] # "handle"
  BY GetDoes DEF OneThread
<1>4. HeldNext'
  <2>1. PICK x : x = queue[1]
    OBVIOUS
  <2>2. CASE x = Sentinel
    BY <1>3, <2>1, <2>2, GetDoes DEF HeldNext
  <2>3. CASE x # Sentinel
    <3>1. x \in Events /\ Queued(x)
      BY <2>1, <2>3, GetDoes, OrderIs DEF Items, Queued
    <3>2. PICK j \in DOMAIN order : order[j] = x
      BY <3>1 DEF Placed, PutIsSomewhere, PutOnce
    <3>3. /\ DOMAIN order = 1..Len(order) /\ Len(order) \in Nat
          /\ DOMAIN handled = 1..Len(handled) /\ Len(handled) \in Nat
      BY OrderIs
    <3>4. j > Len(handled)
      <4> SUFFICES ASSUME j <= Len(handled) PROVE FALSE
        BY <3>3
      <4>1. j \in DOMAIN handled /\ handled[j] = x
        BY <3>2, <3>3 DEF HandledFirst
      <4> QED
        BY <3>1, <4>1 DEF Placed, OnePlace, Handled
    <3>5. PICK n : n = Len(handled) + 1
      OBVIOUS
    <3>6. n \in DOMAIN order /\ n <= j
      BY <3>2, <3>3, <3>4, <3>5
    \* What comes next is in the queue, and the first in the queue comes before it.
    <3>7. j = n
      <4> SUFFICES ASSUME j # n PROVE FALSE
        OBVIOUS
      <4>1. PICK y : y = order[n]
        OBVIOUS
      <4>2. y \in Events /\ y # x
        BY <3>2, <3>6, <4>1, OrderIs DEF Placed, PutOnce
      <4>3. ~Handled(y)
        BY <3>3, <3>5, <3>6, <4>1 DEF HandledFirst, Placed, PutOnce, Handled
      <4>4. ~Held(y)
        BY <1>3 DEF Held
      <4>5. Queued(y)
        BY <3>6, <4>1, <4>2, <4>3, <4>4 DEF Placed, PutIsSomewhere, PutOnce
      <4>6. PICK k \in DOMAIN queue : queue[k] = y
        BY <4>5 DEF Queued
      <4>7. 1 < k /\ 1 \in DOMAIN queue /\ y # Sentinel
        BY <2>1, <4>2, <4>6, GetDoes, NamesDiffer
      <4>8. PICK a \in DOMAIN order, b \in DOMAIN order : a < b /\ order[a] = x /\ order[b] = y
        BY <2>1, <2>3, <4>6, <4>7 DEF QueuedInOrder
      <4>9. a = j /\ b = n
        BY <3>2, <3>6, <4>1, <4>8 DEF Placed, PutOnce
      <4> QED
        BY <3>3, <3>6, <4>8, <4>9
    <3>8. got'[w] = x /\ order' = order /\ handled' = handled
      BY <2>1, GetDoes
    <3>9. \A v \in Loops : at'[v] = "handle" => v = w
      BY <1>3, GetDoes
    <3> QED
      BY <3>2, <3>3, <3>5, <3>7, <3>8, <3>9 DEF HeldNext
  <2> QED
    BY <2>2, <2>3
<1> QED
  BY <1>1, <1>2, <1>4

LEMMA HandleOrder ==
  ASSUME Typed, Placed, OneThread, ~abandoned, NEW w \in Loops, Handle(w),
         HandledFirst, HeldNext, QueuedInOrder
  PROVE  HandledFirst' /\ HeldNext' /\ QueuedInOrder'
<1>1. got[w] = order[Len(handled) + 1] /\ Len(handled) + 1 <= Len(order)
  BY HandleDoes DEF HeldNext
<1>2. HandledFirst'
  BY <1>1, HandleDoes DEF HandledFirst
<1>3. \A v \in Loops : at'[v] # "handle"
  BY HandleDoes DEF OneThread
<1> QED
  BY <1>2, <1>3, HandleDoes DEF HeldNext, QueuedInOrder

LEMMA InOrderStep ==
  Typed /\ Placed /\ OneThread /\ InOrder /\ [Next]_vars => InOrder'
<1> SUFFICES ASSUME Typed, Placed, OneThread, InOrder, [Next]_vars, ~abandoned' PROVE InOrder'
  BY DEF InOrder
<1>1. ~abandoned
  BY DEF Next, vars, history, BeginPublish, Count, Put, LoopStep, Get, Handle, Release, Start,
         Stop, Joined, Wait, EvaluateIdle, WaitTimesOut, Typed
<1>2. HandledFirst /\ HeldNext /\ QueuedInOrder
  BY <1>1 DEF InOrder
<1>3. ASSUME UNCHANGED <<queue, handled, order>>,
             \A w \in Loops : at'[w] = "handle" => at[w] = "handle" /\ got'[w] = got[w]
      PROVE  InOrder'
  BY <1>2, <1>3 DEF InOrder, HandledFirst, HeldNext, QueuedInOrder
<1>4. ASSUME NEW e \in Events, BeginPublish(e) \/ Count(e) PROVE InOrder'
  BY <1>3, <1>4 DEF BeginPublish, Count, loop, history
<1>5. ASSUME NEW w \in Loops, Release(w) \/ Start(w) PROVE InOrder'
  BY <1>3, <1>5 DEF Release, Start, Typed, history
<1>6. CASE Joined \/ Wait \/ EvaluateIdle \/ WaitTimesOut \/ UNCHANGED vars
  BY <1>3, <1>6 DEF Joined, Wait, EvaluateIdle, WaitTimesOut, vars, loop, history
<1>7. CASE Stop
  <2>1. queue' = Append(queue, Sentinel) /\ UNCHANGED <<at, got, handled, order>>
    BY <1>7 DEF Stop, loop, history
  <2>2. /\ DOMAIN queue = 1..Len(queue) /\ Len(queue) \in Nat /\ DOMAIN queue' = 1..Len(queue) + 1
        /\ queue'[Len(queue) + 1] = Sentinel /\ \A k \in DOMAIN queue : queue'[k] = queue[k]
    BY <2>1, AppendIs DEF Typed, Items
  <2>3. QueuedInOrder'
    BY <1>2, <2>1, <2>2 DEF QueuedInOrder
  <2> QED
    BY <1>2, <2>1, <2>3 DEF InOrder, HandledFirst, HeldNext
<1> QED
  BY <1>1, <1>2, <1>4, <1>5, <1>6, <1>7, PutOrder, GetOrder, HandleOrder DEF InOrder, Next, LoopStep

\* Events are handled once, whenever stop() and start() are called and even when stop()
\* gives up on its thread and a second one runs; until then they are handled in the
\* order they were put (in_process_dispatcher.py:42-57, 112-126).
THEOREM EventsAreHandledOnce == Spec => []HandledOnceInOrder
<1>1. Init => OneThread /\ InOrder
  BY DEF Init, OneThread, InOrder, HandledFirst, HeldNext, QueuedInOrder
<1>2. Typed /\ Placed /\ OneThread /\ InOrder => HandledInOrder
  <2> SUFFICES ASSUME Typed, OneThread, ~abandoned, HandledFirst, HeldNext, QueuedInOrder
               PROVE  /\ Cardinality(InHand) <= 1
                      /\ IsPrefix(handled, order)
                      /\ \A w \in InHand : got[w] = order[Len(handled) + 1]
                      /\ \A k, l \in DOMAIN queue : k < l /\ Sentinel \notin {queue[k], queue[l]} =>
                           \E i, j \in DOMAIN order :
                             i < j /\ order[i] = queue[k] /\ order[j] = queue[l]
    BY DEF InOrder, HandledInOrder
  <2>1. Cardinality(InHand) <= 1
    <3>1. InHand \subseteq {thread}
      BY DEF InHand, OneThread
    <3>2. IsFiniteSet({thread}) /\ Cardinality({thread}) = 1
      BY FS_Singleton
    <3> QED
      BY <3>1, <3>2, FS_Subset
  <2>2. IsPrefix(handled, order)
    <3>1. /\ DOMAIN order = 1..Len(order) /\ Len(order) \in Nat
          /\ DOMAIN handled = 1..Len(handled) /\ Len(handled) \in Nat
          /\ Len(handled) <= Len(order)
      BY OrderIs DEF HandledFirst
    <3>2. SubSeq(handled, 1, Len(handled)) = SubSeq(order, 1, Len(handled))
      BY <3>1 DEF HandledFirst, Typed
    <3> QED
      BY <3>1, <3>2 DEF IsPrefix
  <2> QED
    BY <2>1, <2>2 DEF HeldNext, QueuedInOrder, InHand
<1>3. Typed /\ Placed /\ OneThread /\ InOrder => HandledOnceInOrder
  BY <1>2, PlacedOnce DEF HandledOnceInOrder
<1> QED
  BY <1>1, <1>3, PlacedInvariant, OneThreadStep, InOrderStep, PTL DEF Spec

-----------------------------------------------------------------------------
(* The counter. *)

\* Events that publish() has counted and the thread has not counted down.
Unfinished ==
  {e \in Events :
     \/ publisher[e] = "put" \/ Queued(e)
     \/ \E w \in Loops : at[w] \in {"handle", "release"} /\ got[w] = e}

\* An item a thread is done with has been handled, or is the sentinel.
ReleasedIsHandled ==
  \A w \in Loops : at[w] = "release" /\ got[w] # Sentinel => Handled(got[w])

\* A thread counts down at most what was counted, ...
CountedAtMost == pending <= Cardinality(Unfinished)

\* ... and until somebody calls stop() there is one thread, no sentinel, and the
\* counter is right.
Unstopped ==
  stops = 0 =>
    /\ status # "joining" /\ ~abandoned
    /\ \A k \in DOMAIN queue : queue[k] # Sentinel
    /\ \A w \in Loops : at[w] = "release" => got[w] # Sentinel
    /\ Cardinality(Unfinished) <= pending

LEMMA EventsFinite ==
  ASSUME NEW S \in SUBSET Events
  PROVE  IsFiniteSet(S) /\ Cardinality(S) \in Nat
BY EventsAssumption, FS_Subset, FS_CardinalityType

LEMMA UnfinishedFinite == IsFiniteSet(Unfinished) /\ Cardinality(Unfinished) \in Nat
BY EventsFinite DEF Unfinished

LEMMA ReleasedStep == Typed /\ ReleasedIsHandled /\ [Next]_vars => ReleasedIsHandled'
<1> SUFFICES ASSUME Typed, ReleasedIsHandled, [Next]_vars PROVE ReleasedIsHandled'
  OBVIOUS
<1>1. ASSUME UNCHANGED handled, \A w \in Loops : at'[w] = "release" => at[w] = "release" /\ got'[w] = got[w]
      PROVE  ReleasedIsHandled'
  BY <1>1 DEF ReleasedIsHandled, Handled
<1>2. ASSUME NEW e \in Events, BeginPublish(e) \/ Count(e) \/ Put(e) PROVE ReleasedIsHandled'
  BY <1>1, <1>2 DEF BeginPublish, Count, Put, loop, history
<1>3. ASSUME NEW w \in Loops, Get(w) PROVE ReleasedIsHandled'
  BY <1>3, GetDoes DEF ReleasedIsHandled, Handled
<1>4. ASSUME NEW w \in Loops, Handle(w) PROVE ReleasedIsHandled'
  <2>1. Handled(got[w])'
    BY <1>4, HandleDoes DEF Handled
  <2>2. \A e : Handled(e) => Handled(e)'
    BY <1>4, HandleDoes DEF Handled
  <2>3. got' = got /\ \A v \in Loops : at'[v] = "release" => v = w \/ at[v] = "release"
    BY <1>4, HandleDoes
  <2> QED
    BY <2>1, <2>2, <2>3 DEF ReleasedIsHandled
<1>5. ASSUME NEW w \in Loops, Release(w) \/ Start(w) PROVE ReleasedIsHandled'
  BY <1>1, <1>5 DEF Release, Start, Typed, history
<1>6. CASE Stop \/ Joined \/ Wait \/ EvaluateIdle \/ WaitTimesOut \/ UNCHANGED vars
  BY <1>1, <1>6 DEF Stop, Joined, Wait, EvaluateIdle, WaitTimesOut, vars, loop, history
<1> QED
  BY <1>2, <1>3, <1>4, <1>5, <1>6 DEF Next, LoopStep

\* What a step does to the events that are unfinished and to the counter.
LEMMA UnfinishedStep ==
  ASSUME Typed, Placed, ReleasedIsHandled, [Next]_vars
  PROVE  \/ Unfinished' = Unfinished /\ pending' = pending
         \/ \E e \in Events \ Unfinished : Unfinished' = Unfinished \cup {e} /\ pending' = pending + 1
         \/ /\ pending' = IF pending > 0 THEN pending - 1 ELSE 0
            /\ \E w \in Loops :
                 /\ at[w] = "release" /\ Unfinished \ {got[w]} \subseteq Unfinished'
                 /\ Unfinished' \subseteq Unfinished
                 /\ got[w] # Sentinel => got[w] \in Unfinished
                 /\ got[w] # Sentinel /\ OneThread /\ ~abandoned => Unfinished' = Unfinished \ {got[w]}
<1> DEFINE Goal == \/ Unfinished' = Unfinished /\ pending' = pending
                   \/ \E e \in Events \ Unfinished :
                        Unfinished' = Unfinished \cup {e} /\ pending' = pending + 1
<1>1. ASSUME UNCHANGED <<queue, pending>>,
             \A e \in Events : publisher'[e] = "put" <=> publisher[e] = "put",
             \A w \in Loops : at'[w] \in {"handle", "release"} <=> at[w] \in {"handle", "release"},
             \A w \in Loops : at[w] \in {"handle", "release"} => got'[w] = got[w]
      PROVE  Goal
  BY <1>1 DEF Unfinished, Queued
<1>2. ASSUME NEW e \in Events, BeginPublish(e) PROVE Goal
  BY <1>1, <1>2 DEF BeginPublish, Publisher, Typed, loop
<1>3. ASSUME NEW e \in Events, Count(e) PROVE Goal
  <2>1. /\ publisher[e] = "count" /\ publisher'[e] = "put" /\ UNCHANGED <<queue, at, got>>
        /\ \A f \in Events \ {e} : publisher'[f] = publisher[f]
        /\ pending' = pending + 1
    BY <1>3 DEF Count, Publisher, Typed, loop
  <2>2. ~Handled(e) /\ ~Held(e) /\ ~Queued(e)
    BY <2>1 DEF Placed, PutIsSomewhere
  <2>3. e \notin Unfinished
    BY <2>1, <2>2, NamesDiffer DEF Unfinished, Held, ReleasedIsHandled
  <2>4. Unfinished' = Unfinished \cup {e}
    BY <2>1 DEF Unfinished, Queued
  <2> QED
    BY <2>1, <2>3, <2>4
<1>4. ASSUME NEW e \in Events, Put(e) PROVE Goal
  <2>1. /\ publisher[e] = "put" /\ publisher'[e] = "done" /\ UNCHANGED <<at, got, pending>>
        /\ \A f \in Events \ {e} : publisher'[f] = publisher[f]
        /\ queue' = Append(queue, e)
    BY <1>4 DEF Put, Publisher, Typed, loop
  <2>2. /\ DOMAIN queue = 1..Len(queue) /\ Len(queue) \in Nat /\ DOMAIN queue' = 1..Len(queue) + 1
        /\ queue'[Len(queue) + 1] = e /\ \A k \in DOMAIN queue : queue'[k] = queue[k]
    BY <2>1, AppendIs DEF Typed, Items
  <2>3. \A f : Queued(f)' <=> Queued(f) \/ f = e
    BY <2>2 DEF Queued
  <2> QED
    BY <2>1, <2>3 DEF Unfinished
<1>5. ASSUME NEW w \in Loops, Get(w) PROVE Goal
  <2>1. PICK x : x = queue[1]
    OBVIOUS
  <2>2. /\ got'[w] = x /\ at[w] = "get" /\ at'[w] \in {"handle", "release"}
        /\ \A v \in Loops \ {w} : at'[v] = at[v] /\ got'[v] = got[v]
        /\ UNCHANGED <<pending, publisher>>
    BY <1>5, <2>1, GetDoes
  <2>3. Queued(x) /\ \A f : Queued(f)' \/ f = x <=> Queued(f)
    BY <1>5, <2>1, GetDoes DEF Queued
  <2>4. \A f \in Events : f \in Unfinished' <=> f \in Unfinished
    BY <2>2, <2>3 DEF Unfinished
  <2>5. Unfinished' = Unfinished
    BY <2>4 DEF Unfinished
  <2> QED
    BY <2>2, <2>5
<1>6. ASSUME NEW w \in Loops, Handle(w) PROVE Goal
  BY <1>1, <1>6, HandleDoes
<1>7. ASSUME NEW w \in Loops, Release(w)
      PROVE  /\ pending' = IF pending > 0 THEN pending - 1 ELSE 0
             /\ at[w] = "release" /\ Unfinished \ {got[w]} \subseteq Unfinished'
             /\ Unfinished' \subseteq Unfinished
             /\ got[w] # Sentinel => got[w] \in Unfinished
             /\ got[w] # Sentinel /\ OneThread /\ ~abandoned => Unfinished' = Unfinished \ {got[w]}
  <2>1. /\ pending' = IF pending > 0 THEN pending - 1 ELSE 0
        /\ at[w] = "release" /\ at'[w] \in {"off", "get"}
        /\ \A v \in Loops \ {w} : at'[v] = at[v] /\ got'[v] = got[v]
        /\ UNCHANGED <<queue, publisher>>
    BY <1>7 DEF Release, Typed
  <2>2. Unfinished \ {got[w]} \subseteq Unfinished' /\ Unfinished' \subseteq Unfinished
    BY <2>1 DEF Unfinished, Queued
  <2>3. got[w] # Sentinel => got[w] \in Unfinished
    BY <2>1 DEF Typed, Items, Unfinished
  <2>4. ASSUME got[w] # Sentinel, OneThread, ~abandoned PROVE Unfinished' = Unfinished \ {got[w]}
    <3>1. PICK x : x = got[w]
      OBVIOUS
    <3>2. x \in Events /\ Handled(x)
      BY <2>1, <2>4, <3>1 DEF Typed, Items, ReleasedIsHandled
    <3>3. ~Queued(x) /\ publisher[x] # "put"
      BY <3>2 DEF Placed, OnePlace, PutIsSomewhere
    <3>4. \A v \in Loops \ {w} : at[v] \notin {"handle", "release"}
      BY <2>1, <2>4 DEF OneThread
    <3>5. x \notin Unfinished'
      BY <2>1, <3>3, <3>4 DEF Unfinished, Queued
    <3> QED
      BY <2>2, <3>1, <3>5
  <2> QED
    BY <2>1, <2>2, <2>3, <2>4
<1>8. ASSUME NEW w \in Loops, Start(w) PROVE Goal
  BY <1>1, <1>8 DEF Start, Typed
<1>9. CASE Stop
  <2>1. queue' = Append(queue, Sentinel) /\ UNCHANGED <<at, got, publisher, pending>>
    BY <1>9 DEF Stop, loop, history
  <2>2. /\ DOMAIN queue = 1..Len(queue) /\ Len(queue) \in Nat /\ DOMAIN queue' = 1..Len(queue) + 1
        /\ queue'[Len(queue) + 1] = Sentinel /\ \A k \in DOMAIN queue : queue'[k] = queue[k]
    BY <2>1, AppendIs DEF Typed, Items
  <2>3. \A f \in Events : Queued(f)' <=> Queued(f)
    BY <2>2, NamesDiffer DEF Queued
  <2>4. Unfinished' = Unfinished
    BY <2>1, <2>3 DEF Unfinished
  <2> QED
    BY <2>1, <2>4
<1>10. CASE Joined \/ Wait \/ EvaluateIdle \/ WaitTimesOut \/ UNCHANGED vars
  BY <1>1, <1>10 DEF Joined, Wait, EvaluateIdle, WaitTimesOut, vars, loop
<1> QED
  BY <1>2, <1>3, <1>4, <1>5, <1>6, <1>7, <1>8, <1>9, <1>10 DEF Next, LoopStep

LEMMA CountedStep ==
  Typed /\ Placed /\ ReleasedIsHandled /\ CountedAtMost /\ [Next]_vars => CountedAtMost'
<1> SUFFICES ASSUME Typed, Placed, ReleasedIsHandled, CountedAtMost, [Next]_vars
             PROVE  CountedAtMost'
  OBVIOUS
<1>1. pending \in Nat /\ IsFiniteSet(Unfinished) /\ Cardinality(Unfinished) \in Nat
      /\ pending <= Cardinality(Unfinished)
  BY UnfinishedFinite DEF Typed, CountedAtMost
<1>2. IsFiniteSet(Unfinished') /\ Cardinality(Unfinished') \in Nat
  BY EventsFinite DEF Unfinished
<1>3. CASE Unfinished' = Unfinished /\ pending' = pending
  BY <1>1, <1>3 DEF CountedAtMost
<1>4. ASSUME NEW e \in Events \ Unfinished, Unfinished' = Unfinished \cup {e}, pending' = pending + 1
      PROVE  CountedAtMost'
  <2>1. Cardinality(Unfinished \cup {e}) = Cardinality(Unfinished) + 1
    BY <1>1, FS_AddElement
  <2> QED
    BY <1>1, <1>4, <2>1 DEF CountedAtMost
<1>5. ASSUME NEW w \in Loops, pending' = IF pending > 0 THEN pending - 1 ELSE 0,
             Unfinished \ {got[w]} \subseteq Unfinished'
      PROVE  CountedAtMost'
  <2>1. Cardinality(Unfinished \ {got[w]}) >= Cardinality(Unfinished) - 1
    <3>1. Cardinality(Unfinished \ {got[w]}) =
            IF got[w] \in Unfinished THEN Cardinality(Unfinished) - 1 ELSE Cardinality(Unfinished)
      BY <1>1, FS_RemoveElement, Zenon
    <3> QED
      BY <1>1, <3>1
  <2>2. Cardinality(Unfinished \ {got[w]}) <= Cardinality(Unfinished')
    BY <1>2, <1>5, FS_Subset
  <2>3. Cardinality(Unfinished \ {got[w]}) \in Nat
    BY <1>1, FS_RemoveElement, FS_CardinalityType
  <2> QED
    BY <1>1, <1>2, <1>5, <2>1, <2>2, <2>3 DEF CountedAtMost
<1> QED
  BY <1>3, <1>4, <1>5, UnfinishedStep

LEMMA UnstoppedStep ==
  Typed /\ Placed /\ ReleasedIsHandled /\ OneThread /\ Unstopped /\ [Next]_vars => Unstopped'
<1> SUFFICES ASSUME Typed, Placed, ReleasedIsHandled, OneThread, Unstopped, [Next]_vars, stops' = 0
             PROVE  Unstopped'
  BY DEF Unstopped
<1>1. stops = 0 /\ ~Stop
  BY DEF Next, vars, LoopStep, BeginPublish, Count, Put, Get, Handle, Release, Start, Stop, Joined,
         Wait, EvaluateIdle, WaitTimesOut, Typed
<1>2. /\ status # "joining" /\ ~abandoned
      /\ \A k \in DOMAIN queue : queue[k] # Sentinel
      /\ \A w \in Loops : at[w] = "release" => got[w] # Sentinel
      /\ Cardinality(Unfinished) <= pending
  BY <1>1 DEF Unstopped
<1>3. /\ status' # "joining" /\ ~abandoned'
      /\ \A k \in DOMAIN queue' : queue'[k] # Sentinel
      /\ \A w \in Loops : at'[w] = "release" => got'[w] # Sentinel
  <2> DEFINE Goal == /\ status' # "joining" /\ ~abandoned'
                     /\ \A k \in DOMAIN queue' : queue'[k] # Sentinel
                     /\ \A w \in Loops : at'[w] = "release" => got'[w] # Sentinel
  <2>1. ASSUME NEW e \in Events, BeginPublish(e) \/ Count(e) PROVE Goal
    BY <1>2, <2>1 DEF BeginPublish, Count, control, loop, history
  <2>2. ASSUME NEW e \in Events, Put(e) PROVE Goal
    <3>1. queue' = Append(queue, e) /\ UNCHANGED <<status, abandoned, at, got>>
      BY <2>2 DEF Put, control, loop
    <3>2. /\ DOMAIN queue = 1..Len(queue) /\ Len(queue) \in Nat /\ DOMAIN queue' = 1..Len(queue) + 1
          /\ queue'[Len(queue) + 1] = e /\ \A k \in DOMAIN queue : queue'[k] = queue[k]
      BY <3>1, AppendIs DEF Typed, Items
    <3>3. \A k \in DOMAIN queue' : queue'[k] # Sentinel
      BY <1>2, <3>2, NamesDiffer
    <3> QED
      BY <1>2, <3>1, <3>3
  <2>3. ASSUME NEW w \in Loops, Get(w) PROVE Goal
    BY <1>2, <2>3, GetDoes
  <2>4. ASSUME NEW w \in Loops, Handle(w) PROVE Goal
    BY <1>2, <2>4, HandleDoes, NamesDiffer
  <2>5. ASSUME NEW w \in Loops, Release(w) \/ Start(w) PROVE Goal
    BY <1>2, <2>5 DEF Release, Start, control, history, Typed
  <2>6. CASE Joined
    BY <1>2, <2>6 DEF Joined
  <2>7. CASE Wait \/ EvaluateIdle \/ WaitTimesOut \/ UNCHANGED vars
    BY <1>2, <2>7 DEF Wait, EvaluateIdle, WaitTimesOut, vars, control, loop, history
  <2> QED
    BY <1>1, <2>1, <2>2, <2>3, <2>4, <2>5, <2>6, <2>7 DEF Next, LoopStep
<1>4. pending \in Nat /\ IsFiniteSet(Unfinished) /\ Cardinality(Unfinished) \in Nat
  BY UnfinishedFinite DEF Typed
<1>5. Cardinality(Unfinished') <= pending'
  <2>1. CASE Unfinished' = Unfinished /\ pending' = pending
    BY <1>2, <2>1
  <2>2. ASSUME NEW e \in Events \ Unfinished, Unfinished' = Unfinished \cup {e}, pending' = pending + 1
        PROVE  Cardinality(Unfinished') <= pending'
    <3>1. Cardinality(Unfinished \cup {e}) = Cardinality(Unfinished) + 1
      BY <1>4, FS_AddElement
    <3> QED
      BY <1>2, <1>4, <2>2, <3>1
  <2>3. ASSUME NEW w \in Loops, pending' = IF pending > 0 THEN pending - 1 ELSE 0,
               got[w] \in Unfinished, Unfinished' = Unfinished \ {got[w]}
        PROVE  Cardinality(Unfinished') <= pending'
    <3>1. Cardinality(Unfinished \ {got[w]}) = Cardinality(Unfinished) - 1
      BY <1>4, <2>3, FS_RemoveElement
    <3>2. Cardinality(Unfinished) # 0
      BY <1>4, <2>3, FS_EmptySet
    <3> QED
      BY <1>2, <1>4, <2>3, <3>1, <3>2
  <2> QED
    BY <1>2, <2>1, <2>2, <2>3, UnfinishedStep
<1> QED
  BY <1>3, <1>5 DEF Unstopped

CountInv == Typed /\ Placed /\ ReleasedIsHandled /\ OneThread /\ CountedAtMost /\ Unstopped

LEMMA CountInvariant == Spec => []CountInv
<1>1. Init => CountInv
  <2> SUFFICES ASSUME Init PROVE CountInv
    OBVIOUS
  <2>1. Unfinished = {}
    BY DEF Init, Unfinished, Queued
  <2>2. Cardinality(Unfinished) = 0
    BY <2>1, FS_EmptySet
  <2>3. ReleasedIsHandled /\ OneThread /\ CountedAtMost /\ Unstopped
    BY <2>2 DEF Init, ReleasedIsHandled, OneThread, CountedAtMost, Unstopped
  <2> QED
    BY <2>3, TypedInit, PlacedInit DEF CountInv
<1>2. CountInv /\ [Next]_vars => CountInv'
  BY TypedStep, PlacedStep, ReleasedStep, OneThreadStep, CountedStep, UnstoppedStep DEF CountInv
<1> QED
  BY <1>1, <1>2, PTL DEF Spec

\* Types hold and, once the publishers have returned and nothing is left in the queue
\* or in hand, nothing is counted: the sentinels, which nobody counted, are counted
\* down as well, which does no harm (in_process_dispatcher.py:122-125).
THEOREM NothingStaysCounted == Spec => []NothingLeftNothingCounted
<1>1. CountInv => NothingLeftNothingCounted
  <2> SUFFICES ASSUME CountInv, \A e \in Events : publisher[e] \in {"idle", "done", "refused"},
                      queue = <<>>, \A w \in Loops : at[w] \in {"off", "get"}
               PROVE  pending = 0
    BY TypedIsTypeOK DEF CountInv, NothingLeftNothingCounted
  <2>1. Unfinished = {}
    BY DEF Unfinished, Queued
  <2>2. Cardinality(Unfinished) = 0
    BY <2>1, FS_EmptySet
  <2> QED
    BY <2>2 DEF CountInv, CountedAtMost, Typed
<1> QED
  BY <1>1, CountInvariant, PTL

\* Until somebody calls stop(), wait_until_idle answers True only when every event
\* whose publish() has returned was handled (in_process_dispatcher.py:101-110).
THEOREM IdleIsHandled == Spec => IdleMeansHandled
<1>1. CountInv /\ [Next]_vars =>
        (stops' = 0 /\ waiter # "idle" /\ waiter' = "idle" =>
           \A e \in Events : publisher[e] = "done" => \E i \in DOMAIN handled : handled[i] = e)
  <2> SUFFICES ASSUME CountInv, [Next]_vars, stops' = 0, waiter # "idle", waiter' = "idle",
                      NEW e \in Events, publisher[e] = "done"
               PROVE  Handled(e)
    BY DEF Handled
  <2>1. pending = 0 /\ stops = 0
    BY DEF Next, vars, LoopStep, BeginPublish, Count, Put, Get, Handle, Release, Notify, Start,
           Stop, Joined, Wait, EvaluateIdle, WaitTimesOut, control, loop, history
  <2>2. Unfinished = {}
    BY <2>1, UnfinishedFinite, FS_EmptySet DEF CountInv, Unstopped
  <2> QED
    BY <2>2 DEF CountInv, Placed, PutIsSomewhere, Held, Unfinished
<1> QED
  BY <1>1, CountInvariant, PTL DEF Spec, IdleMeansHandled
=============================================================================
