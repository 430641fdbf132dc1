------------------------- MODULE OutboxWorkerProofs -------------------------
(***************************************************************************)
(* Theorems about OutboxWorker, for every set of events, number of         *)
(* handlers, retry limit and set of loop threads.                          *)
(*                                                                         *)
(* The inductive invariant is built in layers: the types together with     *)
(* "the loop variable is an entry of the batch", what has been handed to   *)
(* the handlers, what _pending counts and which events are in hand, for    *)
(* any number of loops; then, while only one loop is active, what the      *)
(* entries of its batch look like in the table.                            *)
(***************************************************************************)
EXTENDS OutboxWorker, FiniteSetTheorems, TLAPS

USE EventsAssumption, HandlerCountAssumption, MaxRetryAssumption, LoopsAssumption

-----------------------------------------------------------------------------
(* Types. *)

\* Between two repository calls for an entry, the loop variable is that entry.
CurrentInBatch ==
  \A w \in Loops : pc[w] \in AtEntry => cur[w] \in todo[w] /\ step[w] >= 1

Typed == TypeOK /\ CurrentInBatch

\* The worker starts with every variable of its type.
LEMMA TypeInit == Init => Typed
  BY DEF Init, Typed, TypeOK, Places, CurrentInBatch, AtEntry, InBatch

\* The loop variable and the batch keep their types when the loop moves on.
LEMMA NextEntryType ==
  ASSUME Typed, NEW w \in Loops, NEW left \in SUBSET Events, NextEntry(w, left)
  PROVE  /\ CurrentInBatch'
         /\ todo' \in [Loops -> SUBSET Events]
         /\ cur' \in [Loops -> Events \cup {0}]
         /\ step' \in [Loops -> Nat]
         /\ pc' \in [Loops -> Places]
  BY DEF Typed, TypeOK, NextEntry, GoTo, Places, CurrentInBatch, AtEntry, InBatch

\* A loop that works on an entry has an event of its batch in hand.
LEMMA CurrentIsEvent ==
  ASSUME Typed, NEW w \in Loops, pc[w] \in AtEntry
  PROVE  cur[w] \in todo[w] /\ cur[w] \in Events /\ step[w] \in Nat /\ step[w] >= 1
  BY DEF Typed, TypeOK, CurrentInBatch

\* increment_retry keeps the retry counts natural numbers.
LEMMA Increment ==
  ASSUME NEW f \in [Events -> Nat], NEW e \in Events
  PROVE  [f EXCEPT ![e] = @ + 1] \in [Events -> Nat]
  OBVIOUS

\* Every step of Next keeps the types.
LEMMA TypeStep == Typed /\ [Next]_vars => Typed'
<1> SUFFICES ASSUME Typed, [Next]_vars PROVE Typed'
  OBVIOUS
<1> USE DEF Typed, CurrentInBatch, AtEntry, InBatch, rows, worker, locals, bounds, GoTo
<1>1. ASSUME NEW e \in Events, Save(e) PROVE Typed'
  BY <1>1 DEF Save, TypeOK, Notify
<1>2. ASSUME NEW S \in SUBSET Events, Requeue(S) PROVE Typed'
  BY <1>2 DEF Requeue, TypeOK, Notify
<1>3. ASSUME NEW w \in Loops, LoopStep(w) PROVE Typed'
  <2>1. CASE Fetch(w)
    BY <2>1 DEF Fetch, TypeOK, Places, Eligible, Unsettled
  <2>2. CASE Enter(w)
    <3>1. todo[w] \in SUBSET Events /\ Cardinality(todo[w]) \in Nat
      BY FS_Subset, FS_CardinalityType DEF TypeOK
    <3> QED
      BY <2>2, <3>1, NextEntryType DEF Enter, TypeOK
  <2>3. CASE Handle(w)
    <3>1. cur[w] \in Events /\ step[w] \in Handlers
      BY <2>3, CurrentIsEvent DEF Handle, Handlers
    <3>2. ran' \in [Events -> SUBSET Handlers]
      BY <2>3, <3>1 DEF Handle, TypeOK
    <3>3. step' \in [Loops -> Nat] /\ CurrentInBatch'
      BY <2>3, <3>1 DEF Handle, TypeOK
    <3> QED
      BY <2>3, <3>2, <3>3 DEF Handle, TypeOK
  <2>4. CASE HandlerRaises(w)
    BY <2>4 DEF HandlerRaises, TypeOK, Places
  <2>5. CASE MarkPublished(w)
    <3>1. cur[w] \in Events /\ todo[w] \ {cur[w]} \in SUBSET Events
      BY <2>5, CurrentIsEvent DEF MarkPublished, Dispatched, TypeOK
    <3> QED
      BY <2>5, <3>1, NextEntryType DEF MarkPublished, TypeOK
  <2>6. CASE IncrementRetry(w)
    <3>1. cur[w] \in Events
      BY <2>6, CurrentIsEvent DEF IncrementRetry
    <3>2. retries' \in [Events -> Nat]
      BY <2>6, <3>1, Increment DEF IncrementRetry, TypeOK
    <3>3. pc' \in [Loops -> Places] /\ CurrentInBatch'
      BY <2>6 DEF IncrementRetry, TypeOK, Places
    <3> QED
      BY <2>6, <3>2, <3>3 DEF IncrementRetry, TypeOK
  <2>7. CASE CheckRetry(w)
    <3>1. CASE retries[cur[w]] >= MaxRetry
      BY <2>7, <3>1 DEF CheckRetry, TypeOK, Places
    <3>2. CASE ~(retries[cur[w]] >= MaxRetry)
      BY <2>7, <3>2, NextEntryType DEF CheckRetry, TypeOK
    <3> QED
      BY <3>1, <3>2
  <2>8. CASE MarkFailed(w)
    <3>1. cur[w] \in Events /\ todo[w] \ {cur[w]} \in SUBSET Events
      BY <2>8, CurrentIsEvent DEF MarkFailed, TypeOK
    <3> QED
      BY <2>8, <3>1, NextEntryType DEF MarkFailed, TypeOK
  <2>9. CASE Finish(w)
    BY <2>9 DEF Finish, LeaveBatch, TypeOK, Places, Notify
  <2>10. CASE AfterBatch(w)
    BY <2>10 DEF AfterBatch, TypeOK, Places
  <2>11. CASE Awake(w)
    BY <2>11 DEF Awake, TypeOK, Places
  <2> QED
    BY <1>3, <2>1, <2>2, <2>3, <2>4, <2>5, <2>6, <2>7, <2>8, <2>9, <2>10, <2>11 DEF LoopStep
<1>4. ASSUME NEW w \in Loops, StoreFailure(w) PROVE Typed'
  <2>1. CASE FetchRaises(w)
    BY <2>1 DEF FetchRaises, RepositoryRaises, TypeOK, Places
  <2>2. CASE MarkPublishedRaises(w)
    <3>1. cur[w] \in Events
      BY <2>2, CurrentIsEvent DEF MarkPublishedRaises, Dispatched
    <3> QED
      BY <2>2, <3>1 DEF MarkPublishedRaises, RepositoryRaises, Dispatched, TypeOK, Places
  <2>3. CASE RetryRaises(w)
    BY <2>3 DEF RetryRaises, RepositoryRaises, LeaveBatch, TypeOK, Places, Notify
  <2> QED
    BY <1>4, <2>1, <2>2, <2>3 DEF StoreFailure
<1>5. ASSUME NEW w \in Loops, Start(w) PROVE Typed'
  BY <1>5 DEF Start, TypeOK, Places
<1>6. CASE Stop
  BY <1>6 DEF Stop, TypeOK, Notify
<1>7. CASE Joined
  BY <1>7 DEF Joined, TypeOK
<1>8. CASE Wait \/ EvaluateIdle \/ WaitTimesOut
  BY <1>8 DEF Wait, EvaluateIdle, WaitTimesOut, TypeOK
<1>9. CASE Crash
  BY <1>9 DEF Crash, TypeOK, Places
<1>10. CASE UNCHANGED vars
  BY <1>10 DEF vars, TypeOK
<1> QED
  BY <1>1, <1>2, <1>3, <1>4, <1>5, <1>6, <1>7, <1>8, <1>9, <1>10 DEF Next

\* Every reachable state has the declared types.
THEOREM TypeCorrect == Spec => []TypeOK
  <1>1. Typed => TypeOK
  BY DEF Typed
<1> QED
  BY <1>1, TypeInit, TypeStep, PTL DEF Spec

-----------------------------------------------------------------------------
(* Delivery. *)

\* The handlers before the current step have run for the current entry.
HandledSoFar ==
  \A w \in Loops : pc[w] = "handle" => \A h \in Handlers : h < step[w] => h \in ran[cur[w]]

Delivered == HandledSoFar /\ PublishedWereHandled

\* At the start nothing is published and nothing handled.
LEMMA DeliveredInit == Init => Delivered
  BY DEF Init, Delivered, HandledSoFar, PublishedWereHandled

\* A dispatched entry has been through all its handlers.
LEMMA DispatchedHandled ==
  ASSUME Typed, Delivered, NEW w \in Loops, Dispatched(w)
  PROVE  cur[w] \in Events /\ ran[cur[w]] = Handlers
<1>1. cur[w] \in Events /\ step[w] \in Nat
  BY CurrentIsEvent DEF Dispatched, AtEntry, InBatch
<1>2. \A h \in Handlers : h < step[w]
  BY <1>1 DEF Dispatched, Handlers
<1>3. ran[cur[w]] \subseteq Handlers
  BY <1>1 DEF Typed, TypeOK
<1> QED
  BY <1>1, <1>2, <1>3 DEF Delivered, HandledSoFar, Dispatched

\* Moving on to the next entry starts with no handler run.
LEMMA NextEntryHandled ==
  ASSUME Typed, HandledSoFar, NEW w \in Loops, NEW left, NextEntry(w, left), UNCHANGED ran
  PROVE  HandledSoFar'
  BY DEF Typed, TypeOK, HandledSoFar, NextEntry, GoTo, Handlers

\* No step publishes an entry before its last handler has returned.
LEMMA DeliveredStep == Typed /\ Delivered /\ [Next]_vars => Delivered'
<1> SUFFICES ASSUME Typed, Delivered, [Next]_vars PROVE Delivered'
  OBVIOUS
<1> USE DEF Delivered, rows, worker, locals, bounds, GoTo
<1> TypeOK
  BY DEF Typed
<1>1. ASSUME NEW e \in Events, Save(e) PROVE Delivered'
  BY <1>1 DEF Save, HandledSoFar, PublishedWereHandled
<1>2. ASSUME NEW S \in SUBSET Events, Requeue(S) PROVE Delivered'
  BY <1>2 DEF Requeue, HandledSoFar, PublishedWereHandled
<1>3. ASSUME NEW w \in Loops, LoopStep(w) PROVE Delivered'
  <2>1. CASE Fetch(w)
    BY <2>1 DEF Fetch, HandledSoFar, PublishedWereHandled, TypeOK
  <2>2. CASE Enter(w)
    BY <2>2, NextEntryHandled DEF Enter, PublishedWereHandled
  <2>3. CASE Handle(w)
    <3>1. cur[w] \in Events /\ step[w] \in Handlers
      BY <2>3, CurrentIsEvent DEF Handle, Handlers, AtEntry, InBatch
    <3>2. \A e \in Events : ran[e] \subseteq ran'[e] /\ ran'[e] \subseteq Handlers
      BY <2>3, <3>1 DEF Handle, TypeOK
    <3>3. PublishedWereHandled'
      BY <2>3, <3>2 DEF Handle, PublishedWereHandled, TypeOK
    <3>4. ASSUME NEW v \in Loops, pc[v] = "handle", NEW h \in Handlers, h < step'[v]
          PROVE  h \in ran'[cur[v]]
      <4>1. cur[v] \in Events
        BY <3>4, CurrentIsEvent DEF AtEntry, InBatch
      <4>2. CASE h < step[v]
        BY <3>4, <4>1, <4>2, <3>2 DEF HandledSoFar
      <4>3. CASE ~(h < step[v])
        <5>1. v = w /\ h = step[w]
          BY <2>3, <3>1, <3>4, <4>3 DEF Handle, TypeOK, Handlers
        <5> QED
          BY <2>3, <5>1, <3>1 DEF Handle, TypeOK
      <4> QED
        BY <4>2, <4>3
    <3> QED
      BY <2>3, <3>3, <3>4 DEF Handle, HandledSoFar
  <2>4. CASE HandlerRaises(w)
    BY <2>4 DEF HandlerRaises, HandledSoFar, PublishedWereHandled, TypeOK
  <2>5. CASE MarkPublished(w)
    BY <2>5, DispatchedHandled, NextEntryHandled DEF MarkPublished, PublishedWereHandled
  <2>6. CASE IncrementRetry(w)
    BY <2>6 DEF IncrementRetry, HandledSoFar, PublishedWereHandled, TypeOK
  <2>7. CASE CheckRetry(w)
    <3>1. CASE retries[cur[w]] >= MaxRetry
      BY <2>7, <3>1 DEF CheckRetry, HandledSoFar, PublishedWereHandled, TypeOK
    <3>2. CASE ~(retries[cur[w]] >= MaxRetry)
      BY <2>7, <3>2, NextEntryHandled DEF CheckRetry, PublishedWereHandled
    <3> QED
      BY <3>1, <3>2
  <2>8. CASE MarkFailed(w)
    BY <2>8, NextEntryHandled DEF MarkFailed, PublishedWereHandled
  <2>9. CASE Finish(w)
    BY <2>9 DEF Finish, LeaveBatch, HandledSoFar, PublishedWereHandled, TypeOK
  <2>10. CASE AfterBatch(w)
    BY <2>10 DEF AfterBatch, HandledSoFar, PublishedWereHandled, TypeOK
  <2>11. CASE Awake(w)
    BY <2>11 DEF Awake, HandledSoFar, PublishedWereHandled, TypeOK
  <2> QED
    BY <1>3, <2>1, <2>2, <2>3, <2>4, <2>5, <2>6, <2>7, <2>8, <2>9, <2>10, <2>11 DEF LoopStep
<1>4. ASSUME NEW w \in Loops, StoreFailure(w) PROVE Delivered'
  <2>1. CASE FetchRaises(w)
    BY <2>1 DEF FetchRaises, HandledSoFar, PublishedWereHandled, TypeOK
  <2>2. CASE MarkPublishedRaises(w)
    BY <2>2, DispatchedHandled DEF MarkPublishedRaises, HandledSoFar, PublishedWereHandled, TypeOK
  <2>3. CASE RetryRaises(w)
    BY <2>3 DEF RetryRaises, LeaveBatch, HandledSoFar, PublishedWereHandled, TypeOK
  <2> QED
    BY <1>4, <2>1, <2>2, <2>3 DEF StoreFailure
<1>5. ASSUME NEW w \in Loops, Start(w) PROVE Delivered'
  BY <1>5 DEF Start, HandledSoFar, PublishedWereHandled, TypeOK
<1>6. CASE Stop \/ Joined \/ Wait \/ EvaluateIdle \/ WaitTimesOut
  BY <1>6 DEF Stop, Joined, Wait, EvaluateIdle, WaitTimesOut, HandledSoFar, PublishedWereHandled
<1>7. CASE Crash
  BY <1>7 DEF Crash, HandledSoFar, PublishedWereHandled
<1>8. CASE UNCHANGED vars
  BY <1>8 DEF vars, HandledSoFar, PublishedWereHandled
<1> QED
  BY <1>1, <1>2, <1>3, <1>4, <1>5, <1>6, <1>7, <1>8 DEF Next

\* With any number of loops, failures, crashes and requeues, an event recorded
\* as published has been through every handler.
THEOREM PublishedOnlyAfterHandlers == Spec => []PublishedWereHandled
<1>1. Delivered => PublishedWereHandled
  BY DEF Delivered
<1>2. Init => Typed /\ Delivered
  BY TypeInit, DeliveredInit
<1>3. Typed /\ Delivered /\ [Next]_vars => (Typed /\ Delivered)'
  BY TypeStep, DeliveredStep
<1> QED
  BY <1>1, <1>2, <1>3, PTL DEF Spec

-----------------------------------------------------------------------------
(* _pending and wait_until_idle. *)

\* A batch is never empty.
BatchNotEmpty ==
  \A w \in Loops :
    /\ pc[w] = "enter" => todo[w] # {}
    /\ pc[w] \in InBatch => taken[w] >= 1

Counting == IsFiniteSet(InProgress) /\ PendingCountsTheBatch /\ BatchNotEmpty

\* What is in progress, loop by loop.
ByLoop ==
  InProgress = {p \in Loops \X Nat : pc[p[1]] \in InBatch /\ p[2] \in 1..taken[p[1]]}

LEMMA InProgressIs == ByLoop
<1> USE DEF ByLoop
<1>1. ASSUME NEW p, p \in InProgress
      PROVE  p \in Loops \X Nat /\ pc[p[1]] \in InBatch /\ p[2] \in 1..taken[p[1]]
  <2>1. PICK w \in Loops : pc[w] \in InBatch /\ p \in {w} \X (1..taken[w])
    BY <1>1 DEF InProgress
  <2>2. p = <<w, p[2]>> /\ p[2] \in 1..taken[w] /\ p[2] \in Nat
    BY <2>1
  <2> QED
    BY <2>1, <2>2
<1>2. ASSUME NEW p \in Loops \X Nat, pc[p[1]] \in InBatch, p[2] \in 1..taken[p[1]]
      PROVE  p \in InProgress
  <2>1. p \in {p[1]} \X (1..taken[p[1]])
    BY <1>2
  <2> QED
    BY <1>2, <2>1 DEF InProgress
<1> QED
  BY <1>1, <1>2

LEMMA InProgressNext == ByLoop'
BY InProgressIs, PTL

\* A batch of n entries has n of them.
LEMMA EntriesOf ==
  ASSUME NEW w, NEW n \in Nat
  PROVE  IsFiniteSet({w} \X (1..n)) /\ Cardinality({w} \X (1..n)) = n
<1>1. IsFiniteSet(1..n) /\ Cardinality(1..n) = n
  BY FS_Interval
<1>2. IsFiniteSet({w}) /\ Cardinality({w}) = 1
  BY FS_Singleton
<1>3. /\ IsFiniteSet({w} \X (1..n))
      /\ Cardinality({w} \X (1..n)) = Cardinality({w}) * Cardinality(1..n)
  BY <1>1, <1>2, FS_Product
<1> QED
  BY <1>1, <1>2, <1>3

\* At the start there is no batch and _pending is 0.
LEMMA CountingInit == Init => Counting
<1> SUFFICES ASSUME Init PROVE Counting
  OBVIOUS
<1>1. InProgress = {}
  BY InProgressIs DEF ByLoop, Init, InBatch
<1> QED
  BY <1>1, FS_EmptySet DEF Init, Counting, PendingCountsTheBatch, BatchNotEmpty, InBatch

\* A step that opens and leaves no batch changes nothing.
LEMMA SameProgress ==
  ASSUME Counting, UNCHANGED <<pending, taken>>,
         \A v \in Loops : pc'[v] \in InBatch <=> pc[v] \in InBatch,
         \A v \in Loops : pc'[v] = "enter" => todo'[v] # {}
  PROVE  Counting'
<1>1. InProgress' = InProgress
  BY InProgressIs, InProgressNext DEF ByLoop
<1> QED
  BY <1>1 DEF Counting, PendingCountsTheBatch, BatchNotEmpty

\* A loop that enters its batch counts it on top of the others.
LEMMA CountingEnter ==
  ASSUME TypeOK, Counting, NEW w \in Loops, Enter(w)
  PROVE  Counting'
<1> DEFINE n == Cardinality(todo[w])
<1>1. todo[w] # {} /\ IsFiniteSet(todo[w])
  BY FS_Subset DEF Counting, BatchNotEmpty, Enter, TypeOK
<1>2. n \in Nat /\ n >= 1
  BY <1>1, FS_CardinalityType, FS_EmptySet
<1>3. pending' = pending + n /\ taken' = [taken EXCEPT ![w] = n]
  BY DEF Enter
<1>4. pc[w] = "enter" /\ pc'[w] \in InBatch /\ \A v \in Loops : v # w => pc'[v] = pc[v] /\ todo'[v] = todo[v]
  BY DEF Enter, NextEntry, GoTo, TypeOK, InBatch
<1>5. \A v \in Loops : taken'[v] = IF v = w THEN n ELSE taken[v]
  BY <1>3 DEF TypeOK
<1> HIDE DEF n
<1> DEFINE T == {w} \X (1..n)
<1>6. InProgress' = InProgress \cup T
  BY <1>2, <1>4, <1>5, InProgressIs, InProgressNext DEF ByLoop, InBatch
<1>7. InProgress \cap T = {}
  BY <1>4, InProgressIs DEF ByLoop, InBatch
<1>8. IsFiniteSet(T) /\ Cardinality(T) = n
  BY <1>2, EntriesOf
<1>9. IsFiniteSet(InProgress) /\ pending = Cardinality(InProgress) /\ pending \in Nat
  BY DEF Counting, PendingCountsTheBatch, TypeOK
<1> HIDE DEF T
<1>10. Cardinality({}) = 0
  BY FS_EmptySet
<1>11. /\ IsFiniteSet(InProgress \cup T)
       /\ Cardinality(InProgress \cup T)
            = Cardinality(InProgress) + Cardinality(T) - Cardinality(InProgress \cap T)
  BY <1>8, <1>9, FS_Union
<1>12. IsFiniteSet(InProgress') /\ pending' = Cardinality(InProgress')
  <2>1. Cardinality(InProgress \cap T) = 0
    BY <1>7, <1>10
  <2>2. Cardinality(InProgress \cup T) = pending + n
    BY <1>2, <1>8, <1>9, <1>11, <2>1
  <2> QED
    BY <1>3, <1>6, <1>11, <2>2
<1>13. BatchNotEmpty'
  BY <1>2, <1>4, <1>5 DEF Counting, BatchNotEmpty, InBatch
<1> QED
  BY <1>12, <1>13 DEF Counting, PendingCountsTheBatch

\* A loop that leaves its batch gives back all of it and nothing else.
LEMMA CountingLeave ==
  ASSUME TypeOK, Counting, NEW w \in Loops, NEW place \in {"loop", "dead"}, pc[w] \in InBatch,
         LeaveBatch(w, place), UNCHANGED <<todo, taken>>
  PROVE  Counting'
<1> DEFINE T == {w} \X (1..taken[w])
<1>1. pc'[w] \notin InBatch /\ pc'[w] # "enter" /\ \A v \in Loops : v # w => pc'[v] = pc[v]
  BY DEF LeaveBatch, GoTo, TypeOK, InBatch
<1>2. taken[w] \in Nat /\ taken' = taken
  BY DEF TypeOK
<1>3. InProgress' = InProgress \ T
  BY <1>1, <1>2, InProgressIs, InProgressNext DEF ByLoop
<1>4. T \subseteq InProgress
  BY <1>2, InProgressIs DEF ByLoop
<1>5. IsFiniteSet(T) /\ Cardinality(T) = taken[w]
  BY <1>2, EntriesOf
<1>6. IsFiniteSet(InProgress) /\ pending = Cardinality(InProgress) /\ pending \in Nat
  BY DEF Counting, PendingCountsTheBatch, TypeOK
<1> HIDE DEF T
<1>7. Cardinality(T) <= Cardinality(InProgress)
  BY <1>4, <1>6, FS_Subset
<1>8. InProgress \cap T = T
  BY <1>4
<1>9. /\ IsFiniteSet(InProgress \ T)
      /\ Cardinality(InProgress \ T) = Cardinality(InProgress) - Cardinality(InProgress \cap T)
  BY <1>6, FS_Difference
<1>10. pending' = pending - taken[w]
  BY <1>2, <1>5, <1>6, <1>7 DEF LeaveBatch
<1>11. IsFiniteSet(InProgress') /\ pending' = Cardinality(InProgress')
  BY <1>3, <1>5, <1>6, <1>8, <1>9, <1>10
<1>12. BatchNotEmpty'
  BY <1>1 DEF Counting, BatchNotEmpty, InBatch
<1> QED
  BY <1>11, <1>12 DEF Counting, PendingCountsTheBatch

\* Every step that opens or leaves a batch keeps _pending the size of all of them.
LEMMA CountingStep ==
  ASSUME Typed, Counting, [Next]_vars
  PROVE  Counting'
<1> USE DEF rows, worker, locals, bounds, GoTo
<1> TypeOK
  BY DEF Typed
<1> BatchNotEmpty
  BY DEF Counting
<1>1. ASSUME NEW w \in Loops, LoopStep(w) \/ StoreFailure(w) PROVE Counting'
  <2>1. CASE Fetch(w)
    <3>1. UNCHANGED <<pending, taken>>
      BY <2>1 DEF Fetch
    <3>2. \A v \in Loops : pc'[v] \in InBatch <=> pc[v] \in InBatch
      BY <2>1 DEF Fetch, InBatch, TypeOK
    <3>3. \A v \in Loops : pc'[v] = "enter" => todo'[v] # {}
      BY <2>1 DEF Fetch, InBatch, TypeOK, BatchNotEmpty
    <3> QED
      BY <3>1, <3>2, <3>3, SameProgress
  <2>2. CASE Enter(w)
    BY <2>2, CountingEnter
  <2>3. CASE \/ Handle(w) \/ HandlerRaises(w) \/ MarkPublished(w) \/ MarkPublishedRaises(w)
             \/ IncrementRetry(w) \/ CheckRetry(w) \/ MarkFailed(w)
    <3>1. UNCHANGED <<pending, taken>> /\ \A v \in Loops : v # w => pc'[v] = pc[v] /\ todo'[v] = todo[v]
      BY <2>3 DEF Handle, HandlerRaises, MarkPublished, MarkPublishedRaises, IncrementRetry,
                  CheckRetry, MarkFailed, Dispatched, NextEntry, TypeOK
    <3>2. pc[w] \in InBatch /\ pc'[w] \in InBatch
      BY <2>3 DEF Handle, HandlerRaises, MarkPublished, MarkPublishedRaises, IncrementRetry,
                  CheckRetry, MarkFailed, Dispatched, NextEntry, InBatch, TypeOK
    <3> QED
      BY <3>1, <3>2, SameProgress DEF BatchNotEmpty, InBatch
  <2>4. CASE Finish(w)
    BY <2>4, CountingLeave DEF Finish, InBatch
  <2>5. CASE RetryRaises(w)
    BY <2>5, CountingLeave DEF RetryRaises, InBatch
  <2>6. CASE AfterBatch(w) \/ Awake(w) \/ FetchRaises(w)
    <3>1. UNCHANGED <<pending, taken, todo>> /\ \A v \in Loops : v # w => pc'[v] = pc[v]
      BY <2>6 DEF AfterBatch, Awake, FetchRaises, TypeOK
    <3>2. pc[w] \notin InBatch /\ pc'[w] \in {"off", "dead", "fetch", "sleep"}
      BY <2>6 DEF AfterBatch, Awake, FetchRaises, InBatch, TypeOK
    <3> QED
      BY <3>1, <3>2, SameProgress DEF BatchNotEmpty, InBatch
  <2> QED
    BY <1>1, <2>1, <2>2, <2>3, <2>4, <2>5, <2>6 DEF LoopStep, StoreFailure
<1>2. ASSUME NEW w \in Loops, Start(w) PROVE Counting'
  <2>1. /\ UNCHANGED <<pending, taken, todo>>
        /\ pc[w] \in {"off", "dead"} /\ pc'[w] = "fetch"
        /\ \A v \in Loops : v # w => pc'[v] = pc[v]
    BY <1>2 DEF Start, TypeOK
  <2> QED
    BY <2>1, SameProgress DEF BatchNotEmpty, InBatch
<1>3. CASE (\E e \in Events : Save(e)) \/ (\E S \in SUBSET Events : Requeue(S))
  BY <1>3, SameProgress DEF Save, Requeue, BatchNotEmpty
<1>4. CASE Stop \/ Joined \/ Wait \/ EvaluateIdle \/ WaitTimesOut \/ UNCHANGED vars
  BY <1>4, SameProgress DEF Stop, Joined, Wait, EvaluateIdle, WaitTimesOut, vars, BatchNotEmpty
<1>5. CASE Crash
  <2>1. InProgress' = {}
    BY <1>5, InProgressNext DEF ByLoop, Crash, InBatch
  <2> QED
    BY <1>5, <2>1, FS_EmptySet DEF Crash, Counting, PendingCountsTheBatch, BatchNotEmpty, InBatch
<1> QED
  BY <1>1, <1>2, <1>3, <1>4, <1>5 DEF Next

\* _pending is the size of the batches in progress at all times, also after a failure
\* has ended a thread in the middle of its batch or stop() has given up on one.
THEOREM PendingIsExact == Spec => []PendingCountsTheBatch
<1>1. Counting => PendingCountsTheBatch
  BY DEF Counting
<1>2. Init => Typed /\ Counting
  BY TypeInit, CountingInit
<1>3. Typed /\ Counting /\ [Next]_vars => (Typed /\ Counting)'
  BY TypeStep, CountingStep
<1> QED
  BY <1>1, <1>2, <1>3, PTL DEF Spec

-----------------------------------------------------------------------------
(* No event is forgotten while the process lives and its store answers. *)

\* A call of the loop that raises is counted.
LEMMA FailureCounted ==
  ASSUME Typed, NEW w \in Loops, StoreFailure(w)
  PROVE  failures' # 0
  BY DEF StoreFailure, FetchRaises, MarkPublishedRaises, RetryRaises, RepositoryRaises, Typed, TypeOK

\* The count never goes down.
LEMMA FailuresStay ==
  ASSUME Typed, [Next]_vars, failures' = 0
  PROVE  failures = 0 /\ \A w \in Loops : ~StoreFailure(w)
<1>1. \A w \in Loops : ~StoreFailure(w)
  BY FailureCounted
<1>2. failures' = failures
  BY <1>1 DEF Next, Save, Requeue, LoopStep, Fetch, Enter, Handle, HandlerRaises, MarkPublished,
       IncrementRetry, CheckRetry, MarkFailed, Finish, AfterBatch, Awake, Start, Stop, Joined, Wait,
       EvaluateIdle, WaitTimesOut, Crash, vars, bounds
<1> QED
  BY <1>1, <1>2

\* Rows that do not exist yet carry no outcome.
Fresh == \A e \in Events \ saved : retries[e] = 0 /\ e \notin published /\ e \notin failed

\* At the start there is no event to forget.
LEMMA NoForgottenInit == Init => NoForgottenEvent
  BY DEF Init, NoForgottenEvent, Unsettled

\* A loop works on rows, which are never deleted.
BatchSaved == \A w \in Loops : pc[w] \in AtEntry \cup {"enter"} => todo[w] \subseteq saved

LEMMA BatchSavedStep ==
  ASSUME Typed, BatchSaved, [Next]_vars
  PROVE  BatchSaved'
<1> USE DEF rows, worker, locals, bounds, GoTo, AtEntry, InBatch
<1> TypeOK
  BY DEF Typed
<1>1. ASSUME NEW w \in Loops, LoopStep(w) \/ StoreFailure(w) PROVE BatchSaved'
  <2>1. saved' = saved /\ \A v \in Loops : v # w => pc'[v] = pc[v] /\ todo'[v] = todo[v]
    BY <1>1 DEF LoopStep, StoreFailure, Fetch, Enter, Handle, HandlerRaises, MarkPublished, IncrementRetry,
         CheckRetry, MarkFailed, Finish, AfterBatch, Awake, FetchRaises, MarkPublishedRaises,
         RetryRaises, NextEntry, LeaveBatch, TypeOK
  <2>2. CASE Fetch(w)
    BY <2>1, <2>2 DEF Fetch, Eligible, Unsettled, BatchSaved, TypeOK
  <2>3. CASE Enter(w) \/ MarkPublished(w) \/ CheckRetry(w) \/ MarkFailed(w)
    <3>1. pc[w] \in AtEntry \cup {"enter"} /\ todo'[w] \subseteq todo[w]
      BY <2>3 DEF Enter, MarkPublished, Dispatched, CheckRetry, MarkFailed, NextEntry, TypeOK
    <3> QED
      BY <2>1, <3>1 DEF BatchSaved
  <2>4. CASE Handle(w) \/ HandlerRaises(w) \/ MarkPublishedRaises(w) \/ IncrementRetry(w)
    <3>1. pc[w] \in AtEntry /\ todo' = todo
      BY <2>4 DEF Handle, HandlerRaises, MarkPublishedRaises, IncrementRetry, Dispatched
    <3> QED
      BY <2>1, <3>1 DEF BatchSaved
  <2>5. CASE Finish(w) \/ AfterBatch(w) \/ Awake(w) \/ FetchRaises(w) \/ RetryRaises(w)
    <3>1. pc'[w] \notin AtEntry \cup {"enter"}
      BY <2>5 DEF Finish, LeaveBatch, AfterBatch, Awake, FetchRaises, RetryRaises, TypeOK
    <3> QED
      BY <2>1, <3>1 DEF BatchSaved
  <2> QED
    BY <1>1, <2>2, <2>3, <2>4, <2>5 DEF LoopStep, StoreFailure
<1>2. CASE (\E e \in Events : Save(e)) \/ (\E S \in SUBSET Events : Requeue(S))
  BY <1>2 DEF Save, Requeue, BatchSaved
<1>3. ASSUME NEW w \in Loops, Start(w) PROVE BatchSaved'
  BY <1>3 DEF Start, BatchSaved, TypeOK
<1>4. CASE Stop \/ Joined \/ Wait \/ EvaluateIdle \/ WaitTimesOut \/ UNCHANGED vars
  BY <1>4 DEF Stop, Joined, Wait, EvaluateIdle, WaitTimesOut, vars, BatchSaved
<1>5. CASE Crash
  BY <1>5 DEF Crash, BatchSaved
<1> QED
  BY <1>1, <1>2, <1>3, <1>4, <1>5 DEF Next

\* No step touches the outcome of a row that was not saved.
LEMMA FreshStep ==
  ASSUME Typed, BatchSaved, Fresh, [Next]_vars
  PROVE  Fresh'
<1> USE DEF rows, worker, locals, bounds
<1> TypeOK
  BY DEF Typed
<1>1. ASSUME NEW w \in Loops, LoopStep(w) \/ StoreFailure(w) PROVE Fresh'
  <2>1. pc[w] \in AtEntry => cur[w] \in saved /\ cur[w] \in Events
    BY CurrentIsEvent DEF BatchSaved
  <2>2. CASE pc[w] \in AtEntry
    <3>1. /\ \A e \in Events \ saved : retries'[e] = retries[e]
          /\ published' \subseteq published \cup {cur[w]}
          /\ failed' \subseteq failed \cup {cur[w]}
          /\ saved' = saved
      BY <1>1, <2>1, <2>2 DEF LoopStep, StoreFailure, Fetch, Enter, Handle, HandlerRaises, MarkPublished,
           IncrementRetry, CheckRetry, MarkFailed, Finish, AfterBatch, Awake, FetchRaises,
           MarkPublishedRaises, RetryRaises, TypeOK, AtEntry, InBatch
    <3> QED
      BY <2>1, <2>2, <3>1 DEF Fresh
  <2>3. CASE pc[w] \notin AtEntry
    <3>1. UNCHANGED rows
      BY <1>1, <2>3 DEF LoopStep, StoreFailure, Fetch, Enter, Handle, HandlerRaises, MarkPublished,
           IncrementRetry, CheckRetry, MarkFailed, Finish, AfterBatch, Awake, FetchRaises,
           MarkPublishedRaises, RetryRaises, Dispatched, AtEntry, InBatch
    <3> QED
      BY <3>1 DEF Fresh
  <2> QED
    BY <2>2, <2>3
<1>2. ASSUME NEW e \in Events, Save(e) PROVE Fresh'
  BY <1>2 DEF Save, Fresh
<1>3. ASSUME NEW S \in SUBSET Events, Requeue(S) PROVE Fresh'
  BY <1>3 DEF Requeue, Fresh
<1>4. CASE \E w \in Loops : Start(w)
  BY <1>4 DEF Start, Fresh
<1>5. CASE Stop \/ Joined \/ Wait \/ EvaluateIdle \/ WaitTimesOut \/ Crash \/ UNCHANGED vars
  BY <1>5 DEF Stop, Joined, Wait, EvaluateIdle, WaitTimesOut, Crash, vars, Fresh
<1> QED
  BY <1>1, <1>2, <1>3, <1>4, <1>5 DEF Next


\* No step of a process that has not crashed leaves an exhausted event behind.
LEMMA NoForgottenStep ==
  ASSUME Typed, Fresh, NoForgottenEvent, [Next]_vars
  PROVE  NoForgottenEvent'
<1> USE DEF rows, worker, locals, bounds, GoTo, AtEntry, InBatch
<1> TypeOK
  BY DEF Typed
<1> SUFFICES ASSUME crashes' = 0, failures' = 0 PROVE NoForgottenEvent'
  BY DEF NoForgottenEvent
<1> failures = 0 /\ \A w \in Loops : ~StoreFailure(w)
  BY FailuresStay
<1> crashes = 0 /\ ~Crash
  <2>1. ~Crash
    BY DEF Crash, TypeOK
  <2>2. crashes' = crashes
    BY <2>1 DEF Next, Save, Requeue, LoopStep, Fetch, Enter, Handle, HandlerRaises,
         MarkPublished, IncrementRetry, CheckRetry, MarkFailed, Finish, AfterBatch, Awake, Start,
         Stop, Joined, Wait, EvaluateIdle,
         WaitTimesOut, vars
  <2> QED
    BY <2>1, <2>2
<1>1. ASSUME NEW e \in Events, Save(e) PROVE NoForgottenEvent'
  <2>1. retries[e] = 0
    BY <1>1 DEF Save, Fresh
  <2> QED
    BY <1>1, <2>1 DEF Save, NoForgottenEvent, Unsettled
<1>2. ASSUME NEW S \in SUBSET Events, Requeue(S) PROVE NoForgottenEvent'
  <2>1. \A e \in Events : retries'[e] = IF e \in S THEN 0 ELSE retries[e]
    BY <1>2 DEF Requeue
  <2>2. \A e \in Unsettled' : e \in S \/ e \in Unsettled
    BY <1>2 DEF Requeue, Unsettled
  <2> QED
    BY <1>2, <2>1, <2>2 DEF Requeue, NoForgottenEvent, Unsettled, TypeOK
<1>3. ASSUME NEW w \in Loops, LoopStep(w), NEW e \in Unsettled', retries'[e] >= MaxRetry
      PROVE  \E v \in Loops : pc'[v] \in {"reread", "fail"} /\ cur'[v] = e
  <2>1. \A v \in Loops : v # w => pc'[v] = pc[v] /\ cur'[v] = cur[v]
    BY <1>3 DEF LoopStep, Fetch, Enter, Handle, HandlerRaises, MarkPublished, IncrementRetry,
         CheckRetry, MarkFailed, Finish, AfterBatch, Awake, NextEntry, LeaveBatch, TypeOK
  <2>2. e \in Unsettled /\ e \in Events
    BY <1>3 DEF LoopStep, Fetch, Enter, Handle, HandlerRaises, MarkPublished, IncrementRetry,
         CheckRetry, MarkFailed, Finish, AfterBatch, Awake, Unsettled, TypeOK
  <2>3. CASE IncrementRetry(w) /\ cur[w] = e
    BY <2>3 DEF IncrementRetry, TypeOK
  <2>4. CASE ~(IncrementRetry(w) /\ cur[w] = e)
    <3>1. retries'[e] = retries[e]
      BY <1>3, <2>2, <2>4 DEF LoopStep, Fetch, Enter, Handle, HandlerRaises, MarkPublished,
           IncrementRetry, CheckRetry, MarkFailed, Finish, AfterBatch, Awake, TypeOK
    <3>2. PICK v \in Loops : pc[v] \in {"reread", "fail"} /\ cur[v] = e
      BY <1>3, <2>2, <3>1 DEF NoForgottenEvent
    <3>3. CASE v # w
      BY <2>1, <3>2, <3>3
    <3>4. CASE v = w
      <4>1. CheckRetry(w) \/ MarkFailed(w)
        BY <1>3, <3>2, <3>4 DEF LoopStep, Fetch, Enter, Handle, HandlerRaises, MarkPublished,
             IncrementRetry, Dispatched, Finish, AfterBatch, Awake
      <4>2. ~MarkFailed(w)
        BY <1>3, <3>2, <3>4 DEF MarkFailed, Unsettled
      <4> QED
        BY <1>3, <3>1, <3>2, <3>4, <4>1, <4>2 DEF CheckRetry, TypeOK
    <3> QED
      BY <3>3, <3>4
  <2> QED
    BY <2>3, <2>4
<1>4. ASSUME NEW w \in Loops, LoopStep(w) PROVE NoForgottenEvent'
  BY <1>3, <1>4 DEF NoForgottenEvent
<1>5. ASSUME NEW w \in Loops, Start(w) PROVE NoForgottenEvent'
  BY <1>5 DEF Start, NoForgottenEvent, Unsettled, TypeOK
<1>6. CASE Stop \/ Joined \/ Wait \/ EvaluateIdle \/ WaitTimesOut \/ UNCHANGED vars
  BY <1>6 DEF Stop, Joined, Wait, EvaluateIdle, WaitTimesOut, vars, NoForgottenEvent, Unsettled
<1> QED
  BY <1>1, <1>2, <1>4, <1>5, <1>6 DEF Next

\* What any number of loops keep, until a call raises or the process crashes.
CalmInv == Typed /\ Counting /\ BatchSaved /\ Fresh /\ NoForgottenEvent

\* It holds in every reachable state, crashes and restarts included.
LEMMA CalmInvariant == Spec => []CalmInv
<1>1. Init => CalmInv
  <2>1. Init => BatchSaved /\ Fresh
    BY DEF Init, BatchSaved, Fresh, AtEntry, InBatch
  <2> QED
    BY <2>1, TypeInit, CountingInit, NoForgottenInit DEF CalmInv
<1>2. CalmInv /\ [Next]_vars => CalmInv'
  BY TypeStep, CountingStep, BatchSavedStep, FreshStep, NoForgottenStep DEF CalmInv
<1> QED
  BY <1>1, <1>2, PTL DEF Spec

\* Until the process crashes or a call raises, an event whose attempts are used up is published,
\* dead-lettered, or about to be dead-lettered: none drops out of both queries, also when two
\* loops count the attempts of one event.
THEOREM NothingForgotten == Spec => []NoForgottenEvent
<1>1. CalmInv => NoForgottenEvent
  BY DEF CalmInv
<1> QED
  BY <1>1, CalmInvariant, PTL

\* wait_until_idle returns True only in a state where no loop, not even one that stop()
\* gave up on, is between two repository calls of an entry and, until the process crashes or a
\* call raises, every event saved so far is settled.
THEOREM IdleIsTruthful == Spec => IdleMeansSettled
<1>1. ASSUME CalmInv, IsIdle
      PROVE  (\A w \in Loops : pc[w] \notin AtEntry) /\ (crashes = 0 /\ failures = 0 => Unsettled = {})
  <2>1. InProgress = {}
    BY <1>1, FS_EmptySet DEF CalmInv, IsIdle, Counting, PendingCountsTheBatch
  <2>3. ASSUME NEW w \in Loops, pc[w] \in InBatch PROVE FALSE
    <3>1. <<w, 1>> \in InProgress
      BY <1>1, <2>3, InProgressIs DEF ByLoop, CalmInv, Typed, TypeOK, Counting, BatchNotEmpty
    <3> QED
      BY <2>1, <3>1
  <2>2. ASSUME crashes = 0, failures = 0, NEW e \in Unsettled PROVE FALSE
    <3>1. retries[e] \in Nat /\ ~(retries[e] < MaxRetry)
      BY <1>1, <2>2 DEF CalmInv, Typed, TypeOK, IsIdle, Eligible, Unsettled
    <3>2. retries[e] >= MaxRetry
      BY <3>1
    <3> QED
      BY <1>1, <2>3, <2>2, <3>2 DEF CalmInv, NoForgottenEvent, InBatch
  <2> QED
    BY <2>3, <2>2 DEF AtEntry
<1>2. CalmInv /\ [Next]_vars =>
        [waiter # "idle" /\ waiter' = "idle" =>
           (\A w \in Loops : pc[w] \notin AtEntry) /\ (crashes = 0 /\ failures = 0 => Unsettled = {})]_vars
  <2> SUFFICES ASSUME CalmInv, Next, waiter # "idle", waiter' = "idle" PROVE IsIdle
    BY <1>1
  <2> QED
    BY DEF Next, Save, Requeue, LoopStep, StoreFailure, Fetch, Enter, Handle, HandlerRaises, MarkPublished,
         IncrementRetry, CheckRetry, MarkFailed, Finish, AfterBatch, Awake, FetchRaises,
         MarkPublishedRaises, RetryRaises, RepositoryRaises, LeaveBatch, Notify, Start, Stop, Joined, Wait,
         EvaluateIdle, WaitTimesOut, Crash
<1> QED
  BY <1>2, CalmInvariant, PTL DEF Spec, IdleMeansSettled

-----------------------------------------------------------------------------
(* One loop: when stop() always sees its thread end, start() never adds a   *)
(* second active thread.                                                    *)

OneLoop ==
  /\ \A w \in Loops : Active(w) => thread = w
  /\ status = "stopped" => \A w \in Loops : ~Active(w)
  /\ status # "stopped" => thread \in Loops

\* At the start no thread is active.
LEMMA OneLoopInit == Init => OneLoop
  BY DEF Init, OneLoop, Active

\* A step of an active thread activates no other thread.
LEMMA LoopStepActive ==
  ASSUME Typed, NEW w \in Loops, LoopStep(w) \/ StoreFailure(w)
  PROVE  /\ Active(w)
         /\ \A v \in Loops : v # w => pc'[v] = pc[v]
         /\ UNCHANGED <<status, thread>>
  BY DEF Typed, TypeOK, LoopStep, StoreFailure, Active, GoTo, NextEntry, LeaveBatch, Dispatched,
         worker, locals, Fetch, Enter, Handle, HandlerRaises, MarkPublished, IncrementRetry,
         CheckRetry, MarkFailed, Finish, AfterBatch, Awake,
         FetchRaises, MarkPublishedRaises, RetryRaises

\* When stop() joins its thread, start() never adds a second active one.
LEMMA OneLoopStep ==
  ASSUME JoinCompletes, Typed, OneLoop, [Next]_vars
  PROVE  OneLoop'
<1> USE DEF worker, locals
<1>1. CASE (\E e \in Events : Save(e)) \/ (\E S \in SUBSET Events : Requeue(S))
  BY <1>1 DEF Save, Requeue, OneLoop, Active
<1>2. ASSUME NEW w \in Loops, LoopStep(w) \/ StoreFailure(w) PROVE OneLoop'
  BY <1>2, LoopStepActive DEF OneLoop, Active
<1>3. ASSUME NEW w \in Loops, Start(w) PROVE OneLoop'
  BY <1>3 DEF Start, OneLoop, Active, GoTo, Typed, TypeOK
<1>4. CASE Stop
  BY <1>4 DEF Stop, OneLoop, Active
<1>5. CASE Joined
  BY <1>5 DEF Joined, OneLoop, Active
<1>6. CASE Wait \/ EvaluateIdle \/ WaitTimesOut
  BY <1>6 DEF Wait, EvaluateIdle, WaitTimesOut, OneLoop, Active
<1>7. CASE Crash
  BY <1>7 DEF Crash, OneLoop, Active
<1>8. CASE UNCHANGED vars
  BY <1>8 DEF vars, OneLoop, Active
<1> QED
  BY <1>1, <1>2, <1>3, <1>4, <1>5, <1>6, <1>7, <1>8 DEF Next

-----------------------------------------------------------------------------
(* The entries of the batch in progress. *)

\* An entry of the batch in progress is not dead-lettered and has an attempt
\* left, except that the current one may have just used its last.
BatchOpen ==
  \A w \in Loops : pc[w] \in AtEntry \cup {"enter"} =>
    \A e \in todo[w] :
      /\ e \in saved \ failed
      /\ retries[e] <= MaxRetry
      /\ retries[e] >= MaxRetry => pc[w] \in {"reread", "fail"} /\ e = cur[w]

LastAttemptUsed == \A w \in Loops : pc[w] = "fail" => retries[cur[w]] >= MaxRetry

Settling == BatchOpen /\ LastAttemptUsed /\ DeadLettersExhausted /\ RetriesBounded

\* At the start no attempt is used and nothing is dead-lettered.
LEMMA SettlingInit == Init => Settling
  BY DEF Init, Settling, BatchOpen, LastAttemptUsed, DeadLettersExhausted, RetriesBounded, AtEntry, InBatch

\* An entry the loop has not given up has an attempt left.
LEMMA AttemptLeft ==
  ASSUME Typed, BatchOpen, NEW w \in Loops, pc[w] \in AtEntry, pc[w] \notin {"reread", "fail"}
  PROVE  retries[cur[w]] \in Nat /\ retries[cur[w]] < MaxRetry
<1>1. cur[w] \in todo[w] /\ cur[w] \in Events
  BY CurrentIsEvent
<1>2. retries[cur[w]] \in Nat
  BY <1>1 DEF Typed, TypeOK
<1>3. ~(retries[cur[w]] >= MaxRetry)
  BY <1>1 DEF BatchOpen
<1> QED
  BY <1>2, <1>3

\* No step dead-letters an event early or attempts it once too often.
LEMMA SettlingStep ==
  ASSUME JoinCompletes, Typed, OneLoop, Settling, [Next]_vars
  PROVE  Settling'
<1> USE DEF Settling, rows, worker, locals, bounds, GoTo, AtEntry, InBatch
<1> TypeOK
  BY DEF Typed
<1>1. ASSUME NEW e \in Events, Save(e) PROVE Settling'
  BY <1>1 DEF Save, BatchOpen, LastAttemptUsed, DeadLettersExhausted, RetriesBounded
<1>2. ASSUME NEW S \in SUBSET Events, Requeue(S) PROVE Settling'
  <2>1. \A w \in Loops : pc[w] \in AtEntry \cup {"enter"} => todo[w] \cap S = {}
    BY <1>2 DEF Requeue, BatchOpen
  <2>2. \A e \in Events : retries'[e] = IF e \in S THEN 0 ELSE retries[e]
    BY <1>2 DEF Requeue
  <2>3. BatchOpen'
    BY <1>2, <2>1, <2>2 DEF Requeue, BatchOpen, TypeOK
  <2>4. LastAttemptUsed'
    BY <1>2, <2>1, <2>2, CurrentIsEvent DEF Requeue, LastAttemptUsed
  <2>5. DeadLettersExhausted' /\ RetriesBounded'
    BY <1>2, <2>2 DEF Requeue, DeadLettersExhausted, RetriesBounded, TypeOK
  <2> QED
    BY <2>3, <2>4, <2>5
<1>3. ASSUME NEW w \in Loops, LoopStep(w) \/ StoreFailure(w) PROVE Settling'
  <2>1. \A v \in Loops : v # w => pc[v] \in {"off", "dead"} /\ pc'[v] = pc[v]
    BY <1>3, LoopStepActive DEF OneLoop, Active
  <2>2. CASE Fetch(w)
    BY <2>1, <2>2 DEF Fetch, Eligible, Unsettled, BatchOpen, LastAttemptUsed, DeadLettersExhausted,
       RetriesBounded, TypeOK
  <2>3. CASE Enter(w)
    BY <2>1, <2>3 DEF Enter, NextEntry, BatchOpen, LastAttemptUsed, DeadLettersExhausted,
       RetriesBounded, TypeOK
  <2>4. CASE Handle(w) \/ HandlerRaises(w)
    <3>1. /\ UNCHANGED <<saved, published, failed, retries, todo, cur>>
          /\ pc[w] = "handle" /\ pc'[w] \in {"handle", "retry"}
          /\ \A v \in Loops : v # w => pc'[v] = pc[v]
      BY <2>4 DEF Handle, HandlerRaises, GoTo, rows, TypeOK
    <3>2. BatchOpen'
      BY <2>1, <3>1 DEF BatchOpen
    <3>3. LastAttemptUsed'
      BY <2>1, <3>1 DEF LastAttemptUsed
    <3> QED
      BY <3>1, <3>2, <3>3 DEF DeadLettersExhausted, RetriesBounded
  <2>5. CASE MarkPublished(w)
    BY <2>1, <2>5 DEF MarkPublished, Dispatched, NextEntry, BatchOpen, LastAttemptUsed,
       DeadLettersExhausted, RetriesBounded, TypeOK
  <2>6. CASE IncrementRetry(w)
    <3>1. cur[w] \in todo[w] /\ cur[w] \in Events /\ retries[cur[w]] < MaxRetry
      BY <2>6, CurrentIsEvent, AttemptLeft DEF IncrementRetry
    <3>2. \A e \in Events : retries'[e] = IF e = cur[w] THEN retries[e] + 1 ELSE retries[e]
      BY <2>6, <3>1 DEF IncrementRetry, TypeOK
    <3>3. BatchOpen'
      BY <2>1, <2>6, <3>1, <3>2 DEF IncrementRetry, BatchOpen, TypeOK
    <3>4. LastAttemptUsed'
      BY <2>1, <2>6 DEF IncrementRetry, LastAttemptUsed, TypeOK
    <3>5. DeadLettersExhausted' /\ RetriesBounded'
      BY <2>6, <3>1, <3>2 DEF IncrementRetry, DeadLettersExhausted, RetriesBounded, TypeOK
    <3> QED
      BY <3>3, <3>4, <3>5
  <2>7. CASE CheckRetry(w)
    <3>1. \A e \in todo[w] : e # cur[w] => retries[e] < MaxRetry
      BY <2>7 DEF CheckRetry, BatchOpen, TypeOK
    <3>2. BatchOpen'
      <4>1. CASE retries[cur[w]] >= MaxRetry
        <5>1. /\ UNCHANGED <<saved, published, failed, retries, todo, cur>>
              /\ pc[w] = "reread" /\ pc'[w] = "fail" /\ \A v \in Loops : v # w => pc'[v] = pc[v]
          BY <2>1, <2>7, <4>1 DEF CheckRetry, GoTo, rows, TypeOK
        <5> QED
          BY <2>1, <5>1 DEF BatchOpen
      <4>2. CASE ~(retries[cur[w]] >= MaxRetry)
        <5>1. /\ todo'[w] = todo[w] \ {cur[w]}
              /\ \A v \in Loops : v # w => pc'[v] \in {"off", "dead"}
          BY <2>1, <2>7, <4>2 DEF CheckRetry, NextEntry, TypeOK
        <5>2. \A e \in todo[w] : e \in saved \ failed
          BY <2>7 DEF CheckRetry, BatchOpen
        <5>3. \A e \in todo'[w] : retries[e] < MaxRetry /\ retries[e] \in Nat
          BY <3>1, <5>1 DEF TypeOK
        <5> QED
          BY <2>7, <5>1, <5>2, <5>3 DEF CheckRetry, BatchOpen
      <4> QED
        BY <4>1, <4>2
    <3>3. LastAttemptUsed'
      <4>1. CASE retries[cur[w]] >= MaxRetry
        BY <2>1, <2>7, <4>1 DEF CheckRetry, LastAttemptUsed, TypeOK
      <4>2. CASE ~(retries[cur[w]] >= MaxRetry)
        BY <2>1, <2>7, <4>2 DEF CheckRetry, NextEntry, LastAttemptUsed, TypeOK
      <4> QED
        BY <4>1, <4>2
    <3> QED
      BY <2>7, <3>2, <3>3 DEF CheckRetry, DeadLettersExhausted, RetriesBounded
  <2>8. CASE MarkFailed(w)
    BY <2>1, <2>8, CurrentIsEvent DEF MarkFailed, NextEntry, BatchOpen, LastAttemptUsed,
       DeadLettersExhausted, RetriesBounded, TypeOK
  <2>9. CASE Finish(w)
    BY <2>1, <2>9 DEF Finish, LeaveBatch, BatchOpen, LastAttemptUsed, DeadLettersExhausted,
       RetriesBounded, TypeOK
  <2>10. CASE AfterBatch(w) \/ Awake(w) \/ FetchRaises(w)
    BY <2>1, <2>10 DEF AfterBatch, Awake, FetchRaises, BatchOpen, LastAttemptUsed,
       DeadLettersExhausted, RetriesBounded, TypeOK
  <2>11. CASE MarkPublishedRaises(w)
    BY <2>1, <2>11 DEF MarkPublishedRaises, Dispatched, BatchOpen, LastAttemptUsed,
       DeadLettersExhausted, RetriesBounded, TypeOK
  <2>12. CASE RetryRaises(w)
    <3>1. cur[w] \in todo[w] /\ cur[w] \in Events
      BY <2>12, CurrentIsEvent DEF RetryRaises
    <3>2. pc[w] = "retry" => retries[cur[w]] < MaxRetry
      BY AttemptLeft
    <3>3. \A e \in Events :
            \/ retries'[e] = retries[e]
            \/ pc[w] = "retry" /\ e = cur[w] /\ retries'[e] = retries[e] + 1
      BY <2>12, <3>1 DEF RetryRaises, TypeOK
    <3>4. \A v \in Loops : pc'[v] \in {"off", "dead"}
      BY <2>1, <2>12 DEF RetryRaises, LeaveBatch, TypeOK
    <3>5. RetriesBounded'
      BY <3>2, <3>3 DEF RetriesBounded, TypeOK
    <3>6. DeadLettersExhausted'
      BY <2>12, <3>1, <3>3 DEF RetryRaises, DeadLettersExhausted, LastAttemptUsed, TypeOK
    <3> QED
      BY <3>4, <3>5, <3>6 DEF BatchOpen, LastAttemptUsed
  <2> QED
    BY <1>3, <2>2, <2>3, <2>4, <2>5, <2>6, <2>7, <2>8, <2>9, <2>10, <2>11, <2>12 DEF LoopStep, StoreFailure
<1>4. ASSUME NEW w \in Loops, Start(w) PROVE Settling'
  BY <1>4 DEF Start, BatchOpen, LastAttemptUsed, DeadLettersExhausted, RetriesBounded, TypeOK
<1>5. CASE Stop \/ Joined \/ Wait \/ EvaluateIdle \/ WaitTimesOut
  BY <1>5 DEF Stop, Joined, Wait, EvaluateIdle, WaitTimesOut, BatchOpen, LastAttemptUsed,
     DeadLettersExhausted, RetriesBounded
<1>6. CASE Crash
  BY <1>6 DEF Crash, BatchOpen, LastAttemptUsed, DeadLettersExhausted, RetriesBounded
<1>7. CASE UNCHANGED vars
  BY <1>7 DEF vars, BatchOpen, LastAttemptUsed, DeadLettersExhausted, RetriesBounded
<1> QED
  BY <1>1, <1>2, <1>3, <1>4, <1>5, <1>6, <1>7 DEF Next

\* The invariant of a worker whose stop() always joins its thread.
OneLoopInv == Typed /\ OneLoop /\ Settling

\* Types, one active loop and the retry accounting hold together.
LEMMA OneLoopInvariant ==
  ASSUME JoinCompletes
  PROVE  Spec => []OneLoopInv
<1>1. Init => OneLoopInv
  BY TypeInit, OneLoopInit, SettlingInit DEF OneLoopInv
<1>2. OneLoopInv /\ [Next]_vars => OneLoopInv'
  BY TypeStep, OneLoopStep, SettlingStep DEF OneLoopInv
<1> QED
  BY <1>1, <1>2, PTL DEF Spec

\* Whatever fails, crashes or is requeued, an event is dead-lettered only when
\* its attempts are used up, and it never has more than max_retry_count of them.
THEOREM DeadLetterDiscipline ==
  ASSUME JoinCompletes
  PROVE  Spec => []AttemptsRespected
<1>1. OneLoopInv => AttemptsRespected
  BY DEF OneLoopInv, Settling, AttemptsRespected
<1> QED
  BY <1>1, OneLoopInvariant, PTL

-----------------------------------------------------------------------------
(* The worker keeps the promise of Outbox, across crashes and restarts.     *)

\* No entry of the batch in progress has been published yet, until a call raises.
BatchUnpublished ==
  failures = 0 => \A w \in Loops : pc[w] \in AtEntry \cup {"enter"} => todo[w] \cap published = {}

\* A batch is fetched and worked off without meeting a published entry.
LEMMA BatchUnpublishedStep ==
  ASSUME JoinCompletes, Typed, OneLoop, Settling, BatchUnpublished, [Next]_vars
  PROVE  BatchUnpublished'
<1> USE DEF rows, worker, locals, bounds, GoTo, AtEntry, InBatch
<1> TypeOK
  BY DEF Typed
<1> SUFFICES ASSUME failures' = 0 PROVE BatchUnpublished'
  BY DEF BatchUnpublished
<1> failures = 0 /\ \A w \in Loops : ~StoreFailure(w)
  BY FailuresStay
<1>1. ASSUME NEW w \in Loops, LoopStep(w) PROVE BatchUnpublished'
  <2>1. \A v \in Loops : v # w => pc'[v] \in {"off", "dead"}
    BY <1>1, LoopStepActive DEF OneLoop, Active
  <2>2. CASE Fetch(w)
    BY <2>1, <2>2 DEF Fetch, Eligible, Unsettled, BatchUnpublished, TypeOK
  <2>3. CASE Enter(w) \/ CheckRetry(w) \/ MarkFailed(w)
    <3>1. pc[w] \in AtEntry \cup {"enter"} /\ todo'[w] \subseteq todo[w] /\ UNCHANGED published
      BY <2>3 DEF Enter, CheckRetry, MarkFailed, NextEntry, TypeOK
    <3> QED
      BY <2>1, <3>1 DEF BatchUnpublished
  <2>4. CASE MarkPublished(w)
    <3>1. todo'[w] = todo[w] \ {cur[w]} /\ published' = published \cup {cur[w]} /\ pc[w] = "handle"
      BY <2>4 DEF MarkPublished, Dispatched, NextEntry, TypeOK
    <3> QED
      BY <2>1, <3>1 DEF BatchUnpublished
  <2>5. CASE Handle(w) \/ HandlerRaises(w) \/ IncrementRetry(w)
    <3>1. pc[w] \in AtEntry /\ UNCHANGED <<todo, published>>
      BY <2>5 DEF Handle, HandlerRaises, IncrementRetry
    <3> QED
      BY <2>1, <3>1 DEF BatchUnpublished
  <2>6. CASE Finish(w) \/ AfterBatch(w) \/ Awake(w)
    <3>1. pc'[w] \in {"loop", "off", "fetch", "sleep"}
      BY <2>6 DEF Finish, LeaveBatch, AfterBatch, Awake, TypeOK
    <3> QED
      BY <2>1, <3>1 DEF BatchUnpublished
  <2> QED
    BY <1>1, <2>2, <2>3, <2>4, <2>5, <2>6 DEF LoopStep
<1>2. CASE (\E e \in Events : Save(e)) \/ (\E S \in SUBSET Events : Requeue(S))
  BY <1>2 DEF Save, Requeue, BatchUnpublished
<1>3. ASSUME NEW w \in Loops, Start(w) PROVE BatchUnpublished'
  BY <1>3 DEF Start, BatchUnpublished, TypeOK
<1>4. CASE Stop \/ Joined \/ Wait \/ EvaluateIdle \/ WaitTimesOut
  BY <1>4 DEF Stop, Joined, Wait, EvaluateIdle, WaitTimesOut, BatchUnpublished
<1>5. CASE Crash
  BY <1>5 DEF Crash, BatchUnpublished
<1>6. CASE UNCHANGED vars
  BY <1>6 DEF vars, BatchUnpublished
<1> QED
  BY <1>1, <1>2, <1>3, <1>4, <1>5, <1>6 DEF Next

PromiseInv == OneLoopInv /\ Delivered /\ BatchSaved /\ Fresh /\ BatchUnpublished

\* What the refinement needs to know of every reachable state.
LEMMA PromiseInvariant ==
  ASSUME JoinCompletes
  PROVE  Spec => []PromiseInv
<1>1. Init => PromiseInv
  <2>1. Init => BatchSaved /\ Fresh /\ BatchUnpublished
    BY DEF Init, BatchSaved, Fresh, BatchUnpublished, AtEntry, InBatch
  <2> QED
    BY <2>1, TypeInit, OneLoopInit, SettlingInit, DeliveredInit DEF PromiseInv, OneLoopInv
<1>2. PromiseInv /\ [Next]_vars => PromiseInv'
  BY TypeStep, OneLoopStep, SettlingStep, DeliveredStep, BatchSavedStep, FreshStep, BatchUnpublishedStep
  DEF PromiseInv, OneLoopInv
<1> QED
  BY <1>1, <1>2, PTL DEF Spec

\* The entry the loop is working on is PENDING.
LEMMA CurrentIsPending ==
  ASSUME PromiseInv, failures = 0, NEW w \in Loops, pc[w] \in AtEntry
  PROVE  cur[w] \in Events /\ cur[w] \in saved /\ cur[w] \notin published \cup failed
  BY CurrentIsEvent DEF PromiseInv, OneLoopInv, Settling, BatchOpen, BatchUnpublished

\* Until a call raises, every step of the worker is a step of Outbox or changes
\* nothing there.
LEMMA PromiseStep ==
  ASSUME PromiseInv, [Next]_vars, failures' = 0
  PROVE  [Promise!Next]_(Promise!vars)
<1> USE DEF rows, worker, locals, bounds
<1> failures = 0 /\ \A w \in Loops : ~StoreFailure(w)
  BY FailuresStay DEF PromiseInv, OneLoopInv
<1> DEFINE s == [e \in Events |-> StateOf(e)]
<1>1. ASSUME NEW e \in Events, Save(e) PROVE Promise!Save(e)
  BY <1>1 DEF Save, Promise!Save, StateOf, PromiseInv, Fresh
<1>2. ASSUME NEW S \in SUBSET Events, Requeue(S) PROVE Promise!Requeue(S)
  <2>1. \A e \in S : StateOf(e) = "DEAD_LETTER"
    BY <1>2 DEF Requeue, StateOf, PromiseInv, Fresh
  <2>2. \A e \in Events : StateOf(e)' = IF e \in S THEN "PENDING" ELSE StateOf(e)
    BY <1>2 DEF Requeue, StateOf, PromiseInv, Fresh
  <2> QED
    BY <1>2, <2>1, <2>2 DEF Requeue, Promise!Requeue
<1>3. ASSUME NEW w \in Loops, Handle(w) PROVE \E e \in Events, h \in Handlers : Promise!Run(e, h)
  <2>1. cur[w] \in Events /\ StateOf(cur[w]) = "PENDING"
    BY <1>3, CurrentIsPending DEF Handle, StateOf, AtEntry, InBatch
  <2>2. step[w] \in Handlers
    BY <1>3, CurrentIsEvent DEF Handle, Handlers, PromiseInv, OneLoopInv, AtEntry, InBatch
  <2>3. \A e \in Events : StateOf(e)' = StateOf(e)
    BY <1>3 DEF Handle, StateOf
  <2>4. Promise!Run(cur[w], step[w])
    BY <1>3, <2>1, <2>3 DEF Handle, Promise!Run
  <2> QED
    BY <2>1, <2>2, <2>4
<1>4. ASSUME NEW w \in Loops, MarkPublished(w) PROVE \E e \in Events : Promise!Publish(e)
  <2>1. /\ cur[w] \in Events /\ cur[w] \in saved /\ cur[w] \notin published \cup failed
        /\ ran[cur[w]] = Handlers
    BY <1>4, CurrentIsPending, DispatchedHandled
       DEF MarkPublished, Dispatched, PromiseInv, OneLoopInv, AtEntry, InBatch
  <2>2. \A e \in Events : StateOf(e)' = IF e = cur[w] THEN "PUBLISHED" ELSE StateOf(e)
    BY <1>4, <2>1 DEF MarkPublished, StateOf
  <2>3. Promise!Publish(cur[w])
    BY <1>4, <2>1, <2>2 DEF MarkPublished, Promise!Publish, StateOf
  <2> QED
    BY <2>1, <2>3
<1>5. ASSUME NEW w \in Loops, MarkFailed(w) PROVE \E e \in Events : Promise!Bury(e)
  <2>1. cur[w] \in Events /\ cur[w] \in saved /\ cur[w] \notin published \cup failed
    BY <1>5, CurrentIsPending DEF MarkFailed, AtEntry, InBatch
  <2>2. \A e \in Events : StateOf(e)' = IF e = cur[w] THEN "DEAD_LETTER" ELSE StateOf(e)
    BY <1>5, <2>1 DEF MarkFailed, StateOf
  <2>3. Promise!Bury(cur[w])
    BY <1>5, <2>1, <2>2 DEF MarkFailed, Promise!Bury, StateOf
  <2> QED
    BY <2>1, <2>3
<1>6. ASSUME UNCHANGED <<saved, published, failed, ran>> PROVE UNCHANGED Promise!vars
  BY <1>6 DEF Promise!vars, StateOf
<1>7. ASSUME NEW w \in Loops, LoopStep(w), ~Handle(w), ~MarkPublished(w), ~MarkFailed(w)
      PROVE  UNCHANGED <<saved, published, failed, ran>>
  BY <1>7 DEF LoopStep, Fetch, Enter, HandlerRaises, IncrementRetry, CheckRetry, Finish, AfterBatch, Awake
<1>8. ASSUME \/ \E w \in Loops : Start(w)
             \/ Stop \/ Joined \/ Wait \/ EvaluateIdle \/ WaitTimesOut \/ Crash \/ UNCHANGED vars
      PROVE  UNCHANGED <<saved, published, failed, ran>>
  BY <1>8 DEF Start, Stop, Joined, Wait, EvaluateIdle, WaitTimesOut, Crash, vars
<1> QED
  BY <1>1, <1>2, <1>3, <1>4, <1>5, <1>6, <1>7, <1>8 DEF Next, Promise!Next

\* The polling worker implements the outbox's promise: an event is published
\* once, for good, after all its handlers, and only dead letters are requeued,
\* whatever handlers raise and however often the process crashes and restarts,
\* until a repository call raises.
THEOREM WorkerKeepsPromise ==
  ASSUME JoinCompletes
  PROVE  Spec => PromiseKept
<1>1. Init => Promise!Init
  BY DEF Init, Promise!Init, StateOf
<1>2. PromiseInv /\ [Next]_vars => [failures' = 0 => [Promise!Next]_(Promise!vars)]_vars
  BY PromiseStep
<1> QED
  BY <1>1, <1>2, PromiseInvariant, PTL DEF Spec, PromiseKept
=============================================================================
