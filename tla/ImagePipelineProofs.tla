------------------------- MODULE ImagePipelineProofs -------------------------
(***************************************************************************)
(* What holds of the images of a listing for every number of images, sizes,*)
(* attempts, deliveries, crashes and failing calls; for any number of      *)
(* outbox loops as long as only claims are at stake, and for the one loop  *)
(* that the application starts where files are.                            *)
(***************************************************************************)
EXTENDS ImageViews, FiniteSetTheorems, TLAPS

(* Types. *)

\* TypeOK but for the bounds of positions and retries, which later invariants give; and a
\* loop that is not idle has an image.
TypedRows ==
  /\ status \in [Images -> {"none", "PENDING", "PROCESSING", "READY", "FAILED", "deleted"}]
  /\ attempts \in [Images -> 0..MaxAttempts]
  /\ position \in [Images -> Nat]
  /\ recorded \subseteq Images
  /\ openTxn \in BOOLEAN

TypedFiles ==
  /\ original \subseteq Images /\ thumbs \in [Images -> SUBSET Sizes]
  /\ scraps \subseteq Images \X (Sizes \cup {Original})

TypedOutbox ==
  /\ event \in [Images -> {"none", "pending", "settled", "dead"}]
  /\ retries \in [Images -> Nat]

TypedRequests ==
  /\ upload \in [Images -> UploadOver \cup
                   {"saving", "placing", "storing", "scheduling", "unscheduled", "undoing"}]
  /\ slot \in [Images -> Nat]
  /\ delete \in [Images -> {"idle", "reading", "erasing", "cleaning", "done"}]
  /\ unread \in [Images -> SUBSET Sizes] /\ keys \in [Images -> SUBSET Sizes]

TypedLoops ==
  /\ handler \in [Workers -> InHandler \cup {"idle"}]
  /\ image \in [Workers -> Images \cup {NoImage}]
  /\ attempt \in [Workers -> 0..MaxAttempts]
  /\ made \in [Workers -> SUBSET Sizes]
  /\ \A w \in Workers : handler[w] # "idle" => image[w] \in Images

TypedBounds == crashes \in Nat /\ faults \in Nat /\ collisions \in Nat

Typed == TypedRows /\ TypedFiles /\ TypedOutbox /\ TypedRequests /\ TypedLoops /\ TypedBounds

LEMMA TypedInit == Init => Typed
<1> SUFFICES ASSUME Init PROVE Typed
  OBVIOUS
<1>1. 0 \in 0..MaxAttempts
  BY LimitAssumption
<1> QED
  BY <1>1 DEF Init, Typed, TypedRows, TypedFiles, TypedOutbox, TypedRequests, TypedLoops, TypedBounds,
             UploadOver, InHandler

\* A listing has finitely many images.
LEMMA FiniteImages ==
  ASSUME NEW T \in SUBSET Images
  PROVE  IsFiniteSet(T) /\ Cardinality(T) \in Nat
BY ImagesAssumption, FS_Subset, FS_CardinalityType

LEMMA CompactedType ==
  ASSUME NEW i \in Images PROVE Compacted(Stored \ {i}) \in [Images -> Nat]
<1>1. \A j \in Images : Cardinality({k \in Stored \ {i} : position[k] <= position[j]}) \in Nat
  BY FiniteImages DEF Stored
<1> QED
  BY <1>1 DEF Compacted

LEMMA RowsTyped == Typed /\ Next => TypedRows'
<1> SUFFICES ASSUME Typed, Next PROVE TypedRows'
  OBVIOUS
<1> USE LimitAssumption DEF Typed, TypedRows, TypedLoops, TypedRequests, row, EndTxn
<1>1. ASSUME NEW i \in Images, CheckLimit(i) \/ SaveOriginal(i) \/ SaveOriginalFails(i) \/ ChoosePosition(i)
               \/ RequestDelete(i) \/ ReadKey(i) \/ DeleteFiles(i)
      PROVE  TypedRows'
  BY <1>1 DEF CheckLimit, SaveOriginal, SaveOriginalFails, ChoosePosition, RequestDelete, ReadKey, DeleteFiles
<1>2. ASSUME NEW i \in Images, ScheduleProcessing(i) \/ ScheduleFails(i) \/ MarkUnscheduledFails(i) \/ StoreRowFails(i)
               \/ DeleteFails(i) \/ Requeue(i)
      PROVE  TypedRows'
  BY <1>2 DEF ScheduleProcessing, ScheduleFails, MarkUnscheduledFails, StoreRowFails, DeleteFails, Requeue
<1>3. ASSUME NEW i \in Images, StoreRow(i) PROVE TypedRows'
  BY <1>3 DEF StoreRow
<1>4. ASSUME NEW i \in Images, MarkUnscheduled(i) PROVE TypedRows'
  BY <1>4 DEF MarkUnscheduled, WriteFailed
<1>5. ASSUME NEW i \in Images, UndoRow(i) \/ DeleteRow(i) PROVE TypedRows'
  BY <1>5, CompactedType DEF UndoRow, DeleteRow, EraseRow
<1>6. ASSUME NEW w \in Workers,
             \/ Deliver(w) \/ Skip(w) \/ GiveUp(w) \/ Open(w) \/ OpenFails(w) \/ OpenRaises(w)
             \/ Generate(w) \/ GenerateFails(w) \/ MarkReadyDeleted(w) \/ MarkFailedDeleted(w) \/ Settle(w)
      PROVE  TypedRows'
  BY <1>6 DEF Deliver, Skip, GiveUp, Open, OpenFails, OpenRaises, Generate, GenerateFails,
              MarkReadyDeleted, MarkFailedDeleted, Settle, Escape
<1>7. ASSUME NEW w \in Workers, Claim(w) \/ ClaimRaises(w) PROVE TypedRows'
  <2> PICK i \in Images : i = image[w]
    BY <1>7 DEF Claim, ClaimRaises
  <2>1. ASSUME CanClaim(i), TakeRow(i) PROVE attempts' \in [Images -> 0..MaxAttempts]
    <3>1. attempts[i] + 1 \in 0..MaxAttempts
      BY <2>1 DEF CanClaim
    <3> QED
      BY <2>1, <3>1 DEF TakeRow
  <2>2. ASSUME TakeRow(i)
        PROVE  /\ status' \in [Images -> {"none", "PENDING", "PROCESSING", "READY", "FAILED", "deleted"}]
               /\ position' \in [Images -> Nat]
               /\ recorded' \subseteq Images
    BY <2>2 DEF TakeRow
  <2>3. openTxn' \in BOOLEAN
    BY <1>7 DEF Claim, ClaimRaises, Escape
  <2>4. UNCHANGED row \/ (CanClaim(i) /\ TakeRow(i))
    BY <1>7 DEF Claim, ClaimRaises, CanClaim, TakeRow
  <2> QED
    BY <2>1, <2>2, <2>3, <2>4
<1>8. ASSUME NEW w \in Workers, MarkReady(w) \/ MarkReadyRaises(w) PROVE TypedRows'
  BY <1>8 DEF MarkReady, MarkReadyRaises, WriteReady, Stored
<1>9. ASSUME NEW w \in Workers, MarkFailed(w) \/ MarkFailedRaises(w) PROVE TypedRows'
  BY <1>9 DEF MarkFailed, MarkFailedRaises, WriteFailed, Escape
<1>10. CASE Reorder
  <2>1. Cardinality(Stored) \in Nat
    BY FiniteImages DEF Stored
  <2>2. PICK p \in Bijection(Stored, 1..Cardinality(Stored)) :
          position' = [i \in Images |-> IF i \in Stored THEN p[i] ELSE position[i]]
    BY <1>10 DEF Reorder
  <2>3. p \in [Stored -> 1..Cardinality(Stored)]
    BY <2>2 DEF Bijection, Injection
  <2>4. position' \in [Images -> Nat]
    BY <2>1, <2>2, <2>3
  <2> QED
    BY <1>10, <2>4 DEF Reorder
<1>11. CASE Crash
  BY <1>11 DEF Crash
<1> QED
  BY <1>1, <1>2, <1>3, <1>4, <1>5, <1>6, <1>7, <1>8, <1>9, <1>10, <1>11
  DEF Next, UploadStep, DeleteStep, HandlerStep

\* What a crash breaks off: originals that are being saved, sizes that a loop is at.
LEMMA TornFiles ==
  ASSUME Typed, NEW cut \in Torn, NEW p \in cut
  PROVE  \/ \E i \in Images : p = <<i, Original>> /\ upload[i] = "saving"
         \/ \E w \in Workers : handler[w] = "generate" /\ \E s \in Sizes \ made[w] : p = <<image[w], s>>
BY DEF Torn

LEMMA FilesTyped == Typed /\ Next => TypedFiles'
<1> SUFFICES ASSUME Typed, Next PROVE TypedFiles'
  OBVIOUS
<1> USE DEF Typed, TypedFiles, TypedLoops, files
<1>1. ASSUME NEW i \in Images, CheckLimit(i) \/ UploadStep(i) PROVE TypedFiles'
  BY <1>1 DEF CheckLimit, UploadStep, SaveOriginal, SaveOriginalFails, ChoosePosition, StoreRow,
     StoreRowFails, ScheduleProcessing, ScheduleFails, MarkUnscheduled, MarkUnscheduledFails, UndoRow
<1>2. ASSUME NEW i \in Images, RequestDelete(i) \/ DeleteStep(i) \/ Requeue(i) PROVE TypedFiles'
  BY <1>2 DEF RequestDelete, DeleteStep, ReadKey, DeleteRow, DeleteFails, DeleteFiles, Requeue, Unlink
<1>3. ASSUME NEW w \in Workers,
             \/ Deliver(w) \/ Claim(w) \/ ClaimRaises(w) \/ Skip(w) \/ Open(w) \/ OpenFails(w)
             \/ OpenRaises(w) \/ MarkReady(w) \/ MarkReadyRaises(w) \/ MarkFailed(w)
             \/ MarkFailedRaises(w) \/ Settle(w)
      PROVE  TypedFiles'
  BY <1>3 DEF Deliver, Claim, ClaimRaises, Skip, Open, OpenFails, OpenRaises, MarkReady,
     MarkReadyRaises, MarkFailed, MarkFailedRaises, Settle, Escape
<1>4. ASSUME NEW w \in Workers,
             GiveUp(w) \/ MarkReadyDeleted(w) \/ MarkFailedDeleted(w) \/ Generate(w) \/ GenerateFails(w)
      PROVE  TypedFiles'
  <2>1. CASE GiveUp(w) \/ MarkReadyDeleted(w) \/ MarkFailedDeleted(w)
    BY <2>1 DEF GiveUp, MarkReadyDeleted, MarkFailedDeleted, CleanUp, Unlink
  <2>2. CASE Generate(w)
    BY <2>2 DEF Generate
  <2>3. CASE GenerateFails(w)
    <3>1. image[w] \in Images
      BY <2>3 DEF GenerateFails, Handler
    <3>2. PICK cut \in {{}} \cup {{t} : t \in Sizes \ made[w]} :
            /\ thumbs' = [thumbs EXCEPT ![image[w]] = @ \ (made[w] \cup cut)]
            /\ scraps' = (scraps \ ({image[w]} \X made[w])) \cup ({image[w]} \X cut)
      BY <2>3 DEF GenerateFails
    <3>3. cut \in SUBSET Sizes
      OBVIOUS
    <3> QED
      BY <2>3, <3>1, <3>2, <3>3 DEF GenerateFails
  <2> QED
    BY <1>4, <2>1, <2>2, <2>3
<1>5. CASE Crash
  <2>1. PICK cut \in Torn : /\ thumbs' = [i \in Images |-> {s \in thumbs[i] : <<i, s>> \notin cut}]
                            /\ scraps' = scraps \cup cut
    BY <1>5 DEF Crash
  <2>2. cut \subseteq Images \X (Sizes \cup {Original})
    BY TornFiles
  <2>3. original' = original
    BY <1>5 DEF Crash
  <2> QED
    BY <2>1, <2>2, <2>3
<1>6. CASE Reorder
  BY <1>6 DEF Reorder
<1> QED
  BY <1>1, <1>2, <1>3, <1>4, <1>5, <1>6 DEF Next, HandlerStep

LEMMA OutboxTyped == Typed /\ Next => TypedOutbox'
<1> SUFFICES ASSUME Typed, Next PROVE TypedOutbox'
  OBVIOUS
<1> USE DEF Typed, TypedOutbox, TypedLoops, outbox
<1>1. ASSUME NEW i \in Images, CheckLimit(i) \/ UploadStep(i) PROVE TypedOutbox'
  BY <1>1 DEF CheckLimit, UploadStep, SaveOriginal, SaveOriginalFails, ChoosePosition, StoreRow,
     StoreRowFails, ScheduleProcessing, ScheduleFails, MarkUnscheduled, MarkUnscheduledFails, UndoRow
<1>2. ASSUME NEW i \in Images, RequestDelete(i) \/ DeleteStep(i) \/ Requeue(i) PROVE TypedOutbox'
  <2>1. CASE RequestDelete(i) \/ DeleteStep(i)
    BY <2>1 DEF RequestDelete, DeleteStep, ReadKey, DeleteRow, DeleteFails, DeleteFiles
  <2>2. CASE Requeue(i)
    BY <2>2 DEF Requeue
  <2> QED
    BY <1>2, <2>1, <2>2
<1>3. ASSUME NEW w \in Workers,
             \/ Deliver(w) \/ Claim(w) \/ Skip(w) \/ GiveUp(w) \/ Open(w) \/ OpenFails(w) \/ Generate(w)
             \/ GenerateFails(w) \/ MarkReady(w) \/ MarkReadyDeleted(w) \/ MarkReadyRaises(w)
             \/ MarkFailed(w) \/ MarkFailedDeleted(w)
      PROVE  TypedOutbox'
  BY <1>3 DEF Deliver, Claim, Skip, GiveUp, Open, OpenFails, Generate, GenerateFails, MarkReady,
     MarkReadyDeleted, MarkReadyRaises, MarkFailed, MarkFailedDeleted
<1>4. ASSUME NEW w \in Workers, NEW from \in InHandler, Escape(w, from) PROVE TypedOutbox'
  <2>1. image[w] \in Images
    BY <1>4 DEF Escape, Handler, InHandler, Return
  <2> QED
    BY <1>4, <2>1 DEF Escape
<1>5. ASSUME NEW w \in Workers, ClaimRaises(w) \/ OpenRaises(w) \/ MarkFailedRaises(w) PROVE TypedOutbox'
  BY <1>4, <1>5 DEF ClaimRaises, OpenRaises, MarkFailedRaises, InHandler
<1>6. ASSUME NEW w \in Workers, Settle(w) PROVE TypedOutbox'
  BY <1>6 DEF Settle
<1>7. CASE Reorder \/ Crash
  BY <1>7 DEF Reorder, Crash
<1> QED
  BY <1>1, <1>2, <1>3, <1>5, <1>6, <1>7 DEF Next, HandlerStep

LEMMA RequestsTyped == Typed /\ Next => TypedRequests'
<1> SUFFICES ASSUME Typed, Next PROVE TypedRequests'
  OBVIOUS
<1> USE DEF Typed, TypedRequests, UploadOver, uploads, deletes, Upload, Delete
<1>1. ASSUME NEW i \in Images, ChoosePosition(i) PROVE TypedRequests'
  <2>1. Cardinality(Stored) + 1 \in Nat
    BY FiniteImages DEF Stored
  <2> QED
    BY <1>1, <2>1 DEF ChoosePosition
<1>2. ASSUME NEW i \in Images,
             \/ CheckLimit(i) \/ SaveOriginal(i) \/ SaveOriginalFails(i) \/ StoreRow(i) \/ StoreRowFails(i)
             \/ ScheduleProcessing(i) \/ ScheduleFails(i) \/ MarkUnscheduled(i)
             \/ MarkUnscheduledFails(i) \/ UndoRow(i)
      PROVE  TypedRequests'
  BY <1>2 DEF CheckLimit, SaveOriginal, SaveOriginalFails, StoreRow, StoreRowFails,
     ScheduleProcessing, ScheduleFails, MarkUnscheduled, MarkUnscheduledFails, UndoRow
<1>3. ASSUME NEW i \in Images, RequestDelete(i) \/ DeleteStep(i) \/ Requeue(i) PROVE TypedRequests'
  <2>1. CASE RequestDelete(i) \/ ReadKey(i)
    BY <2>1 DEF RequestDelete, ReadKey
  <2>2. CASE DeleteRow(i) \/ DeleteFails(i) \/ DeleteFiles(i)
    BY <2>2 DEF DeleteRow, DeleteFails, DeleteFiles
  <2>3. CASE Requeue(i)
    BY <2>3 DEF Requeue
  <2> QED
    BY <1>3, <2>1, <2>2, <2>3 DEF DeleteStep
<1>4. ASSUME NEW w \in Workers, HandlerStep(w) PROVE TypedRequests'
  BY <1>4 DEF HandlerStep, Deliver, Claim, ClaimRaises, Skip, GiveUp, Open, OpenFails, OpenRaises,
     Generate, GenerateFails, MarkReady, MarkReadyDeleted, MarkReadyRaises, MarkFailed,
     MarkFailedDeleted, MarkFailedRaises, Settle, Escape
<1>5. CASE Reorder \/ Crash
  BY <1>5 DEF Reorder, Crash
<1> QED
  BY <1>1, <1>2, <1>3, <1>4, <1>5 DEF Next, UploadStep

\* Requests leave the loops alone.
LEMMA RequestsAside ==
  ASSUME NEW i \in Images, CheckLimit(i) \/ UploadStep(i) \/ RequestDelete(i) \/ DeleteStep(i) \/ Requeue(i)
  PROVE  UNCHANGED handlers
BY DEF CheckLimit, UploadStep, SaveOriginal, SaveOriginalFails, ChoosePosition, StoreRow,
     StoreRowFails, ScheduleProcessing, ScheduleFails, MarkUnscheduled, MarkUnscheduledFails,
     UndoRow, RequestDelete, DeleteStep, ReadKey, DeleteRow, DeleteFails, DeleteFiles, Requeue

LEMMA LoopsTyped == Typed /\ Next => TypedLoops'
<1> SUFFICES ASSUME Typed, Next PROVE TypedLoops'
  OBVIOUS
<1>z. 0 \in 0..MaxAttempts
  BY LimitAssumption
<1> USE DEF Typed, TypedLoops, TypedRows, InHandler, handlers, locals, Handler
<1>1. ASSUME NEW i \in Images,
             CheckLimit(i) \/ UploadStep(i) \/ RequestDelete(i) \/ DeleteStep(i) \/ Requeue(i)
      PROVE  TypedLoops'
  BY <1>1, RequestsAside
<1>2. ASSUME NEW w \in Workers, Deliver(w) PROVE TypedLoops'
  BY <1>2 DEF Deliver
<1>3. ASSUME NEW w \in Workers, Claim(w) PROVE TypedLoops'
  BY <1>3, LimitAssumption DEF Claim, CanClaim
<1>4. ASSUME NEW w \in Workers, ClaimRaises(w) \/ OpenRaises(w) \/ MarkFailedRaises(w) PROVE TypedLoops'
  BY <1>z, <1>4 DEF ClaimRaises, OpenRaises, MarkFailedRaises, Escape, Return
<1>5. ASSUME NEW w \in Workers,
             Skip(w) \/ GiveUp(w) \/ Open(w) \/ OpenFails(w) \/ Generate(w) \/ GenerateFails(w)
      PROVE  TypedLoops'
  BY <1>5 DEF Skip, GiveUp, Open, OpenFails, Generate, GenerateFails
<1>6. ASSUME NEW w \in Workers,
             \/ MarkReady(w) \/ MarkReadyDeleted(w) \/ MarkReadyRaises(w) \/ MarkFailed(w)
             \/ MarkFailedDeleted(w)
      PROVE  TypedLoops'
  BY <1>6 DEF MarkReady, MarkReadyDeleted, MarkReadyRaises, MarkFailed, MarkFailedDeleted
<1>7. ASSUME NEW w \in Workers, Settle(w) PROVE TypedLoops'
  BY <1>z, <1>7 DEF Settle, Return
<1>8. CASE Reorder
  BY <1>8 DEF Reorder
<1>9. CASE Crash
  BY <1>z, <1>9 DEF Crash
<1> QED
  BY <1>1, <1>2, <1>3, <1>4, <1>5, <1>6, <1>7, <1>8, <1>9 DEF Next, HandlerStep

\* A step raises once, meets another repository's write, crashes or does none of these.
LEMMA BoundsStep == [Next]_vars => UNCHANGED bounds \/ Fault \/ Collision \/ Crash
<1> SUFFICES ASSUME Next PROVE UNCHANGED bounds \/ Fault \/ Collision \/ Crash
  BY DEF vars, bounds
<1>1. ASSUME NEW i \in Images,
             CheckLimit(i) \/ UploadStep(i) \/ RequestDelete(i) \/ DeleteStep(i) \/ Requeue(i)
      PROVE  UNCHANGED bounds \/ Fault
  BY <1>1 DEF CheckLimit, UploadStep, SaveOriginal, SaveOriginalFails, ChoosePosition, StoreRow,
     StoreRowFails, ScheduleProcessing, ScheduleFails, MarkUnscheduled, MarkUnscheduledFails,
     UndoRow, RequestDelete, DeleteStep, ReadKey, DeleteRow, DeleteFails, DeleteFiles, Requeue
<1>2. ASSUME NEW w \in Workers, HandlerStep(w) PROVE UNCHANGED bounds \/ Fault \/ Collision
  BY <1>2 DEF HandlerStep, Deliver, Claim, ClaimRaises, Skip, GiveUp, Open, OpenFails, OpenRaises,
     Generate, GenerateFails, MarkReady, MarkReadyDeleted, MarkReadyRaises, MarkFailed,
     MarkFailedDeleted, MarkFailedRaises, Settle, Collision
<1>3. CASE Reorder
  BY <1>3 DEF Reorder
<1> QED
  BY <1>1, <1>2, <1>3 DEF Next

LEMMA BoundsTyped == Typed /\ Next => TypedBounds'
BY BoundsStep DEF Typed, TypedBounds, bounds, Fault, Collision, Crash

LEMMA TypedStep == Typed /\ [Next]_vars => Typed'
<1>1. Typed /\ Next => Typed'
  BY RowsTyped, FilesTyped, OutboxTyped, RequestsTyped, LoopsTyped, BoundsTyped DEF Typed
<1>2. Typed /\ UNCHANGED vars => Typed'
  BY DEF vars, row, files, outbox, uploads, deletes, handlers, locals, bounds, Typed, TypedRows,
     TypedFiles, TypedOutbox, TypedRequests, TypedLoops, TypedBounds
<1> QED
  BY <1>1, <1>2

-----------------------------------------------------------------------------
(* Positions. *)

\* What the unique index and the limit of a position make of the rows.
Placed ==
  /\ \A i, j \in Stored : i # j => position[i] # position[j]
  /\ \A i \in Stored : position[i] \in 1..MaxImages
  /\ \A i \in Images : position[i] <= MaxImages
  /\ \A i \in Images : upload[i] = "storing" => slot[i] \in 1..MaxImages

\* Different places among 1, 2, ... n leave room for n images.
LEMMA PlacesBound ==
  ASSUME NEW T \in SUBSET Images, NEW n \in Nat, NEW f,
         \A i \in T : f[i] \in 1..n,
         \A i, j \in T : i # j => f[i] # f[j]
  PROVE  Cardinality(T) <= n
<1> DEFINE g == [i \in T |-> f[i]]
<1>1. g \in Injection(T, 1..n)
  BY DEF Injection, IsInjective
<1>2. IsFiniteSet(1..n) /\ Cardinality(1..n) = n
  BY FS_Interval
<1> QED
  BY <1>1, <1>2, FS_Injection

\* The rows left are numbered 1, 2, ... without a gap or a double.
LEMMA CompactedPlaces ==
  ASSUME position \in [Images -> Nat], NEW left \in SUBSET Images,
         \A i, j \in left : i # j => position[i] # position[j]
  PROVE  /\ \A i \in left : Compacted(left)[i] \in 1..Cardinality(left)
         /\ \A i, j \in left : i # j => Compacted(left)[i] # Compacted(left)[j]
<1> DEFINE below(i) == {k \in left : position[k] <= position[i]}
<1>1. \A i \in left : Compacted(left)[i] = Cardinality(below(i))
  BY DEF Compacted
<1>2. IsFiniteSet(left) /\ Cardinality(left) \in Nat
  BY FiniteImages
<1>3. ASSUME NEW i \in left PROVE IsFiniteSet(below(i)) /\ Cardinality(below(i)) \in 1..Cardinality(left)
  <2>1. IsFiniteSet(below(i)) /\ Cardinality(below(i)) \in Nat
    BY FiniteImages
  <2>2. i \in below(i)
    OBVIOUS
  <2>3. Cardinality(below(i)) # 0
    BY <2>1, <2>2, FS_EmptySet
  <2>4. Cardinality(below(i)) <= Cardinality(left)
    BY <1>2, FS_Subset
  <2> QED
    BY <1>2, <2>1, <2>3, <2>4
<1>4. ASSUME NEW i \in left, NEW j \in left, position[i] < position[j]
      PROVE  Cardinality(below(i)) # Cardinality(below(j))
  <2>1. below(i) \subseteq below(j)
    BY <1>4
  <2>2. j \in below(j) /\ j \notin below(i)
    BY <1>4
  <2>3. Cardinality(below(j)) = Cardinality(below(i)) => below(j) = below(i)
    BY <1>3, <2>1, FS_Subset
  <2> QED
    BY <2>2, <2>3
<1>5. \A i, j \in left : i # j => position[i] < position[j] \/ position[j] < position[i]
  OBVIOUS
<1> QED
  BY <1>1, <1>3, <1>4, <1>5

\* No row comes or goes, none moves, and none loses its keys.
KeepsTable == UNCHANGED <<Stored, position>> /\ recorded \subseteq recorded'

LEMMA UnchangedTable ==
  ASSUME Typed
  PROVE  /\ UNCHANGED row => KeepsTable
         /\ \A i \in Images : WriteFailed(i) => KeepsTable
         /\ \A i \in Stored : WriteReady(i) => KeepsTable
         /\ \A i \in Images : CanClaim(i) /\ TakeRow(i) => KeepsTable
BY DEF KeepsTable, Typed, TypedRows, row, Stored, WriteFailed, WriteReady, CanClaim, Claimable, TakeRow

LEMMA LoopsKeepTable ==
  ASSUME Typed, NEW w \in Workers, HandlerStep(w)
  PROVE  KeepsTable
<1> USE UnchangedTable DEF Typed, TypedLoops
<1>1. CASE \/ Deliver(w) \/ Skip(w) \/ GiveUp(w) \/ Open(w) \/ OpenFails(w) \/ OpenRaises(w)
           \/ Generate(w) \/ GenerateFails(w) \/ MarkReadyDeleted(w) \/ MarkFailedDeleted(w)
           \/ Settle(w)
  BY <1>1 DEF Deliver, Skip, GiveUp, Open, OpenFails, OpenRaises, Generate, GenerateFails,
              MarkReadyDeleted, MarkFailedDeleted, Settle
<1>2. CASE Claim(w) \/ ClaimRaises(w)
  <2>1. image[w] \in Images
    BY <1>2 DEF Claim, ClaimRaises
  <2> QED
    BY <1>2, <2>1 DEF Claim, ClaimRaises
<1>3. CASE MarkReady(w) \/ MarkReadyRaises(w)
  BY <1>3 DEF MarkReady, MarkReadyRaises
<1>4. CASE MarkFailed(w) \/ MarkFailedRaises(w)
  <2>1. image[w] \in Images
    BY <1>4 DEF MarkFailed, MarkFailedRaises, Escape, Handler, Return
  <2> QED
    BY <1>4, <2>1 DEF MarkFailed, MarkFailedRaises
<1> QED
  BY <1>1, <1>2, <1>3, <1>4 DEF HandlerStep

\* What a step does to the table: it stores a row, deletes one, reorders them, or neither.
LEMMA TableStep ==
  Typed /\ [Next]_vars =>
    \/ \E i \in Images : StoreRow(i)
    \/ \E i \in Stored : EraseRow(i)
    \/ Reorder
    \/ KeepsTable
<1> SUFFICES ASSUME Typed, [Next]_vars
             PROVE  \/ \E i \in Images : StoreRow(i)
                    \/ \E i \in Stored : EraseRow(i)
                    \/ Reorder
                    \/ KeepsTable
  OBVIOUS
<1> USE UnchangedTable
<1>1. ASSUME NEW i \in Images,
             \/ CheckLimit(i) \/ SaveOriginal(i) \/ SaveOriginalFails(i) \/ ChoosePosition(i)
             \/ StoreRowFails(i) \/ ScheduleProcessing(i) \/ ScheduleFails(i)
             \/ MarkUnscheduledFails(i) \/ RequestDelete(i) \/ ReadKey(i) \/ DeleteFails(i)
             \/ DeleteFiles(i) \/ Requeue(i)
      PROVE  UNCHANGED row
  BY <1>1 DEF CheckLimit, SaveOriginal, SaveOriginalFails, ChoosePosition, StoreRowFails,
     ScheduleProcessing, ScheduleFails, MarkUnscheduledFails, RequestDelete, ReadKey, DeleteFails,
     DeleteFiles, Requeue
<1>2. ASSUME NEW i \in Images, MarkUnscheduled(i) PROVE WriteFailed(i)
  BY <1>2 DEF MarkUnscheduled
<1>3. ASSUME NEW i \in Images, UndoRow(i) \/ DeleteRow(i)
      PROVE  (i \in Stored /\ EraseRow(i)) \/ UNCHANGED row
  BY <1>3 DEF UndoRow, DeleteRow
<1>4. CASE Crash \/ UNCHANGED vars
  BY <1>4 DEF Crash, vars
<1> QED
  BY <1>1, <1>2, <1>3, <1>4, LoopsKeepTable DEF Next, UploadStep, DeleteStep

\* What a step does to the place an upload has chosen.
LEMMA SlotStep ==
  ASSUME Typed, [Next]_vars, NEW i \in Images, upload'[i] = "storing"
  PROVE  \/ slot'[i] \in 1..MaxImages
         \/ upload[i] = "storing" /\ slot'[i] = slot[i]
<1> USE DEF Typed, TypedRequests, uploads, Upload
<1>1. ASSUME NEW j \in Images, ChoosePosition(j)
      PROVE  slot'[i] \in 1..MaxImages \/ (upload[i] = "storing" /\ slot'[i] = slot[i])
  <2>1. Cardinality(Stored) \in Nat
    BY FiniteImages DEF Stored
  <2> QED
    BY <1>1, <2>1, LimitAssumption DEF ChoosePosition
<1>2. ASSUME NEW j \in Images,
             \/ CheckLimit(j) \/ SaveOriginal(j) \/ SaveOriginalFails(j) \/ StoreRow(j) \/ StoreRowFails(j)
             \/ ScheduleProcessing(j) \/ ScheduleFails(j) \/ MarkUnscheduled(j)
             \/ MarkUnscheduledFails(j) \/ UndoRow(j)
      PROVE  upload[i] = "storing" /\ slot'[i] = slot[i]
  BY <1>2 DEF CheckLimit, SaveOriginal, SaveOriginalFails, StoreRow, StoreRowFails,
     ScheduleProcessing, ScheduleFails, MarkUnscheduled, MarkUnscheduledFails, UndoRow
<1>3. ASSUME NEW j \in Images, RequestDelete(j) \/ DeleteStep(j) \/ Requeue(j)
      PROVE  UNCHANGED uploads
  BY <1>3 DEF RequestDelete, DeleteStep, ReadKey, DeleteRow, DeleteFails, DeleteFiles, Requeue
<1>4. ASSUME NEW w \in Workers, HandlerStep(w) PROVE UNCHANGED uploads
  BY <1>4 DEF HandlerStep, Deliver, Claim, ClaimRaises, Skip, GiveUp, Open, OpenFails, OpenRaises,
     Generate, GenerateFails, MarkReady, MarkReadyDeleted, MarkReadyRaises, MarkFailed,
     MarkFailedDeleted, MarkFailedRaises, Settle, Escape
<1>5. CASE Reorder \/ UNCHANGED vars
  BY <1>5 DEF Reorder, vars
<1>6. CASE Crash
  BY <1>6 DEF Crash, UploadOver
<1> QED
  BY <1>1, <1>2, <1>3, <1>4, <1>5, <1>6 DEF Next, UploadStep

LEMMA PlacedStep == Typed /\ Placed /\ [Next]_vars => Placed'
<1> SUFFICES ASSUME Typed, Placed, [Next]_vars PROVE Placed'
  OBVIOUS
<1> DEFINE Rows(T, f) == /\ \A i, j \in T : i # j => f[i] # f[j]
                         /\ \A i \in T : f[i] \in 1..MaxImages
                         /\ \A i \in Images : f[i] <= MaxImages
<1>1. Rows(Stored, position) /\ position \in [Images -> Nat] /\ Stored \subseteq Images
  BY DEF Placed, Typed, TypedRows, Stored
<1>2. \A i \in Images : upload'[i] = "storing" => slot'[i] \in 1..MaxImages
  BY SlotStep DEF Placed
<1>3. ASSUME NEW i \in Images, StoreRow(i) PROVE Rows(Stored', position')
  <2>1. slot[i] \in 1..MaxImages
    BY <1>3 DEF StoreRow, Upload, Placed
  <2>2. Stored' = Stored \cup {i}
    BY <1>3 DEF StoreRow, Stored, Typed, TypedRows
  <2>3. \A j \in Stored : position[j] # slot[i]
    BY <1>3 DEF StoreRow, PositionTaken
  <2>4. position' = [position EXCEPT ![i] = slot[i]]
    BY <1>3 DEF StoreRow
  <2> QED
    BY <1>1, <2>1, <2>2, <2>3, <2>4
<1>4. ASSUME NEW i \in Stored, EraseRow(i) PROVE Rows(Stored', position')
  <2> DEFINE left == Stored \ {i}
  <2>1. Stored' = left
    BY <1>4 DEF EraseRow, Stored, Typed, TypedRows
  <2>2. position' = Compacted(left)
    BY <1>4 DEF EraseRow
  <2>3. left \in SUBSET Images
    BY <1>1
  <2>4. Cardinality(left) \in Nat /\ Cardinality(left) <= MaxImages
    BY <1>1, <2>3, FiniteImages, PlacesBound, LimitAssumption
  <2>5. /\ \A j \in left : Compacted(left)[j] \in 1..Cardinality(left)
        /\ \A j, k \in left : j # k => Compacted(left)[j] # Compacted(left)[k]
    BY <1>1, <2>3, CompactedPlaces
  <2>6. \A j \in Images \ left : Compacted(left)[j] = 0
    BY DEF Compacted
  <2> HIDE DEF left
  <2> QED
    BY <2>1, <2>2, <2>3, <2>4, <2>5, <2>6, LimitAssumption
<1>5. ASSUME Reorder PROVE Rows(Stored', position')
  <2>1. Stored' = Stored
    BY <1>5 DEF Reorder, Stored
  <2>2. PICK p \in Bijection(Stored, 1..Cardinality(Stored)) :
          position' = [i \in Images |-> IF i \in Stored THEN p[i] ELSE position[i]]
    BY <1>5 DEF Reorder
  <2>3. /\ p \in [Stored -> 1..Cardinality(Stored)]
        /\ \A i, j \in Stored : p[i] = p[j] => i = j
    BY <2>2 DEF Bijection, Injection, IsInjective
  <2>4. Cardinality(Stored) \in Nat /\ Cardinality(Stored) <= MaxImages
    BY <1>1, FiniteImages, PlacesBound, LimitAssumption
  <2> QED
    BY <1>1, <2>1, <2>2, <2>3, <2>4, LimitAssumption
<1>6. ASSUME KeepsTable PROVE Rows(Stored', position')
  BY <1>1, <1>6 DEF KeepsTable
<1>7. Rows(Stored', position')
  BY <1>3, <1>4, <1>5, <1>6, TableStep
<1> QED
  BY <1>2, <1>7 DEF Placed

-----------------------------------------------------------------------------
(* What comes first. *)

Early == {"idle", "saving", "placing", "storing"}

\* A row and its event come from its upload, a deletion cleans up after a row that is gone,
\* and a loop handles an event that was saved.
Order ==
  /\ \A i \in Images : upload[i] \in Early => status[i] = "none" /\ event[i] = "none" /\ delete[i] = "idle"
  /\ \A i \in Images : upload[i] = "scheduling" => event[i] = "none"
  /\ \A i \in Images : delete[i] = "cleaning" => status[i] = "deleted"
  /\ \A w \in Workers : handler[w] # "idle" => event[image[w]] # "none"

LEMMA OrderInit == Init => Order
BY DEF Init, Order, Early

LEMMA UploadsGoOn ==
  ASSUME Typed, [Next]_vars, NEW i \in Images, upload[i] \notin Early PROVE upload'[i] \notin Early
<1> USE DEF Typed, TypedRequests, Early, uploads, Upload
<1>1. ASSUME NEW j \in Images, CheckLimit(j) \/ UploadStep(j) PROVE upload'[i] \notin Early
  BY <1>1 DEF CheckLimit, UploadStep, SaveOriginal, SaveOriginalFails, ChoosePosition, StoreRow,
     StoreRowFails, ScheduleProcessing, ScheduleFails, MarkUnscheduled, MarkUnscheduledFails, UndoRow
<1>2. ASSUME NEW j \in Images, RequestDelete(j) \/ DeleteStep(j) \/ Requeue(j) PROVE UNCHANGED uploads
  BY <1>2 DEF RequestDelete, DeleteStep, ReadKey, DeleteRow, DeleteFails, DeleteFiles, Requeue
<1>3. ASSUME NEW w \in Workers, HandlerStep(w) PROVE UNCHANGED uploads
  BY <1>3 DEF HandlerStep, Deliver, Claim, ClaimRaises, Skip, GiveUp, Open, OpenFails, OpenRaises,
     Generate, GenerateFails, MarkReady, MarkReadyDeleted, MarkReadyRaises, MarkFailed,
     MarkFailedDeleted, MarkFailedRaises, Settle, Escape
<1>4. ASSUME Reorder \/ UNCHANGED vars PROVE UNCHANGED uploads
  BY <1>4 DEF Reorder, vars
<1>5. CASE Crash
  BY <1>5 DEF Crash, UploadOver
<1> QED
  BY <1>1, <1>2, <1>3, <1>4, <1>5 DEF Next

\* An image that is not early is not stored again, and keeps its keys until its row is gone.
LEMMA RowsGoOn ==
  ASSUME Typed, [Next]_vars, NEW i \in Images, upload[i] \notin Early
  PROVE  /\ i \in Stored' => i \in Stored
         /\ i \in recorded => i \in recorded' \/ i \notin Stored'
<1>1. ASSUME NEW j \in Images, StoreRow(j) PROVE j # i /\ recorded' = recorded /\ Stored' \subseteq Stored \cup {j}
  BY <1>1 DEF StoreRow, Upload, Early, Stored, Typed, TypedRows
<1>2. ASSUME NEW j \in Stored, EraseRow(j) PROVE Stored' = Stored \ {j} /\ recorded' = recorded \ {j}
  BY <1>2 DEF EraseRow, Stored, Typed, TypedRows
<1>3. CASE Reorder
  BY <1>3 DEF Reorder, Stored
<1>4. CASE KeepsTable
  BY <1>4 DEF KeepsTable
<1> QED
  BY <1>1, <1>2, <1>3, <1>4, TableStep

LEMMA OrderStep == Typed /\ Order /\ [Next]_vars => Order'
<1> SUFFICES ASSUME Typed, Order, [Next]_vars PROVE Order'
  OBVIOUS
<1> USE DEF Typed, TypedRows, TypedOutbox, TypedRequests, TypedLoops, Order, Early, Stored,
            row, files, outbox, uploads, deletes, locals, handlers, Upload, Delete, Handler
<1>1. ASSUME NEW i \in Images,
             CheckLimit(i) \/ SaveOriginal(i) \/ SaveOriginalFails(i) \/ ChoosePosition(i)
      PROVE  Order'
  BY <1>1 DEF CheckLimit, SaveOriginal, SaveOriginalFails, ChoosePosition
<1>2. ASSUME NEW i \in Images, StoreRow(i) \/ StoreRowFails(i) PROVE Order'
  BY <1>2 DEF StoreRow, StoreRowFails
<1>3. ASSUME NEW i \in Images, ScheduleProcessing(i) \/ ScheduleFails(i) PROVE Order'
  BY <1>3 DEF ScheduleProcessing, ScheduleFails
<1>4. ASSUME NEW i \in Images, MarkUnscheduled(i) \/ MarkUnscheduledFails(i) PROVE Order'
  BY <1>4 DEF MarkUnscheduled, MarkUnscheduledFails, WriteFailed
<1>5. ASSUME NEW i \in Images, UndoRow(i) PROVE Order'
  BY <1>5 DEF UndoRow, EraseRow
<1>6. ASSUME NEW i \in Images, RequestDelete(i) \/ ReadKey(i) PROVE Order'
  BY <1>6 DEF RequestDelete, ReadKey
<1>7. ASSUME NEW i \in Images, DeleteRow(i) PROVE Order'
  BY <1>7 DEF DeleteRow, EraseRow
<1>8. ASSUME NEW i \in Images, DeleteFails(i) \/ DeleteFiles(i) \/ Requeue(i) PROVE Order'
  <2>1. CASE DeleteFails(i)
    BY <2>1 DEF DeleteFails
  <2>2. CASE DeleteFiles(i)
    BY <2>2 DEF DeleteFiles
  <2>3. CASE Requeue(i)
    BY <2>3 DEF Requeue
  <2> QED
    BY <1>8, <2>1, <2>2, <2>3
<1>9. ASSUME NEW w \in Workers, Deliver(w) \/ Skip(w) \/ GiveUp(w) \/ Open(w) \/ OpenFails(w) PROVE Order'
  BY <1>9 DEF Deliver, Skip, GiveUp, Open, OpenFails
<1>10. ASSUME NEW w \in Workers, Generate(w) \/ GenerateFails(w) \/ MarkReadyDeleted(w) \/ MarkFailedDeleted(w)
       PROVE  Order'
  BY <1>10 DEF Generate, GenerateFails, MarkReadyDeleted, MarkFailedDeleted
<1>11. ASSUME NEW w \in Workers, Claim(w) PROVE Order'
  BY <1>11 DEF Claim, CanClaim, Claimable, TakeRow
<1>12. ASSUME NEW w \in Workers, ClaimRaises(w) PROVE Order'
  BY <1>12 DEF ClaimRaises, CanClaim, Claimable, TakeRow, Escape, Return
<1>13. ASSUME NEW w \in Workers, OpenRaises(w) PROVE Order'
  BY <1>13 DEF OpenRaises, Escape, Return
<1>14. ASSUME NEW w \in Workers, MarkReady(w) \/ MarkReadyRaises(w) PROVE Order'
  BY <1>14 DEF MarkReady, MarkReadyRaises, WriteReady
<1>15. ASSUME NEW w \in Workers, MarkFailed(w) PROVE Order'
  BY <1>15 DEF MarkFailed, WriteFailed
<1>16. ASSUME NEW w \in Workers, MarkFailedRaises(w) PROVE Order'
  BY <1>16 DEF MarkFailedRaises, WriteFailed, Escape, Return
<1>17. ASSUME NEW w \in Workers, Settle(w) PROVE Order'
  BY <1>17 DEF Settle, Return
<1>18. CASE Reorder \/ UNCHANGED vars
  BY <1>18 DEF Reorder, vars
<1>19. CASE Crash
  BY <1>19 DEF Crash, UploadOver
<1> QED
  BY <1>1, <1>2, <1>3, <1>4, <1>5, <1>6, <1>7, <1>8, <1>9, <1>10, <1>11, <1>12, <1>13, <1>14, <1>15,
     <1>16, <1>17, <1>18, <1>19
  DEF Next, UploadStep, DeleteStep, HandlerStep

-----------------------------------------------------------------------------
(* Claims, for any number of loops. *)

Working == {"open", "generate", "ready", "fail"}

\* Until a call raises, a loop that works on a stored image has it PROCESSING and has it alone.
Claimed ==
  faults = 0 =>
    /\ \A i \in Images : upload[i] \notin {"unscheduled", "undoing"}
    /\ \A w \in Workers : handler[w] \in Working /\ image[w] \in Stored => status[image[w]] = "PROCESSING"
    /\ \A v, w \in Workers :
         handler[v] \in Working /\ handler[w] \in Working /\ image[v] = image[w] /\ image[w] \in Stored
         => v = w

\* And until the process crashes nothing else is PROCESSING.
Owned ==
  faults = 0 /\ crashes = 0 =>
    \A i \in Images : status[i] = "PROCESSING" => \E w \in Workers : image[w] = i /\ handler[w] \in Working

LEMMA ClaimedInit == Init => Claimed /\ Owned
BY DEF Init, Claimed, Owned, Working

\* Nothing has raised before a step after which nothing has.
LEMMA NoFault == Typed /\ [Next]_vars /\ faults' = 0 => faults = 0 /\ ~Fault /\ (crashes' = 0 => crashes = 0 /\ ~Crash)
BY BoundsStep DEF Typed, TypedBounds, bounds, Fault, Collision, Crash

LEMMA ClaimedStep ==
  Typed /\ Order /\ Claimed /\ Owned /\ [Next]_vars => (Claimed /\ Owned)'
<1> SUFFICES ASSUME Typed, Order, Claimed, Owned, [Next]_vars, faults' = 0 PROVE (Claimed /\ Owned)'
  BY DEF Claimed, Owned
<1>a. faults = 0 /\ ~Fault /\ (crashes' = 0 => crashes = 0 /\ ~Crash)
  BY NoFault
<1> DEFINE Good == /\ \A i \in Images : upload[i] \notin {"unscheduled", "undoing"}
                   /\ \A w \in Workers : handler[w] \in Working /\ image[w] \in Stored => status[image[w]] = "PROCESSING"
                   /\ \A v, w \in Workers :
                        handler[v] \in Working /\ handler[w] \in Working /\ image[v] = image[w] /\ image[w] \in Stored
                        => v = w
           Only == \A i \in Images : status[i] = "PROCESSING" => \E w \in Workers : image[w] = i /\ handler[w] \in Working
<1>b. Good /\ (crashes = 0 => Only)
  BY <1>a DEF Claimed, Owned
<1> SUFFICES Good' /\ (crashes' = 0 => Only')
  BY DEF Claimed, Owned
<1> USE DEF Typed, TypedRows, TypedRequests, TypedLoops, Order, Early, Working, Stored,
            row, uploads, locals, handlers, Upload, Handler
<1>1. ASSUME NEW i \in Images,
             \/ CheckLimit(i) \/ SaveOriginal(i) \/ SaveOriginalFails(i) \/ ChoosePosition(i)
             \/ StoreRowFails(i) \/ ScheduleProcessing(i)
      PROVE  Good' /\ (crashes' = 0 => Only')
  <2>1. UNCHANGED <<row, handlers>> /\ \A j \in Images : upload'[j] \in {upload[j], "saving", "placing", "storing", "rejected", "done"}
    BY <1>1 DEF CheckLimit, SaveOriginal, SaveOriginalFails, ChoosePosition, StoreRowFails, ScheduleProcessing
  <2> QED
    BY <2>1, <1>a, <1>b
<1>2. ASSUME NEW i \in Images, StoreRow(i) PROVE Good' /\ (crashes' = 0 => Only')
  BY <1>2, <1>a, <1>b DEF StoreRow
<1>3. ASSUME NEW i \in Images, ScheduleFails(i) \/ MarkUnscheduled(i) \/ MarkUnscheduledFails(i) \/ UndoRow(i) PROVE FALSE
  BY <1>3, <1>a, <1>b DEF ScheduleFails, MarkUnscheduled, MarkUnscheduledFails, UndoRow
<1>4. ASSUME NEW i \in Images, RequestDelete(i) \/ ReadKey(i) \/ DeleteFails(i) \/ DeleteFiles(i) \/ Requeue(i)
      PROVE  Good' /\ (crashes' = 0 => Only')
  <2>1. UNCHANGED <<row, handlers, uploads>>
    BY <1>4 DEF RequestDelete, ReadKey, DeleteFails, DeleteFiles, Requeue
  <2> QED
    BY <2>1, <1>a, <1>b
<1>5. ASSUME NEW i \in Images, DeleteRow(i) PROVE Good' /\ (crashes' = 0 => Only')
  <2>1. UNCHANGED <<handlers, uploads>> /\ status' \in {status, [status EXCEPT ![i] = "deleted"]}
    BY <1>5 DEF DeleteRow, EraseRow
  <2> QED
    BY <2>1, <1>a, <1>b
<1>6. ASSUME NEW w \in Workers, Deliver(w) \/ Skip(w) \/ GiveUp(w) \/ Settle(w)
      PROVE  Good' /\ (crashes' = 0 => Only')
  <2>1. /\ UNCHANGED <<row, uploads>> /\ handler[w] \notin Working /\ handler'[w] \notin Working
        /\ \A v \in Workers : v # w => handler'[v] = handler[v] /\ image'[v] = image[v]
    BY <1>6 DEF Deliver, Skip, GiveUp, Settle, Return
  <2> QED
    BY <2>1, <1>a, <1>b
<1>7. ASSUME NEW w \in Workers, Claim(w) PROVE Good' /\ (crashes' = 0 => Only')
  <2>1. /\ UNCHANGED <<image, uploads>> /\ handler' = [handler EXCEPT ![w] = "open"]
        /\ status' = [status EXCEPT ![image[w]] = "PROCESSING"]
        /\ status[image[w]] \in {"PENDING", "FAILED"} /\ image[w] \in Images
        /\ handler[w] \notin Working
    BY <1>7 DEF Claim, CanClaim, Claimable, TakeRow
  <2> QED
    BY <2>1, <1>a, <1>b
<1>8. ASSUME NEW w \in Workers, ClaimRaises(w) PROVE Good' /\ (crashes' = 0 => Only')
  <2>1. /\ UNCHANGED <<row, uploads>> /\ handler[w] \notin Working /\ handler'[w] \notin Working
        /\ \A v \in Workers : v # w => handler'[v] = handler[v] /\ image'[v] = image[v]
    BY <1>8, <1>a DEF ClaimRaises, Escape, Return
  <2> QED
    BY <2>1, <1>a, <1>b
<1>9. ASSUME NEW w \in Workers, OpenRaises(w) \/ MarkReadyRaises(w) \/ MarkFailedRaises(w) PROVE FALSE
  BY <1>9, <1>a DEF OpenRaises, MarkReadyRaises, MarkFailedRaises
<1>10. ASSUME NEW w \in Workers,
              \/ Open(w) \/ OpenFails(w) \/ Generate(w) \/ GenerateFails(w) \/ MarkReadyDeleted(w)
              \/ MarkFailedDeleted(w)
       PROVE  Good' /\ (crashes' = 0 => Only')
  <2>1. /\ UNCHANGED <<row, image, uploads>> /\ handler[w] \in Working
        /\ handler'[w] \in Working \/ image[w] \notin Stored
        /\ \A v \in Workers : v # w => handler'[v] = handler[v]
    BY <1>10 DEF Open, OpenFails, Generate, GenerateFails, MarkReadyDeleted, MarkFailedDeleted
  <2> QED
    BY <2>1, <1>a, <1>b
<1>11. ASSUME NEW w \in Workers, MarkReady(w) \/ MarkFailed(w) PROVE Good' /\ (crashes' = 0 => Only')
  <2>1. /\ UNCHANGED <<image, uploads>> /\ handler[w] \in Working /\ handler'[w] \notin Working
        /\ \A v \in Workers : v # w => handler'[v] = handler[v]
        /\ image[w] \in Stored
        /\ status' = [status EXCEPT ![image[w]] = "READY"] \/ status' = [status EXCEPT ![image[w]] = "FAILED"]
    BY <1>11 DEF MarkReady, MarkFailed, WriteReady, WriteFailed
  <2> QED
    BY <2>1, <1>a, <1>b
<1>12. CASE Reorder \/ UNCHANGED vars
  <2>1. UNCHANGED <<status, handlers, uploads>>
    BY <1>12 DEF Reorder, vars
  <2> QED
    BY <2>1, <1>a, <1>b
<1>13. CASE Crash
  <2>1. UNCHANGED row /\ \A w \in Workers : handler'[w] = "idle"
    BY <1>13 DEF Crash
  <2>2. \A i \in Images : upload'[i] \in UploadOver
    BY <1>13 DEF Crash, UploadOver
  <2> QED
    BY <2>1, <2>2, <1>13, <1>a, <1>b DEF UploadOver
<1> QED
  BY <1>1, <1>2, <1>3, <1>4, <1>5, <1>6, <1>7, <1>8, <1>9, <1>10, <1>11, <1>12, <1>13
  DEF Next, UploadStep, DeleteStep, HandlerStep

LEMMA ClaimsInvariant == Spec => [](Typed /\ Order /\ Claimed /\ Owned)
BY TypedInit, OrderInit, ClaimedInit, TypedStep, OrderStep, ClaimedStep, PTL DEF Spec

\* With any number of loops, exactly the images some handler works on are PROCESSING, until
\* a call raises or the process crashes: a claim excludes every other handler and is given
\* back (listing_image_repository.py:179-218).
THEOREM ClaimsExclude == Spec => [](faults = 0 /\ crashes = 0 => ProcessingIsOwned)
<1>1. Typed /\ Claimed /\ Owned => (faults = 0 /\ crashes = 0 => ProcessingIsOwned)
  BY DEF Typed, TypedRows, TypedLoops, Claimed, Owned, ProcessingIsOwned, Working, Stored
<1> QED
  BY <1>1, ClaimsInvariant, PTL

\* What ReadyIsFinal asks of one step.
ReadyStays == faults' = 0 => \A i \in Images : status[i] = "READY" => status'[i] \in {"READY", "deleted"}

LEMMA ReadyStep == Typed /\ Order /\ Claimed /\ [Next]_vars => [ReadyStays]_vars
<1> SUFFICES ASSUME Typed, Order, Claimed, Next, faults' = 0, NEW i \in Images, status[i] = "READY"
             PROVE  status'[i] \in {"READY", "deleted"}
  BY DEF ReadyStays
<1>a. faults = 0 /\ ~Fault
  BY NoFault
<1>b. /\ upload[i] \notin Early \cup {"unscheduled", "undoing"}
      /\ \A w \in Workers : handler[w] = "fail" => image[w] # i
  BY <1>a DEF Order, Claimed, Early, Working, Stored
<1> USE DEF Typed, TypedRows, TypedLoops, Early, row
<1>1. ASSUME NEW j \in Images, StoreRow(j) PROVE status'[i] = "READY"
  BY <1>1, <1>b DEF StoreRow, Upload
<1>2. ASSUME NEW j \in Images, MarkUnscheduled(j) \/ UndoRow(j) \/ DeleteRow(j)
      PROVE  status'[i] \in {"READY", "deleted"}
  BY <1>2, <1>b DEF MarkUnscheduled, UndoRow, DeleteRow, EraseRow, WriteFailed, Upload
<1>3. ASSUME NEW j \in Images,
             \/ CheckLimit(j) \/ SaveOriginal(j) \/ SaveOriginalFails(j) \/ ChoosePosition(j)
             \/ StoreRowFails(j) \/ ScheduleProcessing(j) \/ ScheduleFails(j)
             \/ MarkUnscheduledFails(j) \/ RequestDelete(j) \/ ReadKey(j) \/ DeleteFails(j)
             \/ DeleteFiles(j) \/ Requeue(j)
      PROVE  status' = status
  BY <1>3 DEF CheckLimit, SaveOriginal, SaveOriginalFails, ChoosePosition, StoreRowFails,
     ScheduleProcessing, ScheduleFails, MarkUnscheduledFails, RequestDelete, ReadKey, DeleteFails,
     DeleteFiles, Requeue
<1>4. ASSUME NEW w \in Workers, Claim(w) \/ ClaimRaises(w) PROVE status'[i] = "READY"
  BY <1>4, <1>a DEF Claim, ClaimRaises, CanClaim, Claimable, TakeRow
<1>5. ASSUME NEW w \in Workers,
             \/ Deliver(w) \/ Skip(w) \/ GiveUp(w) \/ Open(w) \/ OpenFails(w)
             \/ Generate(w) \/ GenerateFails(w) \/ MarkReadyDeleted(w) \/ MarkFailedDeleted(w)
             \/ Settle(w)
      PROVE  status' = status
  BY <1>5 DEF Deliver, Skip, GiveUp, Open, OpenFails, Generate, GenerateFails,
              MarkReadyDeleted, MarkFailedDeleted, Settle
<1>6. ASSUME NEW w \in Workers, MarkReady(w) \/ MarkFailed(w) PROVE status'[i] = "READY"
  BY <1>6, <1>b DEF MarkReady, MarkFailed, WriteReady, WriteFailed, Handler
<1>7. ASSUME NEW w \in Workers, OpenRaises(w) \/ MarkReadyRaises(w) \/ MarkFailedRaises(w) PROVE FALSE
  BY <1>7, <1>a DEF OpenRaises, MarkReadyRaises, MarkFailedRaises
<1>8. CASE Reorder \/ Crash
  BY <1>8 DEF Reorder, Crash
<1> QED
  BY <1>1, <1>2, <1>3, <1>4, <1>5, <1>6, <1>7, <1>8
  DEF Next, UploadStep, DeleteStep, HandlerStep

\* With any number of loops, crashes and deliveries an image that is READY stays so until a
\* call raises or it is deleted.
THEOREM ReadyImagesStay == Spec => ReadyIsFinal
BY ReadyStep, ClaimsInvariant, PTL DEF Spec, ReadyIsFinal, ReadyStays

-----------------------------------------------------------------------------
(* One loop, as the application starts it (app/dependencies.py:127). *)

OneLoop == \A v, w \in Workers : v = w

\* The event a loop handles waits for its result, and waits only while it may be retried.
Waiting ==
  /\ \A i \in Images : retries[i] <= MaxDeliveries
  /\ \A i \in Images : event[i] = "none" => retries[i] = 0
  /\ \A i \in Images : event[i] = "pending" => retries[i] < MaxDeliveries
  /\ \A w \in Workers : handler[w] # "idle" => event[image[w]] = "pending"

LEMMA WaitingInit == Init => Waiting
BY LimitAssumption DEF Init, Waiting

LEMMA WaitingStep ==
  ASSUME OneLoop
  PROVE  Typed /\ Order /\ Waiting /\ [Next]_vars => Waiting'
<1> SUFFICES ASSUME Typed, Order, Waiting, [Next]_vars PROVE Waiting'
  OBVIOUS
<1> USE LimitAssumption
    DEF OneLoop, Typed, TypedOutbox, TypedLoops, TypedRequests, Waiting, outbox, handlers, locals
<1>1. ASSUME NEW i \in Images,
             \/ CheckLimit(i) \/ SaveOriginal(i) \/ SaveOriginalFails(i) \/ ChoosePosition(i)
             \/ StoreRow(i) \/ StoreRowFails(i) \/ MarkUnscheduled(i) \/ MarkUnscheduledFails(i)
             \/ UndoRow(i) \/ RequestDelete(i) \/ DeleteStep(i)
      PROVE  Waiting'
  <2>1. UNCHANGED <<outbox, handlers>>
    BY <1>1 DEF CheckLimit, SaveOriginal, SaveOriginalFails, ChoosePosition, StoreRow, StoreRowFails,
       MarkUnscheduled, MarkUnscheduledFails, UndoRow, RequestDelete, DeleteStep, ReadKey, DeleteRow,
       DeleteFails, DeleteFiles
  <2> QED
    BY <2>1
<1>2. ASSUME NEW i \in Images, ScheduleProcessing(i) \/ ScheduleFails(i) PROVE Waiting'
  <2>1. event[i] = "none"
    BY <1>2 DEF ScheduleProcessing, ScheduleFails, Upload, Order
  <2>2. event' \in {event, [event EXCEPT ![i] = "pending"]} /\ retries' = retries /\ UNCHANGED handlers
    BY <1>2 DEF ScheduleProcessing, ScheduleFails
  <2> QED
    BY <2>1, <2>2
<1>3. ASSUME NEW i \in Images, Requeue(i) PROVE Waiting'
  BY <1>3 DEF Requeue
<1>4. ASSUME NEW w \in Workers, Deliver(w) PROVE Waiting'
  BY <1>4 DEF Deliver, Handler
<1>5. ASSUME NEW w \in Workers,
             \/ Claim(w) \/ Skip(w) \/ GiveUp(w) \/ Open(w) \/ OpenFails(w) \/ Generate(w)
             \/ GenerateFails(w) \/ MarkReady(w) \/ MarkReadyDeleted(w) \/ MarkReadyRaises(w)
             \/ MarkFailed(w) \/ MarkFailedDeleted(w)
      PROVE  Waiting'
  <2>1. UNCHANGED <<outbox, image>> /\ handler[w] # "idle" /\ \A v \in Workers : v # w => handler'[v] = handler[v]
    BY <1>5 DEF Claim, Skip, GiveUp, Open, OpenFails, Generate, GenerateFails, MarkReady,
       MarkReadyDeleted, MarkReadyRaises, MarkFailed, MarkFailedDeleted, Handler
  <2> QED
    BY <2>1
<1>6. ASSUME NEW w \in Workers, ClaimRaises(w) \/ OpenRaises(w) \/ MarkFailedRaises(w) PROVE Waiting'
  <2>1. PICK i \in Images : i = image[w] /\ event[i] = "pending"
    BY <1>6 DEF ClaimRaises, OpenRaises, MarkFailedRaises, Escape, Handler, Return
  <2>2. /\ handler' = [handler EXCEPT ![w] = "idle"]
        /\ retries' = [retries EXCEPT ![i] = retries[i] + 1]
        /\ event' = IF retries[i] + 1 >= MaxDeliveries THEN [event EXCEPT ![i] = "dead"] ELSE event
    BY <1>6, <2>1 DEF ClaimRaises, OpenRaises, MarkFailedRaises, Escape, Handler, Return
  <2>3. \A v \in Workers : handler'[v] = "idle"
    BY <2>2
  <2> QED
    BY <2>1, <2>2, <2>3
<1>7. ASSUME NEW w \in Workers, Settle(w) PROVE Waiting'
  BY <1>7 DEF Settle, Handler, Return
<1>8. CASE Reorder \/ Crash \/ UNCHANGED vars
  BY <1>8 DEF Reorder, Crash, vars
<1> QED
  BY <1>1, <1>2, <1>3, <1>4, <1>5, <1>6, <1>7, <1>8 DEF Next, UploadStep, HandlerStep

LEMMA PlacedInit == Init => Placed
BY LimitAssumption DEF Init, Placed, Stored

\* However many uploads pass the count check together, and whatever raises or crashes, the
\* images of a listing have different positions among 1 .. MaxImages, and so there are at
\* most MaxImages (domain/listings/images.py:16-18, the unique index).
THEOREM PositionsAreUnique == ASSUME OneLoop PROVE Spec => []PositionsUnique
<1>1. Typed /\ Placed /\ Waiting => PositionsUnique
  <2> SUFFICES ASSUME Typed, Placed, Waiting PROVE PositionsUnique
    OBVIOUS
  <2> USE DEF Typed, TypedRows, TypedFiles, TypedOutbox, TypedRequests, TypedLoops, TypedBounds
  <2>1. position \in [Images -> 0..MaxImages]
    BY LimitAssumption DEF Placed
  <2>2. retries \in [Images -> 0..MaxDeliveries]
    BY LimitAssumption DEF Waiting
  <2>3. TypeOK
    BY <2>1, <2>2 DEF TypeOK
  <2>4. Stored \in SUBSET Images
    BY DEF Stored
  <2>5. Cardinality(Stored) <= MaxImages
    BY <2>4, LimitAssumption, PlacesBound DEF Placed
  <2> QED
    BY <2>3, <2>5 DEF PositionsUnique, Placed
<1> QED
  BY <1>1, TypedInit, OrderInit, PlacedInit, WaitingInit, TypedStep, OrderStep, PlacedStep, WaitingStep, PTL
  DEF Spec

\* An upload is taken back only when a second call has raised.
TakenBack ==
  /\ \A i \in Images : upload[i] = "unscheduled" => faults >= 1
  /\ \A i \in Images : upload[i] = "undoing" => faults >= 2

LEMMA TakenBackInit == Init => TakenBack
BY DEF Init, TakenBack

LEMMA TakenBackStep == Typed /\ TakenBack /\ [Next]_vars => TakenBack'
<1> SUFFICES ASSUME Typed, TakenBack, [Next]_vars PROVE TakenBack'
  OBVIOUS
<1>a. faults \in Nat /\ faults' \in Nat /\ faults <= faults'
  BY BoundsStep DEF Typed, TypedBounds, Fault, Collision, Crash, bounds
<1> USE DEF Typed, TypedRequests, TakenBack, uploads, Upload
<1>1. ASSUME NEW i \in Images, ScheduleFails(i) \/ MarkUnscheduledFails(i) PROVE TakenBack'
  <2>1. CASE ScheduleFails(i)
    BY <1>a, <2>1 DEF ScheduleFails, Fault
  <2>2. CASE MarkUnscheduledFails(i)
    BY <1>a, <2>2 DEF MarkUnscheduledFails, Fault
  <2> QED
    BY <1>1, <2>1, <2>2
<1>2. ASSUME NEW i \in Images,
             \/ CheckLimit(i) \/ SaveOriginal(i) \/ SaveOriginalFails(i) \/ ChoosePosition(i)
             \/ StoreRow(i) \/ StoreRowFails(i) \/ ScheduleProcessing(i) \/ MarkUnscheduled(i) \/ UndoRow(i)
      PROVE  TakenBack'
  <2>1. \A j \in Images : upload'[j] = upload[j] \/ upload'[j] \notin {"unscheduled", "undoing"}
    BY <1>2 DEF CheckLimit, SaveOriginal, SaveOriginalFails, ChoosePosition, StoreRow, StoreRowFails,
       ScheduleProcessing, MarkUnscheduled, UndoRow
  <2> QED
    BY <1>a, <2>1
<1>3. ASSUME NEW i \in Images, RequestDelete(i) \/ DeleteStep(i) \/ Requeue(i) PROVE UNCHANGED uploads
  BY <1>3 DEF RequestDelete, DeleteStep, ReadKey, DeleteRow, DeleteFails, DeleteFiles, Requeue
<1>4. ASSUME NEW w \in Workers, HandlerStep(w) PROVE UNCHANGED uploads
  BY <1>4 DEF HandlerStep, Deliver, Claim, ClaimRaises, Skip, GiveUp, Open, OpenFails, OpenRaises,
     Generate, GenerateFails, MarkReady, MarkReadyDeleted, MarkReadyRaises, MarkFailed,
     MarkFailedDeleted, MarkFailedRaises, Settle, Escape
<1>5. ASSUME Reorder \/ UNCHANGED vars PROVE UNCHANGED uploads
  BY <1>5 DEF Reorder, vars
<1>6. CASE Crash
  <2>1. \A i \in Images : upload'[i] \notin {"unscheduled", "undoing"}
    BY <1>6 DEF Crash, UploadOver
  <2> QED
    BY <2>1
<1>7. CASE UNCHANGED uploads
  BY <1>a, <1>7
<1> QED
  BY <1>1, <1>2, <1>3, <1>4, <1>5, <1>6, <1>7 DEF Next, UploadStep

-----------------------------------------------------------------------------
(* Files. *)

InAttempt == {"open", "generate", "ready", "fail", "sleep"}

\* What the loop knows of its image: the attempt it is in is the last one claimed, the sizes
\* it has made are stored as long as the row is, and nobody else finishes the image.
Attempting ==
  \A w \in Workers :
    /\ handler[w] \in InAttempt => attempt[w] = attempts[image[w]]
    /\ handler[w] = "sleep" => attempt[w] < MaxAttempts
    /\ handler[w] = "sleep" => status[image[w]] \in {"FAILED", "deleted"}
    /\ handler[w] \in {"open", "generate", "ready"} => status[image[w]] # "READY"
    /\ handler[w] \in {"open", "generate", "ready", "fail"} => status[image[w]] # "none"
    /\ handler[w] \in {"generate", "ready"} /\ image[w] \in Stored => made[w] \subseteq thumbs[image[w]]
    /\ handler[w] = "ready" => made[w] = Sizes
    /\ handler[w] = "open" => made[w] = {}

LEMMA AttemptingInit == Init => Attempting
BY DEF Init, Attempting, InAttempt

LEMMA AttemptingStep ==
  ASSUME OneLoop
  PROVE  Typed /\ Order /\ Attempting /\ [Next]_vars => Attempting'
<1> SUFFICES ASSUME Typed, Order, Attempting, [Next]_vars PROVE Attempting'
  OBVIOUS
<1>a. \A i \in Images : upload[i] \in Early => \A w \in Workers : handler[w] = "idle" \/ image[w] # i
  BY DEF Order
<1> USE DEF OneLoop, Typed, TypedRows, TypedFiles, TypedLoops, Attempting, InAttempt, Stored, Early,
            row, files, handlers, locals, Upload, Delete, Handler
<1>1. ASSUME NEW i \in Images,
             \/ CheckLimit(i) \/ SaveOriginal(i) \/ SaveOriginalFails(i) \/ ChoosePosition(i)
             \/ StoreRowFails(i) \/ ScheduleProcessing(i) \/ ScheduleFails(i) \/ MarkUnscheduledFails(i)
             \/ RequestDelete(i) \/ ReadKey(i) \/ DeleteFails(i) \/ Requeue(i)
      PROVE  Attempting'
  <2>1. UNCHANGED <<row, thumbs, handlers>>
    BY <1>1 DEF CheckLimit, SaveOriginal, SaveOriginalFails, ChoosePosition, StoreRowFails,
       ScheduleProcessing, ScheduleFails, MarkUnscheduledFails, RequestDelete, ReadKey, DeleteFails, Requeue
  <2> QED
    BY <2>1
<1>2. ASSUME NEW i \in Images, StoreRow(i) PROVE Attempting'
  BY <1>2, <1>a DEF StoreRow
<1>3. ASSUME NEW i \in Images, MarkUnscheduled(i) PROVE Attempting'
  BY <1>3 DEF MarkUnscheduled, WriteFailed
<1>4. ASSUME NEW i \in Images, UndoRow(i) \/ DeleteRow(i) PROVE Attempting'
  <2>1. UNCHANGED <<attempts, thumbs, handlers>> /\ status' \in {status, [status EXCEPT ![i] = "deleted"]}
    BY <1>4 DEF UndoRow, DeleteRow, EraseRow
  <2> QED
    BY <2>1
<1>5. ASSUME NEW i \in Images, DeleteFiles(i) PROVE Attempting'
  <2>1. status[i] = "deleted"
    BY <1>5 DEF DeleteFiles, Order
  <2>2. UNCHANGED <<row, handlers>> /\ \A j \in Images : j # i => thumbs'[j] = thumbs[j]
    BY <1>5 DEF DeleteFiles, Unlink
  <2> QED
    BY <2>1, <2>2
<1>6. ASSUME NEW w \in Workers,
             Deliver(w) \/ Skip(w) \/ GiveUp(w) \/ MarkReadyDeleted(w) \/ MarkFailedDeleted(w) \/ Settle(w)
      PROVE  Attempting'
  <2>1. handler'[w] \notin InAttempt
    BY <1>6 DEF Deliver, Skip, GiveUp, MarkReadyDeleted, MarkFailedDeleted, Settle, Return
  <2> QED
    BY <2>1
<1>7. ASSUME NEW w \in Workers, ClaimRaises(w) \/ OpenRaises(w) \/ MarkFailedRaises(w) PROVE Attempting'
  <2>1. handler'[w] = "idle"
    BY <1>7 DEF ClaimRaises, OpenRaises, MarkFailedRaises, Escape, Return
  <2> QED
    BY <2>1
<1>8. ASSUME NEW w \in Workers, Claim(w) PROVE Attempting'
  <2> PICK i \in Images : i = image[w]
    BY <1>8 DEF Claim
  <2>1. /\ handler'[w] = "open" /\ attempt'[w] = attempts[i] + 1 /\ image' = image
        /\ attempts'[i] = attempts[i] + 1 /\ status'[i] = "PROCESSING" /\ made'[w] = {}
    BY <1>8 DEF Claim, TakeRow
  <2> QED
    BY <2>1
<1>9. ASSUME NEW w \in Workers, Open(w) \/ OpenFails(w) PROVE Attempting'
  BY <1>9 DEF Open, OpenFails
<1>10. ASSUME NEW w \in Workers, Generate(w) \/ GenerateFails(w) PROVE Attempting'
  <2>1. CASE Generate(w)
    <3>1. PICK s \in Sizes \ made[w] :
            /\ made' = [made EXCEPT ![w] = @ \cup {s}]
            /\ thumbs' = [thumbs EXCEPT ![image[w]] = @ \cup {s}]
            /\ handler' = IF Sizes \ made[w] = {s} THEN [handler EXCEPT ![w] = "ready"] ELSE handler
      BY <2>1 DEF Generate
    <3>2. UNCHANGED <<row, image, attempt>> /\ handler[w] = "generate" /\ image[w] \in Images
      BY <2>1 DEF Generate
    <3>3. made'[w] = made[w] \cup {s} /\ thumbs'[image[w]] = thumbs[image[w]] \cup {s}
      BY <3>1, <3>2
    <3>4. handler'[w] = "ready" => made'[w] = Sizes
      BY <3>1, <3>2, <3>3
    <3> QED
      BY <3>1, <3>2, <3>3, <3>4
  <2>2. CASE GenerateFails(w)
    BY <2>2 DEF GenerateFails
  <2> QED
    BY <1>10, <2>1, <2>2
<1>11. ASSUME NEW w \in Workers, MarkReady(w) \/ MarkReadyRaises(w) PROVE Attempting'
  BY <1>11 DEF MarkReady, MarkReadyRaises, WriteReady
<1>12. ASSUME NEW w \in Workers, MarkFailed(w) PROVE Attempting'
  BY <1>12, LimitAssumption DEF MarkFailed, WriteFailed
<1>13. CASE Crash
  BY <1>13 DEF Crash
<1>14. CASE Reorder \/ UNCHANGED vars
  BY <1>14 DEF Reorder, vars
<1> QED
  BY <1>1, <1>2, <1>3, <1>4, <1>5, <1>6, <1>7, <1>8, <1>9, <1>10, <1>11, <1>12, <1>13, <1>14
  DEF Next, UploadStep, DeleteStep, HandlerStep

\* A loop cleans up only after a row that is gone: its attempt was the last that may claim it.
LEMMA CleanUpIsLate ==
  ASSUME Typed, Attempting, NEW w \in Workers, GiveUp(w) \/ MarkReadyDeleted(w) \/ MarkFailedDeleted(w)
  PROVE  /\ image[w] \in Images \ Stored /\ handler[w] # "idle" /\ UNCHANGED row
         /\ original' = original \ {image[w]}
         /\ thumbs' = [thumbs EXCEPT ![image[w]] = @ \ made[w]]
<1> USE DEF Typed, TypedRows, TypedLoops, Attempting, InAttempt, CleanUp, row, Handler
<1>1. CASE GiveUp(w)
  <2>1. handler[w] = "sleep" /\ ~CanClaim(image[w]) /\ image[w] \in Images
    BY <1>1 DEF GiveUp
  <2>2. image[w] \notin Stored
    BY <2>1, LimitAssumption DEF CanClaim, Claimable, Stored
  <2> QED
    BY <1>1, <2>1, <2>2 DEF GiveUp, CleanUp, Unlink
<1>2. CASE MarkReadyDeleted(w) \/ MarkFailedDeleted(w)
  BY <1>2 DEF MarkReadyDeleted, MarkFailedDeleted, CleanUp, Unlink
<1> QED
  BY <1>1, <1>2

\* The original is there from before the row until after it, unless a second call raised; a
\* READY row has its thumbnails.
Kept ==
  /\ \A i \in Images : upload[i] \in {"placing", "storing"} => i \in original
  /\ faults <= 1 => Stored \subseteq original
  /\ \A i \in Images : status[i] = "READY" => i \in recorded /\ thumbs[i] = Sizes

LEMMA KeptInit == Init => Kept
BY DEF Init, Kept, Stored

LEMMA KeptStep ==
  ASSUME OneLoop
  PROVE  Typed /\ Order /\ TakenBack /\ Attempting /\ Kept /\ [Next]_vars => Kept'
<1> SUFFICES ASSUME Typed, Order, TakenBack, Attempting, Kept, [Next]_vars PROVE Kept'
  OBVIOUS
<1>a. faults \in Nat /\ faults' \in Nat /\ faults <= faults'
  BY BoundsStep DEF Typed, TypedBounds, Fault, Collision, Crash, bounds
<1>b. faults' <= 1 => Stored \subseteq original
  BY <1>a DEF Kept
<1>c. \A w \in Workers : handler[w] # "idle" => upload[image[w]] \notin Early
  BY DEF Order, Typed, TypedLoops
<1> USE DEF Typed, TypedRows, TypedFiles, TypedRequests, TypedLoops, Kept, Stored, Early,
            row, files, uploads, Upload, Delete, Handler
<1>1. ASSUME NEW i \in Images, SaveOriginal(i) PROVE Kept'
  BY <1>1, <1>b DEF SaveOriginal
<1>2. ASSUME NEW i \in Images,
             \/ CheckLimit(i) \/ SaveOriginalFails(i) \/ ChoosePosition(i) \/ ScheduleProcessing(i)
             \/ ScheduleFails(i)
      PROVE  Kept'
  <2>1. /\ UNCHANGED <<row, original, thumbs>>
        /\ \A j \in Images : upload'[j] \in {"placing", "storing"} => upload[j] \in {"placing", "storing"}
    BY <1>2 DEF CheckLimit, SaveOriginalFails, ChoosePosition, ScheduleProcessing, ScheduleFails
  <2> QED
    BY <2>1, <1>b
<1>3. ASSUME NEW i \in Images, StoreRow(i) PROVE Kept'
  BY <1>3, <1>b DEF StoreRow
<1>4. ASSUME NEW i \in Images, StoreRowFails(i) PROVE Kept'
  <2>1. i \notin Stored
    BY <1>4 DEF StoreRowFails, Order
  <2> QED
    BY <1>4, <1>b, <2>1 DEF StoreRowFails
<1>5. ASSUME NEW i \in Images, MarkUnscheduled(i) PROVE Kept'
  BY <1>5, <1>b DEF MarkUnscheduled, WriteFailed
<1>6. ASSUME NEW i \in Images, MarkUnscheduledFails(i) PROVE Kept'
  <2>1. ~(faults' <= 1)
    BY <1>6, <1>a DEF MarkUnscheduledFails, TakenBack, Fault
  <2>2. /\ UNCHANGED <<row, thumbs>> /\ original' \in {original, original \ {i}}
        /\ upload[i] = "unscheduled" /\ upload' \in {[upload EXCEPT ![i] = "undoing"], [upload EXCEPT ![i] = "rejected"]}
    BY <1>6 DEF MarkUnscheduledFails
  <2> QED
    BY <2>1, <2>2
<1>7. ASSUME NEW i \in Images, UndoRow(i) \/ DeleteRow(i) PROVE Kept'
  <2>1. /\ UNCHANGED files
        /\ \A j \in Images : upload'[j] \in {"placing", "storing"} => upload[j] \in {"placing", "storing"}
        /\ UNCHANGED row \/ (status' = [status EXCEPT ![i] = "deleted"] /\ recorded' = recorded \ {i})
    BY <1>7 DEF UndoRow, DeleteRow, EraseRow
  <2> QED
    BY <2>1, <1>b
<1>8. ASSUME NEW i \in Images, RequestDelete(i) \/ ReadKey(i) \/ DeleteFails(i) \/ Requeue(i) PROVE Kept'
  <2>1. UNCHANGED <<row, files, uploads>>
    BY <1>8 DEF RequestDelete, ReadKey, DeleteFails, Requeue
  <2> QED
    BY <2>1, <1>b
<1>9. ASSUME NEW i \in Images, DeleteFiles(i) PROVE Kept'
  <2>1. status[i] = "deleted" /\ upload[i] \notin Early
    BY <1>9 DEF DeleteFiles, Order
  <2>2. /\ UNCHANGED <<row, uploads>> /\ original' = original \ {i}
        /\ \A j \in Images : j # i => thumbs'[j] = thumbs[j]
    BY <1>9 DEF DeleteFiles, Unlink
  <2> QED
    BY <2>1, <2>2, <1>b
<1>10. ASSUME NEW w \in Workers,
              Deliver(w) \/ Skip(w) \/ Open(w) \/ OpenFails(w) \/ OpenRaises(w) \/ Settle(w)
       PROVE  Kept'
  <2>1. UNCHANGED <<row, files, uploads>>
    BY <1>10 DEF Deliver, Skip, Open, OpenFails, OpenRaises, Settle, Escape
  <2> QED
    BY <2>1, <1>b
<1>11. ASSUME NEW w \in Workers, GiveUp(w) \/ MarkReadyDeleted(w) \/ MarkFailedDeleted(w) PROVE Kept'
  <2>1. UNCHANGED uploads
    BY <1>11 DEF GiveUp, MarkReadyDeleted, MarkFailedDeleted
  <2>2. /\ image[w] \in Images \ Stored /\ handler[w] # "idle" /\ UNCHANGED row
        /\ original' = original \ {image[w]}
        /\ thumbs' = [thumbs EXCEPT ![image[w]] = @ \ made[w]]
    BY <1>11, CleanUpIsLate
  <2>3. \A i \in Images : upload[i] \in {"placing", "storing"} => image[w] # i
    BY <1>c, <2>2
  <2> QED
    BY <2>1, <2>2, <2>3, <1>b
<1>12. ASSUME NEW w \in Workers, Claim(w) \/ ClaimRaises(w) PROVE Kept'
  <2>1. UNCHANGED <<files, uploads>>
    BY <1>12 DEF Claim, ClaimRaises, Escape
  <2>2. \/ UNCHANGED row
        \/ image[w] \in Stored /\ status' = [status EXCEPT ![image[w]] = "PROCESSING"] /\ recorded' = recorded
    BY <1>12 DEF Claim, ClaimRaises, CanClaim, Claimable, TakeRow
  <2> QED
    BY <2>1, <2>2, <1>b
<1>13. ASSUME NEW w \in Workers, Generate(w) \/ GenerateFails(w) PROVE Kept'
  <2>1. status[image[w]] # "READY" /\ UNCHANGED <<row, original, uploads>>
    BY <1>13 DEF Generate, GenerateFails, Attempting
  <2>2. \A i \in Images : i # image[w] => thumbs'[i] = thumbs[i]
    BY <1>13 DEF Generate, GenerateFails
  <2> QED
    BY <2>1, <2>2, <1>b
<1>14. ASSUME NEW w \in Workers, MarkReady(w) \/ MarkReadyRaises(w) PROVE Kept'
  <2>1. UNCHANGED <<files, uploads>> /\ handler[w] = "ready"
    BY <1>14 DEF MarkReady, MarkReadyRaises
  <2>2. image[w] \in Stored => thumbs[image[w]] = Sizes
    <3>1. image[w] \in Stored => Sizes \subseteq thumbs[image[w]]
      BY <2>1 DEF Attempting
    <3>2. thumbs[image[w]] \subseteq Sizes
      BY <2>1
    <3> QED
      BY <3>1, <3>2
  <2>3. \/ UNCHANGED row
        \/ /\ image[w] \in Stored /\ status' = [status EXCEPT ![image[w]] = "READY"]
           /\ recorded' = recorded \cup {image[w]}
    BY <1>14 DEF MarkReady, MarkReadyRaises, WriteReady
  <2> QED
    BY <2>1, <2>2, <2>3, <1>b
<1>15. ASSUME NEW w \in Workers, MarkFailed(w) \/ MarkFailedRaises(w) PROVE Kept'
  <2>1. UNCHANGED <<files, uploads>>
    BY <1>15 DEF MarkFailed, MarkFailedRaises, Escape
  <2>2. \/ UNCHANGED row
        \/ /\ image[w] \in Stored /\ status' = [status EXCEPT ![image[w]] = "FAILED"]
           /\ recorded' = recorded
    BY <1>15 DEF MarkFailed, MarkFailedRaises, WriteFailed
  <2> QED
    BY <2>1, <2>2, <1>b
<1>16. CASE Reorder \/ UNCHANGED vars
  <2>1. UNCHANGED <<status, recorded, files, uploads>>
    BY <1>16 DEF Reorder, vars
  <2> QED
    BY <2>1, <1>b
<1>17. CASE Crash
  <2>1. UNCHANGED <<row, original>> /\ \A i \in Images : upload'[i] \notin {"placing", "storing"}
    BY <1>17 DEF Crash, UploadOver
  <2>2. PICK cut \in Torn : thumbs' = [i \in Images |-> {s \in thumbs[i] : <<i, s>> \notin cut}]
    BY <1>17 DEF Crash
  <2>3. ASSUME NEW i \in Images, status[i] = "READY" PROVE thumbs'[i] = thumbs[i]
    <3>1. \A s \in Sizes : <<i, s>> \notin cut
      BY <2>3, TornFiles, SizesAssumption DEF Attempting
    <3> QED
      BY <2>2, <3>1
  <2> QED
    BY <2>1, <2>3, <1>b
<1> QED
  BY <1>1, <1>2, <1>3, <1>4, <1>5, <1>6, <1>7, <1>8, <1>9, <1>10, <1>11, <1>12, <1>13, <1>14, <1>15,
     <1>16, <1>17
  DEF Next, UploadStep, DeleteStep, HandlerStep

\* All of it, for one loop.
FilesInv == Typed /\ Order /\ Claimed /\ Owned /\ TakenBack /\ Attempting /\ Kept

LEMMA FilesInit == Init => FilesInv
BY TypedInit, OrderInit, ClaimedInit, TakenBackInit, AttemptingInit, KeptInit DEF FilesInv

LEMMA FilesStep == ASSUME OneLoop PROVE FilesInv /\ [Next]_vars => FilesInv'
BY TypedStep, OrderStep, ClaimedStep, TakenBackStep, AttemptingStep, KeptStep DEF FilesInv

\* Whatever attempts, faults, crashes and repeated deliveries came before, a READY image has
\* all its thumbnails, and with at most one call that raised its original
\* (image_uploaded_handler.py:63, 101, 149-151).
THEOREM ReadyImagesHaveFiles == ASSUME OneLoop PROVE Spec => []ReadyHasFiles
<1>1. FilesInv => ReadyHasFiles
  BY DEF FilesInv, Kept, ReadyHasFiles, Stored
<1> QED
  BY <1>1, FilesInit, FilesStep, PTL DEF Spec

-----------------------------------------------------------------------------
(* What is left over, until a call raises. *)

\* A row has its keys only while it is READY.
Recorded == faults = 0 => \A i \in recorded : status[i] = "READY"

LEMMA RecordedStep == Typed /\ Order /\ Claimed /\ Recorded /\ [Next]_vars => Recorded'
<1> SUFFICES ASSUME Typed, Order, Claimed, Recorded, [Next]_vars, faults' = 0
             PROVE  \A i \in recorded' : status'[i] = "READY"
  BY DEF Recorded
<1>a. (\A i \in recorded : status[i] = "READY") /\ faults = 0 /\ ~Fault
  BY NoFault DEF Recorded
<1>b. \A i \in recorded : status'[i] \in {"READY", "deleted"}
  BY <1>a, ReadyStep DEF ReadyStays, Typed, TypedRows, vars, row
<1> USE DEF Typed, TypedRows, row
<1>1. ASSUME NEW i \in Images, StoreRow(i) \/ MarkUnscheduled(i) PROVE recorded' = recorded /\ \A j \in Images : status'[j] # "deleted" \/ status'[j] = status[j]
  BY <1>1 DEF StoreRow, MarkUnscheduled, WriteFailed
<1>2. ASSUME NEW i \in Images, UndoRow(i) \/ DeleteRow(i)
      PROVE  \/ UNCHANGED row
             \/ recorded' = recorded \ {i} /\ status' = [status EXCEPT ![i] = "deleted"]
  BY <1>2 DEF UndoRow, DeleteRow, EraseRow
<1>3. ASSUME NEW i \in Images,
             \/ CheckLimit(i) \/ SaveOriginal(i) \/ SaveOriginalFails(i) \/ ChoosePosition(i)
             \/ StoreRowFails(i) \/ ScheduleProcessing(i) \/ ScheduleFails(i)
             \/ MarkUnscheduledFails(i) \/ RequestDelete(i) \/ ReadKey(i) \/ DeleteFails(i)
             \/ DeleteFiles(i) \/ Requeue(i)
      PROVE  UNCHANGED row
  BY <1>3 DEF CheckLimit, SaveOriginal, SaveOriginalFails, ChoosePosition, StoreRowFails,
     ScheduleProcessing, ScheduleFails, MarkUnscheduledFails, RequestDelete, ReadKey, DeleteFails,
     DeleteFiles, Requeue
<1>4. ASSUME NEW w \in Workers, Claim(w) \/ ClaimRaises(w) \/ MarkFailed(w)
      PROVE  recorded' = recorded /\ \A j \in Images : status'[j] # "deleted" \/ status'[j] = status[j]
  BY <1>4 DEF Claim, ClaimRaises, TakeRow, MarkFailed, WriteFailed
<1>5. ASSUME NEW w \in Workers,
             \/ Deliver(w) \/ Skip(w) \/ GiveUp(w) \/ Open(w) \/ OpenFails(w)
             \/ Generate(w) \/ GenerateFails(w) \/ MarkReadyDeleted(w) \/ MarkFailedDeleted(w)
             \/ Settle(w)
      PROVE  UNCHANGED row
  BY <1>5 DEF Deliver, Skip, GiveUp, Open, OpenFails, Generate, GenerateFails,
              MarkReadyDeleted, MarkFailedDeleted, Settle
<1>6. ASSUME NEW w \in Workers, MarkReady(w)
      PROVE  recorded' = recorded \cup {image[w]} /\ status' = [status EXCEPT ![image[w]] = "READY"] /\ image[w] \in Images
  BY <1>6 DEF MarkReady, WriteReady, Stored
<1>7. ASSUME NEW w \in Workers, OpenRaises(w) \/ MarkReadyRaises(w) \/ MarkFailedRaises(w) PROVE FALSE
  BY <1>7, <1>a DEF OpenRaises, MarkReadyRaises, MarkFailedRaises
<1>8. ASSUME Reorder \/ Crash \/ UNCHANGED vars PROVE UNCHANGED <<status, recorded>>
  BY <1>8 DEF Reorder, Crash, vars
<1>9. \/ UNCHANGED <<status, recorded>>
      \/ recorded' = recorded /\ \A j \in Images : status'[j] # "deleted" \/ status'[j] = status[j]
      \/ \E i \in Images : recorded' = recorded \ {i} /\ status' = [status EXCEPT ![i] = "deleted"]
      \/ \E i \in Images : recorded' = recorded \cup {i} /\ status' = [status EXCEPT ![i] = "READY"]
  BY <1>1, <1>2, <1>3, <1>4, <1>5, <1>6, <1>7, <1>8 DEF Next, UploadStep, DeleteStep, HandlerStep
<1> QED
  BY <1>9, <1>a, <1>b

Calm == faults = 0 /\ crashes = 0

\* An original without a row is about to get one, is taken away by its deletion, or belongs to
\* an upload that was refused for its position.
Led ==
  \A i \in Images : i \in original /\ i \notin Stored =>
    \/ upload[i] \in {"placing", "storing"}
    \/ upload[i] = "rejected" /\ slot[i] > MaxImages
    \/ delete[i] = "cleaning"

\* Thumbnails that no READY row leads to are those the loop has made in this attempt, or those
\* whose keys a deletion did not find.
Unfinished ==
  /\ \A i \in Images : status[i] \in {"none", "PENDING", "FAILED"} => thumbs[i] = {} /\ keys[i] = {}
  /\ \A w \in Workers : handler[w] \in Working =>
       thumbs[image[w]] = made[w] /\ keys[image[w]] = {}
  /\ \A w \in Workers : handler[w] \in {"open", "fail", "sleep"} => made[w] = {}

DeletedThumbs ==
  \A i \in Images : status[i] = "deleted" =>
    /\ delete[i] \in {"cleaning", "done"}
    /\ \/ \E w \in Workers : handler[w] \in Working /\ image[w] = i
       \/ thumbs[i] = {}
       \/ delete[i] = "cleaning" /\ thumbs[i] = Sizes
       \/ thumbs[i] = Sizes \ keys[i]

LEMMA LedStep ==
  ASSUME OneLoop
  PROVE  FilesInv /\ Led /\ Next /\ ~Fault /\ ~Crash /\ faults = 0 => Led'
<1> SUFFICES ASSUME FilesInv, Led, Next, ~Fault, ~Crash, faults = 0 PROVE Led'
  OBVIOUS
<1> USE DEF Typed, TypedRows, TypedFiles, TypedRequests, TypedLoops, FilesInv, Led, Stored,
            row, files, uploads, deletes, Upload, Delete
<1>1. ASSUME NEW i \in Images, CheckLimit(i) \/ SaveOriginal(i) \/ SaveOriginalFails(i) PROVE Led'
  BY <1>1 DEF CheckLimit, SaveOriginal, SaveOriginalFails, Order, Early
<1>2. ASSUME NEW i \in Images, ChoosePosition(i) PROVE Led'
  BY <1>2 DEF ChoosePosition
<1>3. ASSUME NEW i \in Images, StoreRow(i) \/ StoreRowFails(i) PROVE Led'
  BY <1>3 DEF StoreRow, StoreRowFails
<1>4. ASSUME NEW i \in Images, ScheduleProcessing(i) PROVE Led'
  BY <1>4 DEF ScheduleProcessing
<1>5. ASSUME NEW i \in Images, ScheduleFails(i) \/ MarkUnscheduled(i) \/ MarkUnscheduledFails(i) \/ UndoRow(i) \/ DeleteFails(i)
      PROVE  FALSE
  BY <1>5 DEF ScheduleFails, MarkUnscheduled, MarkUnscheduledFails, UndoRow, DeleteFails, Claimed
<1>6. ASSUME NEW i \in Images, RequestDelete(i) \/ ReadKey(i) PROVE Led'
  <2>1. /\ UNCHANGED <<row, files, uploads>>
        /\ \A j \in Images : delete[j] = "cleaning" => delete'[j] = "cleaning"
    BY <1>6 DEF RequestDelete, ReadKey
  <2> QED
    BY <2>1
<1>7. ASSUME NEW i \in Images, DeleteRow(i) PROVE Led'
  BY <1>7 DEF DeleteRow, EraseRow
<1>8. ASSUME NEW i \in Images, DeleteFiles(i) \/ Requeue(i) PROVE Led'
  BY <1>8 DEF DeleteFiles, Requeue, Unlink
<1>9. ASSUME NEW w \in Workers, HandlerStep(w) PROVE original' \subseteq original /\ UNCHANGED <<uploads, deletes>>
  BY <1>9 DEF HandlerStep, Deliver, Claim, ClaimRaises, Skip, GiveUp, Open, OpenFails, OpenRaises,
     Generate, GenerateFails, MarkReady, MarkReadyDeleted, MarkReadyRaises, MarkFailed,
     MarkFailedDeleted, MarkFailedRaises, Settle, Escape, CleanUp, Return, Unlink
<1>10. ASSUME NEW w \in Workers, HandlerStep(w) PROVE Led'
  <2>1. UNCHANGED Stored
    BY <1>10, LoopsKeepTable DEF KeepsTable
  <2> HIDE DEF Stored
  <2> QED
    BY <1>9, <1>10, <2>1
<1>11. CASE Reorder
  BY <1>11 DEF Reorder
<1> QED
  BY <1>1, <1>2, <1>3, <1>4, <1>5, <1>6, <1>7, <1>8, <1>10, <1>11 DEF Next, UploadStep, DeleteStep

Thumbs == Unfinished /\ DeletedThumbs

LEMMA ThumbsStep ==
  ASSUME OneLoop
  PROVE  FilesInv /\ Recorded /\ Thumbs /\ Next /\ ~Fault /\ ~Crash /\ Calm => Thumbs'
<1> SUFFICES ASSUME FilesInv, Recorded, Thumbs, Next, ~Fault, ~Crash, Calm PROVE Thumbs'
  OBVIOUS
<1>a. \A i \in Images : upload[i] \notin {"unscheduled", "undoing"}
  BY DEF FilesInv, Claimed, Calm
<1>b. \A w \in Workers : handler[w] \in Working /\ image[w] \in Stored => status[image[w]] = "PROCESSING"
  BY DEF FilesInv, Claimed, Calm
<1>c. \A i \in Images : status[i] = "PROCESSING" => \E w \in Workers : image[w] = i /\ handler[w] \in Working
  BY DEF FilesInv, Owned, Calm
<1>d. \A i \in recorded : status[i] = "READY"
  BY DEF Recorded, Calm
<1>e. \A w \in Workers : handler[w] # "idle" => upload[image[w]] \notin Early
  BY DEF FilesInv, Order, Typed, TypedLoops
<1>f. \A w \in Workers : handler[w] \in Working => handler[w] # "idle" /\ image[w] \in Images
  BY DEF FilesInv, Typed, TypedLoops, Working
<1> USE DEF OneLoop, FilesInv, Typed, TypedRows, TypedFiles, TypedRequests, TypedLoops, Thumbs, Unfinished,
            DeletedThumbs, Working, Stored, row, files, deletes, handlers, locals, Upload, Delete, Handler
<1>1. ASSUME NEW i \in Images,
             \/ CheckLimit(i) \/ SaveOriginal(i) \/ SaveOriginalFails(i) \/ ChoosePosition(i)
             \/ StoreRowFails(i) \/ ScheduleProcessing(i) \/ Requeue(i)
      PROVE  Thumbs'
  <2>1. UNCHANGED <<row, thumbs, deletes, handlers>>
    BY <1>1 DEF CheckLimit, SaveOriginal, SaveOriginalFails, ChoosePosition, StoreRowFails,
       ScheduleProcessing, Requeue
  <2> QED
    BY <2>1
<1>2. ASSUME NEW i \in Images, StoreRow(i) PROVE Thumbs'
  <2>1. status[i] = "none"
    BY <1>2 DEF StoreRow, Order, Early
  <2>2. UNCHANGED <<thumbs, deletes, handlers>> /\ status' = [status EXCEPT ![i] = "PENDING"]
    BY <1>2 DEF StoreRow
  <2> QED
    BY <2>1, <2>2
<1>3. ASSUME NEW i \in Images, ScheduleFails(i) \/ MarkUnscheduled(i) \/ MarkUnscheduledFails(i) \/ UndoRow(i) \/ DeleteFails(i)
      PROVE  FALSE
  BY <1>3, <1>a DEF ScheduleFails, MarkUnscheduled, MarkUnscheduledFails, UndoRow, DeleteFails
<1>4. ASSUME NEW i \in Images, RequestDelete(i) PROVE Thumbs'
  BY <1>4 DEF RequestDelete
<1>5. ASSUME NEW i \in Images, ReadKey(i) PROVE Thumbs'
  <2>1. UNCHANGED <<row, thumbs, handlers>> /\ delete[i] = "reading"
    BY <1>5 DEF ReadKey
  <2>2. /\ i \notin recorded => keys' = keys
        /\ \A j \in Images : j # i => keys'[j] = keys[j] /\ delete'[j] = delete[j]
    BY <1>5 DEF ReadKey
  <2>3. status[i] # "deleted"
    BY <2>1
  <2>4. \A w \in Workers : handler[w] \in Working => keys'[image[w]] = {}
    BY <1>b, <1>d, <1>f, <2>2, <2>3
  <2>5. \A j \in Images : status[j] \in {"none", "PENDING", "FAILED"} => keys'[j] = {}
    BY <1>d, <2>2
  <2> QED
    BY <2>1, <2>2, <2>3, <2>4, <2>5
<1>6. ASSUME NEW i \in Images, DeleteRow(i) PROVE Thumbs'
  <2>1. CASE i \notin Stored
    <3>1. UNCHANGED <<row, thumbs, keys, handlers>> /\ delete[i] = "erasing" /\ delete' = [delete EXCEPT ![i] = "done"]
      BY <1>6, <2>1 DEF DeleteRow
    <3> QED
      BY <3>1
  <2>2. CASE i \in Stored
    <3>1. /\ UNCHANGED <<thumbs, keys, handlers>> /\ delete' = [delete EXCEPT ![i] = "cleaning"]
          /\ status' = [status EXCEPT ![i] = "deleted"]
      BY <1>6, <2>2 DEF DeleteRow, EraseRow
    <3>2. \/ \E w \in Workers : handler[w] \in Working /\ image[w] = i
          \/ thumbs[i] = {}
          \/ thumbs[i] = Sizes
      BY <2>2, <1>c DEF Kept
    <3> QED
      BY <3>1, <3>2
  <2> QED
    BY <2>1, <2>2
<1>7. ASSUME NEW i \in Images, DeleteFiles(i) PROVE Thumbs'
  <2>1. /\ UNCHANGED <<row, keys, handlers>> /\ delete[i] = "cleaning" /\ delete' = [delete EXCEPT ![i] = "done"]
        /\ thumbs' = [thumbs EXCEPT ![i] = @ \ keys[i]] /\ status[i] = "deleted"
    BY <1>7 DEF DeleteFiles, Order, Unlink
  <2>2. keys[i] = {} => thumbs'[i] = thumbs[i]
    BY <2>1
  <2>3. \/ \E w \in Workers : handler[w] \in Working /\ image[w] = i
        \/ thumbs'[i] = {}
        \/ thumbs'[i] = Sizes \ keys[i]
    BY <2>1
  <2> QED
    BY <2>1, <2>2, <2>3
<1>8. ASSUME NEW w \in Workers, Deliver(w) \/ Skip(w) \/ Settle(w) \/ ClaimRaises(w) PROVE Thumbs'
  <2>1. /\ UNCHANGED <<row, thumbs, deletes>>
        /\ handler[w] \notin Working /\ handler'[w] \notin Working \cup {"sleep"}
    BY <1>8 DEF Deliver, Skip, Settle, ClaimRaises, Escape, Return
  <2> QED
    BY <2>1
<1>9. ASSUME NEW w \in Workers, GiveUp(w) \/ MarkReadyDeleted(w) \/ MarkFailedDeleted(w) PROVE Thumbs'
  <2>1. /\ image[w] \in Images \ Stored /\ handler[w] # "idle" /\ UNCHANGED row
        /\ thumbs' = [thumbs EXCEPT ![image[w]] = @ \ made[w]]
    BY <1>9, CleanUpIsLate
  <2>2. /\ UNCHANGED <<deletes, made, image>> /\ handler'[w] = "return"
        /\ handler[w] \in Working \/ made[w] = {}
    BY <1>9 DEF GiveUp, MarkReadyDeleted, MarkFailedDeleted
  <2>3. handler[w] \in Working => thumbs'[image[w]] = {}
    BY <2>1
  <2>4. made[w] = {} => thumbs' = thumbs
    BY <2>1
  <2>5. \A i \in Images : i # image[w] => thumbs'[i] = thumbs[i]
    BY <2>1
  <2> QED
    BY <2>1, <2>2, <2>3, <2>4, <2>5
<1>10. ASSUME NEW w \in Workers, Claim(w) PROVE Thumbs'
  <2>1. /\ UNCHANGED <<thumbs, deletes, image>> /\ handler[w] \notin Working /\ handler'[w] = "open" /\ made'[w] = {}
        /\ status' = [status EXCEPT ![image[w]] = "PROCESSING"] /\ status[image[w]] \in {"PENDING", "FAILED"}
        /\ image[w] \in Images
    BY <1>10 DEF Claim, CanClaim, Claimable, TakeRow
  <2>2. thumbs[image[w]] = {} /\ keys[image[w]] = {}
    BY <2>1
  <2>3. \A i \in Images : status'[i] \in {"none", "PENDING", "FAILED"} => thumbs'[i] = {} /\ keys'[i] = {}
    BY <2>1
  <2>4. \A v \in Workers : v = w
    OBVIOUS
  <2>5. Unfinished'
    BY <2>1, <2>2, <2>3, <2>4
  <2>6. DeletedThumbs'
    BY <2>1
  <2> QED
    BY <2>5, <2>6
<1>11. ASSUME NEW w \in Workers, Open(w) \/ OpenFails(w) PROVE Thumbs'
  <2>1. /\ UNCHANGED <<row, thumbs, deletes, image, made>> /\ handler[w] = "open" /\ image[w] \in Images
        /\ handler'[w] \in {"generate", "fail", "return"}
        /\ handler'[w] = "return" => image[w] \notin Stored
    BY <1>11 DEF Open, OpenFails
  <2>2. thumbs[image[w]] = {} /\ made[w] = {}
    BY <2>1
  <2> QED
    BY <2>1, <2>2
<1>12. ASSUME NEW w \in Workers, Generate(w) PROVE Thumbs'
  <2>1. PICK s \in Sizes \ made[w] :
          /\ made' = [made EXCEPT ![w] = @ \cup {s}]
          /\ thumbs' = [thumbs EXCEPT ![image[w]] = @ \cup {s}]
          /\ handler' = IF Sizes \ made[w] = {s} THEN [handler EXCEPT ![w] = "ready"] ELSE handler
    BY <1>12 DEF Generate
  <2>2. UNCHANGED <<row, deletes, image>> /\ handler[w] = "generate" /\ image[w] \in Images
    BY <1>12 DEF Generate
  <2>3. /\ thumbs'[image[w]] = made'[w] /\ handler'[w] \in {"generate", "ready"}
        /\ \A i \in Images : i # image[w] => thumbs'[i] = thumbs[i]
    BY <2>1, <2>2
  <2>4. status[image[w]] \in {"PROCESSING", "deleted"}
    BY <2>2, <1>b DEF Attempting
  <2> QED
    BY <2>2, <2>3, <2>4
<1>13. ASSUME NEW w \in Workers, GenerateFails(w) PROVE Thumbs'
  <2>1. /\ UNCHANGED <<row, deletes, image>> /\ handler[w] = "generate" /\ handler'[w] = "fail" /\ image[w] \in Images
        /\ made'[w] = {}
    BY <1>13 DEF GenerateFails
  <2>0. PICK cut \in SUBSET Sizes : thumbs' = [thumbs EXCEPT ![image[w]] = @ \ (made[w] \cup cut)]
    <3>1. PICK cut \in {{}} \cup {{s} : s \in Sizes \ made[w]} :
            thumbs' = [thumbs EXCEPT ![image[w]] = @ \ (made[w] \cup cut)]
      BY <1>13 DEF GenerateFails
    <3>2. cut \in SUBSET Sizes
      OBVIOUS
    <3> QED
      BY <3>1, <3>2
  <2>2. /\ thumbs'[image[w]] = {}
        /\ \A i \in Images : i # image[w] => thumbs'[i] = thumbs[i]
    BY <2>0, <2>1
  <2>3. keys[image[w]] = {} /\ \A v \in Workers : v = w
    BY <2>1
  <2>4. Unfinished'
    <3>1. \A i \in Images : status'[i] \in {"none", "PENDING", "FAILED"} => thumbs'[i] = {} /\ keys'[i] = {}
      BY <2>1, <2>2
    <3>2. thumbs'[image'[w]] = made'[w] /\ keys'[image'[w]] = {}
      BY <2>1, <2>2, <2>3
    <3> QED
      BY <2>1, <2>3, <3>1, <3>2
  <2>5. DeletedThumbs'
    BY <2>1, <2>2
  <2> QED
    BY <2>4, <2>5
<1>14. ASSUME NEW w \in Workers, MarkReady(w) \/ MarkFailed(w) PROVE Thumbs'
  <2>1. /\ UNCHANGED <<thumbs, deletes, image, made>> /\ image[w] \in Stored
        /\ \/ handler[w] = "ready" /\ status' = [status EXCEPT ![image[w]] = "READY"] /\ handler'[w] = "return"
           \/ /\ handler[w] = "fail" /\ status' = [status EXCEPT ![image[w]] = "FAILED"]
              /\ handler'[w] \in {"return", "sleep"}
    BY <1>14 DEF MarkReady, MarkFailed, WriteReady, WriteFailed
  <2> QED
    BY <2>1
<1>15. ASSUME NEW w \in Workers, OpenRaises(w) \/ MarkReadyRaises(w) \/ MarkFailedRaises(w) PROVE FALSE
  BY <1>15 DEF OpenRaises, MarkReadyRaises, MarkFailedRaises
<1>16. CASE Reorder
  BY <1>16 DEF Reorder
<1> QED
  BY <1>1, <1>2, <1>3, <1>4, <1>5, <1>6, <1>7, <1>8, <1>9, <1>10, <1>11, <1>12, <1>13, <1>14, <1>15,
     <1>16
  DEF Next, UploadStep, DeleteStep, HandlerStep

\* A file that was only begun belongs to an upload that is over without a row, or is a
\* thumbnail of an image without keys which the attempt under way has not made yet.
Scraps ==
  /\ \A i \in Images : <<i, Original>> \in scraps => i \notin Stored /\ upload[i] \notin Early
  /\ faults = 0 => \A i \in Images, s \in Sizes : <<i, s>> \in scraps => i \notin recorded
  /\ \A w \in Workers : handler[w] \in {"open", "generate", "ready"} =>
       \A s \in made[w] : <<image[w], s>> \notin scraps

\* What a step adds to the files that were only begun.
LEMMA ScrapsStep ==
  ASSUME OneLoop
  PROVE  FilesInv /\ Recorded /\ Scraps /\ [Next]_vars => Scraps'
<1> SUFFICES ASSUME FilesInv, Recorded, Scraps, [Next]_vars PROVE Scraps'
  OBVIOUS
<1>a. faults' = 0 => faults = 0 /\ ~Fault
  BY NoFault DEF FilesInv
<1>b. \A i \in Images : upload[i] \notin Early =>
        /\ upload'[i] \notin Early
        /\ i \in Stored' => i \in Stored
  BY UploadsGoOn, RowsGoOn DEF FilesInv
<1>c. \A i \in Images : upload[i] = "saving" => i \notin Stored
  BY DEF FilesInv, Order, Early, Stored
<1> USE SizesAssumption
    DEF FilesInv, Typed, TypedRows, TypedFiles, TypedRequests, TypedLoops, OneLoop,
        row, files, uploads, handlers, locals, Upload, Delete, Handler
<1> DEFINE Drawn == \A i \in Images : <<i, Original>> \in scraps' =>
                      <<i, Original>> \in scraps \/ (upload[i] = "saving" /\ upload'[i] \notin Early /\ Stored' = Stored)
<1>1. Drawn => \A i \in Images : <<i, Original>> \in scraps' => i \notin Stored' /\ upload'[i] \notin Early
  BY <1>b, <1>c DEF Scraps
<1> DEFINE Good == /\ Drawn
                   /\ faults' = 0 => \A i \in Images, s \in Sizes : <<i, s>> \in scraps' => i \notin recorded'
                   /\ \A w \in Workers : handler'[w] \in {"open", "generate", "ready"} =>
                        \A s \in made'[w] : <<image'[w], s>> \notin scraps'
<1> SUFFICES Good
  BY <1>1 DEF Scraps
<1>2. ASSUME NEW i \in Images,
             \/ CheckLimit(i) \/ SaveOriginal(i) \/ ChoosePosition(i) \/ StoreRow(i)
             \/ StoreRowFails(i) \/ ScheduleProcessing(i) \/ ScheduleFails(i) \/ MarkUnscheduled(i)
             \/ MarkUnscheduledFails(i) \/ RequestDelete(i) \/ ReadKey(i) \/ DeleteFails(i) \/ Requeue(i)
      PROVE  Good
  <2>1. UNCHANGED <<scraps, recorded, handlers>>
    BY <1>2 DEF CheckLimit, SaveOriginal, ChoosePosition, StoreRow, StoreRowFails, ScheduleProcessing,
       ScheduleFails, MarkUnscheduled, WriteFailed, MarkUnscheduledFails, RequestDelete, ReadKey,
       DeleteFails, Requeue
  <2> QED
    BY <2>1, <1>a DEF Scraps
<1>3. ASSUME NEW i \in Images, SaveOriginalFails(i) PROVE Good
  <2>1. /\ UNCHANGED <<row, recorded, handlers>> /\ scraps' \in {scraps, scraps \cup {<<i, Original>>}}
        /\ upload[i] = "saving" /\ upload'[i] \notin Early /\ Stored' = Stored
    BY <1>3 DEF SaveOriginalFails, Early, Stored
  <2> QED
    BY <2>1, <1>a DEF Scraps
<1>4. ASSUME NEW i \in Images, UndoRow(i) \/ DeleteRow(i) PROVE Good
  <2>1. UNCHANGED <<scraps, handlers>> /\ recorded' \subseteq recorded
    BY <1>4 DEF UndoRow, DeleteRow, EraseRow
  <2> QED
    BY <2>1, <1>a DEF Scraps
<1>5. ASSUME NEW i \in Images, DeleteFiles(i) PROVE Good
  <2>1. UNCHANGED <<recorded, handlers>> /\ scraps' \subseteq scraps
    BY <1>5 DEF DeleteFiles, Unlink
  <2> QED
    BY <2>1, <1>a DEF Scraps
<1>6. ASSUME NEW w \in Workers,
             Deliver(w) \/ Skip(w) \/ Settle(w) \/ ClaimRaises(w) \/ OpenRaises(w) \/ MarkFailedRaises(w)
      PROVE  Good
  <2>1. UNCHANGED <<scraps, recorded>> /\ handler'[w] \notin {"open", "generate", "ready"}
    BY <1>6 DEF Deliver, Skip, Settle, ClaimRaises, OpenRaises, MarkFailedRaises, WriteFailed, TakeRow,
       Escape, Return
  <2> QED
    BY <2>1, <1>a DEF Scraps
<1>7. ASSUME NEW w \in Workers, GiveUp(w) \/ MarkReadyDeleted(w) \/ MarkFailedDeleted(w) PROVE Good
  <2>1. UNCHANGED recorded /\ scraps' \subseteq scraps /\ handler'[w] = "return"
    BY <1>7 DEF GiveUp, MarkReadyDeleted, MarkFailedDeleted, CleanUp, Unlink
  <2> QED
    BY <2>1, <1>a DEF Scraps
<1>8. ASSUME NEW w \in Workers, Claim(w) \/ Open(w) \/ OpenFails(w) \/ MarkFailed(w) PROVE Good
  <2>1. /\ UNCHANGED <<scraps, recorded, image>>
        /\ \/ UNCHANGED made /\ (handler'[w] \in {"open", "generate", "ready"} => handler[w] = "open")
           \/ made'[w] = {}
    BY <1>8 DEF Claim, TakeRow, Open, OpenFails, MarkFailed, WriteFailed
  <2> QED
    BY <2>1, <1>a DEF Scraps
<1>9. ASSUME NEW w \in Workers, Generate(w) PROVE Good
  <2>1. PICK s \in Sizes \ made[w] :
          /\ made' = [made EXCEPT ![w] = @ \cup {s}]
          /\ scraps' = scraps \ {<<image[w], s>>}
    BY <1>9 DEF Generate
  <2>2. UNCHANGED <<recorded, image>> /\ handler[w] = "generate"
    BY <1>9 DEF Generate
  <2> QED
    BY <2>1, <2>2, <1>a DEF Scraps
<1>10. ASSUME NEW w \in Workers, GenerateFails(w) PROVE Good
  <2>1. PICK cut \in SUBSET Sizes : scraps' = (scraps \ ({image[w]} \X made[w])) \cup ({image[w]} \X cut)
    <3>1. PICK cut \in {{}} \cup {{s} : s \in Sizes \ made[w]} :
            scraps' = (scraps \ ({image[w]} \X made[w])) \cup ({image[w]} \X cut)
      BY <1>10 DEF GenerateFails
    <3>2. cut \in SUBSET Sizes
      OBVIOUS
    <3> QED
      BY <3>1, <3>2
  <2>2. UNCHANGED <<recorded, image>> /\ handler[w] = "generate" /\ handler'[w] = "fail" /\ image[w] \in Images
    BY <1>10 DEF GenerateFails
  <2>3. faults = 0 => image[w] \notin recorded
    BY <2>2 DEF Recorded, Attempting
  <2> QED
    BY <2>1, <2>2, <2>3, <1>a DEF Scraps
<1>11. ASSUME NEW w \in Workers, MarkReady(w) \/ MarkReadyRaises(w) PROVE Good
  <2>1. /\ UNCHANGED scraps /\ handler[w] = "ready" /\ handler'[w] \in {"return", "fail"}
        /\ recorded' \subseteq recorded \cup {image[w]}
    BY <1>11 DEF MarkReady, MarkReadyRaises, WriteReady
  <2>2. \A s \in Sizes : <<image[w], s>> \notin scraps
    BY <2>1 DEF Scraps, Attempting
  <2> QED
    BY <2>1, <2>2, <1>a DEF Scraps
<1>12. CASE Reorder \/ UNCHANGED vars
  BY <1>12, <1>a DEF Reorder, vars, Scraps
<1>13. CASE Crash
  <2>1. PICK cut \in Torn : scraps' = scraps \cup cut
    BY <1>13 DEF Crash
  <2>2. /\ UNCHANGED row /\ Stored' = Stored
        /\ \A w \in Workers : handler'[w] = "idle"
        /\ \A i \in Images : upload[i] = "saving" => upload'[i] \notin Early
    BY <1>13 DEF Crash, UploadOver, Early, Stored
  <2>3. \A i \in Images : <<i, Original>> \in cut => upload[i] = "saving"
    BY TornFiles
  <2>4. ASSUME faults = 0, NEW i \in Images, NEW s \in Sizes, <<i, s>> \in cut PROVE i \notin recorded
    <3>1. \E w \in Workers : handler[w] = "generate" /\ image[w] = i
      BY <2>4, TornFiles
    <3> QED
      BY <2>4, <3>1 DEF Recorded, Attempting
  <2> QED
    BY <2>1, <2>2, <2>3, <2>4, <1>a DEF Scraps
<1> QED
  BY <1>2, <1>3, <1>4, <1>5, <1>6, <1>7, <1>8, <1>9, <1>10, <1>11, <1>12, <1>13
  DEF Next, UploadStep, DeleteStep, HandlerStep

OrphansInv == Recorded /\ Scraps /\ (Calm => Led /\ Thumbs)

LEMMA OrphansInit == Init => OrphansInv
BY DEF Init, OrphansInv, Recorded, Scraps, Led, Thumbs, Unfinished, DeletedThumbs, Stored, Working

LEMMA OrphansStep ==
  ASSUME OneLoop
  PROVE  FilesInv /\ OrphansInv /\ [Next]_vars => OrphansInv'
<1> SUFFICES ASSUME FilesInv, OrphansInv, [Next]_vars PROVE OrphansInv'
  OBVIOUS
<1>1. Recorded'
  BY RecordedStep DEF FilesInv, OrphansInv
<1>s. Scraps'
  BY ScrapsStep DEF OrphansInv
<1>2. Calm' => Calm /\ ~Fault /\ ~Crash /\ faults = 0
  BY NoFault DEF FilesInv, Calm
<1>3. CASE Next
  BY <1>1, <1>s, <1>2, <1>3, LedStep, ThumbsStep DEF OrphansInv
<1>4. CASE UNCHANGED vars
  BY <1>1, <1>s, <1>2, <1>4
  DEF OrphansInv, vars, Led, Thumbs, Unfinished, DeletedThumbs, Stored, row, files, uploads, deletes,
      handlers, locals
<1> QED
  BY <1>3, <1>4

LEMMA FilesInvariant == ASSUME OneLoop PROVE Spec => [](FilesInv /\ OrphansInv)
BY FilesInit, FilesStep, OrphansInit, OrphansStep, PTL DEF Spec

\* Until a call raises or the process crashes, once everything about an image is over no complete
\* file is left that no row leads to, but for an original refused for its position
\* (service.py:99-110) and thumbnails whose keys its deletion had read too early
\* (service.py:205-210); and a file whose writing broke off, which nothing removes, is one that no
\* row has the key of (service.py:89-94, thumbnail_service.py:42-48).
THEOREM NoFileIsLeft == ASSUME OneLoop PROVE Spec => [](Calm => NoOrphanFiles)
<1>1. FilesInv /\ OrphansInv => (Calm => NoOrphanFiles)
  <2> SUFFICES ASSUME FilesInv, Led, Thumbs, Scraps, faults = 0 PROVE NoOrphanFiles
    BY DEF OrphansInv, Calm
  <2> USE DEF FilesInv, Typed, TypedRows, TypedRequests, TypedLoops, UploadOver, Over, Stored
  <2>1. NoOrphanOriginal
    BY DEF NoOrphanOriginal, Led
  <2>2. NoOrphanThumbnails
    BY DEF NoOrphanThumbnails, Thumbs, Unfinished, DeletedThumbs, Working
  <2>3. NoKeyToScrap
    BY DEF NoKeyToScrap, Scraps, TypedFiles
  <2> QED
    BY <2>1, <2>2, <2>3 DEF NoOrphanFiles
<1> QED
  BY <1>1, FilesInvariant, PTL

-----------------------------------------------------------------------------
(* Views. *)

\* A view has found an image, and once it has a key the row has it or is gone.
Viewing ==
  /\ view \in {"idle", "row", "thumbnail", "original"}
  /\ view # "idle" => upload[Image] \notin Early
  /\ view = "thumbnail" => Image \in recorded \/ Image \notin Stored

LEMMA ViewingInit == ViewInit => Viewing
BY DEF ViewInit, Viewing

LEMMA ViewStep == [ViewNext]_<<vars, view>> => [Next]_vars
BY DEF ViewNext, ReadRow, ReadViewKey, ReadOriginalKey, OpenFile

LEMMA ViewingStep == FilesInv /\ Viewing /\ [ViewNext]_<<vars, view>> => Viewing'
<1> SUFFICES ASSUME FilesInv, Viewing, [ViewNext]_<<vars, view>> PROVE Viewing'
  OBVIOUS
<1> USE AskedAssumption DEF Viewing, View
<1>a. UNCHANGED vars => UNCHANGED <<recorded, upload, Stored>>
  BY DEF vars, row, uploads, Stored
<1>b. Image \in Stored => upload[Image] \notin Early
  BY DEF FilesInv, Order, Stored
<1>1. CASE Next /\ UNCHANGED view
  <2>1. upload[Image] \notin Early =>
          /\ upload'[Image] \notin Early
          /\ Image \in Stored' => Image \in Stored
          /\ Image \in recorded => Image \in recorded' \/ Image \notin Stored'
    BY <1>1, UploadsGoOn, RowsGoOn DEF FilesInv
  <2> QED
    BY <1>1, <2>1
<1>2. CASE ReadRow \/ ReadOriginalKey
  BY <1>2, <1>a, <1>b DEF ReadRow, ReadOriginalKey
<1>3. CASE ReadViewKey
  BY <1>3, <1>a DEF ReadViewKey, HasKey
<1>4. CASE OpenFile
  BY <1>4, <1>a DEF OpenFile
<1>5. CASE UNCHANGED <<vars, view>>
  BY <1>5, <1>a
<1> QED
  BY <1>1, <1>2, <1>3, <1>4, <1>5 DEF ViewNext

\* Until a call raises, a view fails only when the image was deleted while it was under way
\* (routes/images.py:192, 236).
THEOREM ViewsFindTheirFile == ASSUME OneLoop PROVE ViewSpec => [](faults = 0 => OnlyDeletedFails)
<1>1. FilesInv /\ OrphansInv /\ Viewing => (faults = 0 => OnlyDeletedFails)
  <2> SUFFICES ASSUME FilesInv, Recorded, Viewing, faults = 0, Image \in Stored,
                      view \in {"thumbnail", "original"}
               PROVE  HasFile
    BY DEF OrphansInv, OnlyDeletedFails
  <2>1. view = "thumbnail" => thumbs[Image] = Sizes
    BY AskedAssumption DEF Viewing, Recorded, FilesInv, Kept
  <2>2. Image \in original
    BY DEF FilesInv, Kept
  <2> QED
    BY <2>1, <2>2, AskedAssumption DEF HasFile
<1> QED
  BY <1>1, FilesInit, FilesStep, OrphansInit, OrphansStep, ViewingInit, ViewingStep, ViewStep,
     PTL DEF ViewSpec
=============================================================================
