--------------------------- MODULE ImagePipeline ---------------------------
(***************************************************************************)
(* The life of the images of one listing: upload_image, delete_image and   *)
(* reorder (application/media/service.py) run on request threads, the      *)
(* handler of ImageUploaded (application/media/image_uploaded_handler.py)  *)
(* runs on the outbox loop and writes thumbnails (thumbnail_service.py).   *)
(* They share the SQLite table of images, each of whose operations holds   *)
(* the database lock, and the file storage, which has no lock at all.      *)
(*                                                                         *)
(* The outbox is used as OutboxWorker runs it: an event saved once is      *)
(* delivered again until a delivery returns or MaxDeliveries have raised.  *)
(* Rows, files and events survive a crash of the process.                  *)
(***************************************************************************)
EXTENDS Naturals, FiniteSets, Functions

CONSTANTS
  Images,          \* image ids, one upload request each
  Sizes,           \* thumbnail sizes
  Original,        \* names the original file beside the sizes
  Workers,         \* outbox loops that may run the handler
  MaxImages,       \* MAX_IMAGES_PER_LISTING and the largest position
  MaxAttempts,     \* MAX_PROCESSING_ATTEMPTS
  MaxDeliveries,   \* OutboxWorker.max_retry_count
  MaxCrashes, MaxFaults, MaxCollisions   \* bounds: crashes, repository calls that raise,
                                         \* claims that meet another repository's write

NoImage == "none"   \* a loop that has handled nothing yet

ASSUME ImagesAssumption == IsFiniteSet(Images) /\ NoImage \notin Images
ASSUME SizesAssumption == IsFiniteSet(Sizes) /\ Sizes # {} /\ Original \notin Sizes
ASSUME LimitAssumption ==
  /\ MaxImages \in Nat \ {0} /\ MaxAttempts \in Nat \ {0} /\ MaxDeliveries \in Nat \ {0}
ASSUME BoundAssumption == MaxCrashes \in Nat /\ MaxFaults \in Nat /\ MaxCollisions \in Nat

VARIABLES
  \* the table listing_images
  status, attempts, position,
  recorded,       \* the images whose thumbnail keys are in their row
  openTxn,        \* a failed INSERT has left the connection in a transaction
  \* the storage
  original,       \* images whose original file is there, and complete
  thumbs,         \* the thumbnail files that are, for each image
  scraps,         \* <<image, file>>: files that save_as has only begun
  \* the outbox
  event, retries,
  \* upload_image and delete_image, one request of each per image
  upload, slot,   \* slot: next_position
  delete, unread, keys,   \* sizes still to be read, thumbnail keys read
  \* ImageUploadedHandler.handle, per outbox loop
  handler, image, attempt, made,   \* made: the sizes this attempt has stored
  crashes, faults, collisions

row == <<status, attempts, position, recorded>>
files == <<original, thumbs, scraps>>
outbox == <<event, retries>>
uploads == <<upload, slot>>
deletes == <<delete, unread, keys>>
locals == <<image, attempt, made>>
handlers == <<handler, locals>>
bounds == <<crashes, faults, collisions>>
vars == <<row, openTxn, files, outbox, uploads, deletes, handlers, bounds>>

Stored == {i \in Images : status[i] \notin {"none", "deleted"}}

Claimable_mutant == {"PENDING"}
Claimable == {"PENDING", "FAILED"}
InHandler == {"claim", "open", "generate", "ready", "fail", "sleep", "return"}
UploadOver == {"idle", "done", "rejected", "lost"}

\* Rows, files and locals have their types: no image is processed more often than
\* MAX_PROCESSING_ATTEMPTS, no event delivered more often than max_retry_count
\* (listing_image_repository.py:202, outbox_worker.py:106).
TypeOK ==
  /\ status \in [Images -> {"none", "PENDING", "PROCESSING", "READY", "FAILED", "deleted"}]
  /\ attempts \in [Images -> 0..MaxAttempts]
  /\ position \in [Images -> 0..MaxImages]
  /\ recorded \subseteq Images /\ original \subseteq Images
  /\ openTxn \in BOOLEAN
  /\ thumbs \in [Images -> SUBSET Sizes] /\ scraps \subseteq Images \X (Sizes \cup {Original})
  /\ event \in [Images -> {"none", "pending", "settled", "dead"}]
  /\ retries \in [Images -> 0..MaxDeliveries]
  /\ upload \in [Images -> UploadOver \cup
                   {"saving", "placing", "storing", "scheduling", "unscheduled", "undoing"}]
  /\ slot \in [Images -> Nat]
  /\ delete \in [Images -> {"idle", "reading", "erasing", "cleaning", "done"}]
  /\ unread \in [Images -> SUBSET Sizes] /\ keys \in [Images -> SUBSET Sizes]
  /\ handler \in [Workers -> InHandler \cup {"idle"}]
  /\ image \in [Workers -> Images \cup {NoImage}]
  /\ attempt \in [Workers -> 0..MaxAttempts]
  /\ made \in [Workers -> SUBSET Sizes]
  /\ crashes \in Nat /\ faults \in Nat /\ collisions \in Nat

Init ==
  /\ status = [i \in Images |-> "none"]
  /\ attempts = [i \in Images |-> 0]
  /\ position = [i \in Images |-> 0]
  /\ recorded = {} /\ original = {} /\ openTxn = FALSE
  /\ thumbs = [i \in Images |-> {}] /\ scraps = {}
  /\ event = [i \in Images |-> "none"]
  /\ retries = [i \in Images |-> 0]
  /\ upload = [i \in Images |-> "idle"]
  /\ slot = [i \in Images |-> 0]
  /\ delete = [i \in Images |-> "idle"]
  /\ unread = [i \in Images |-> {}] /\ keys = [i \in Images |-> {}]
  /\ handler = [w \in Workers |-> "idle"]
  /\ image = [w \in Workers |-> NoImage]
  /\ attempt = [w \in Workers |-> 0]
  /\ made = [w \in Workers |-> {}]
  /\ crashes = 0 /\ faults = 0 /\ collisions = 0

-----------------------------------------------------------------------------
(* The connection. *)

\* Every commit and every rollback ends whatever transaction is open.
EndTxn == openTxn' = FALSE

\* A repository call raises (disk full, database locked).
Fault == faults < MaxFaults /\ faults' = faults + 1 /\ UNCHANGED <<crashes, collisions>>

\* _compact_listing_positions: the rows left are numbered 1, 2, ... in order.
Compacted(left) ==
  [j \in Images |-> IF j \in left
                    THEN Cardinality({k \in left : position[k] <= position[j]})
                    ELSE 0]

\* delete_by_id.
EraseRow(i) ==
  /\ status' = [status EXCEPT ![i] = "deleted"]
  /\ recorded' = recorded \ {i}
  /\ position' = Compacted(Stored \ {i})
  /\ EndTxn
  /\ UNCHANGED attempts

\* mark_failed has no condition on the status.
WriteFailed(i) ==
  /\ status' = IF i \in Stored THEN [status EXCEPT ![i] = "FAILED"] ELSE status
  /\ EndTxn
  /\ UNCHANGED <<attempts, position, recorded>>

\* storage.delete of an original and of some thumbnails, complete or not.
Unlink(i, S) ==
  /\ original' = original \ {i}
  /\ thumbs' = [thumbs EXCEPT ![i] = @ \ S]
  /\ scraps' = scraps \ ({i} \X (S \cup {Original}))

-----------------------------------------------------------------------------
(* upload_image *)

Upload(i, from, to) == upload[i] = from /\ upload' = [upload EXCEPT ![i] = to]

\* count_by_listing and the limit.
CheckLimit(i) ==
  /\ Upload(i, "idle", IF Cardinality(Stored) >= MaxImages THEN "rejected" ELSE "saving")
  /\ UNCHANGED <<row, openTxn, files, outbox, slot, deletes, handlers, bounds>>

SaveOriginal(i) ==
  /\ Upload(i, "saving", "placing")
  /\ original' = original \cup {i}
  /\ UNCHANGED <<row, openTxn, thumbs, scraps, outbox, slot, deletes, handlers, bounds>>

\* The image does not validate, or the copy breaks off: upload_image does not know its key.
SaveOriginalFails(i) ==
  /\ Upload(i, "saving", "rejected")
  /\ scraps' \in {scraps, scraps \cup {<<i, Original>>}}
  /\ UNCHANGED <<row, openTxn, original, thumbs, outbox, slot, deletes, handlers, bounds>>

\* next_position = len(get_by_listing) + 1; ListingImage refuses one above the
\* limit, and nothing removes the stored file then: there is no row yet.
ChoosePosition(i) ==
  /\ slot' = [slot EXCEPT ![i] = Cardinality(Stored) + 1]
  /\ Upload(i, "placing", IF Cardinality(Stored) + 1 > MaxImages THEN "rejected" ELSE "storing")
  /\ UNCHANGED <<row, openTxn, files, outbox, deletes, handlers, bounds>>

PositionTaken_mutant(i) == FALSE   \* without the unique index
\* The unique index on (listing_id, position).
PositionTaken(i) == \E j \in Stored : position[j] = slot[i]

StoreRow(i) ==
  /\ ~PositionTaken(i)
  /\ Upload(i, "storing", "scheduling")
  /\ status' = [status EXCEPT ![i] = "PENDING"]
  /\ position' = [position EXCEPT ![i] = slot[i]]
  /\ EndTxn /\ slot' = [slot EXCEPT ![i] = 0]
  /\ UNCHANGED <<attempts, recorded, files, outbox, deletes, handlers, bounds>>

\* The INSERT is refused: no rollback, and the file is deleted again.
StoreRowFails(i) ==
  /\ \/ PositionTaken(i) /\ UNCHANGED bounds
     \/ Fault
  /\ Upload(i, "storing", "rejected")
  /\ original' = original \ {i}
  /\ openTxn' = TRUE /\ slot' = [slot EXCEPT ![i] = 0]
  /\ UNCHANGED <<row, thumbs, scraps, outbox, deletes, handlers>>

ScheduleProcessing(i) ==
  /\ Upload(i, "scheduling", "done")
  /\ event' = [event EXCEPT ![i] = "pending"]
  /\ EndTxn
  /\ UNCHANGED <<row, files, retries, slot, deletes, handlers, bounds>>

\* outbox.save raises: its INSERT, with no rollback, or after its commit (its metrics read).
ScheduleFails(i) ==
  /\ Fault
  /\ Upload(i, "scheduling", "unscheduled")
  /\ \/ openTxn' = TRUE /\ UNCHANGED event
     \/ EndTxn /\ event' = [event EXCEPT ![i] = "pending"]
  /\ UNCHANGED <<row, files, retries, slot, deletes, handlers>>

MarkUnscheduled(i) ==
  /\ Upload(i, "unscheduled", "done")
  /\ WriteFailed(i)
  /\ UNCHANGED <<files, outbox, slot, deletes, handlers, bounds>>

\* mark_failed raises: not a RuntimeError, so the image is taken back, the
\* file first ...
MarkUnscheduledFails(i) ==
  /\ Fault
  /\ Upload(i, "unscheduled", IF i \in Stored THEN "undoing" ELSE "rejected")
  /\ original' = IF i \in Stored THEN original \ {i} ELSE original
  /\ UNCHANGED <<row, openTxn, thumbs, scraps, outbox, slot, deletes, handlers>>

\* ... then the row.
UndoRow(i) ==
  /\ Upload(i, "undoing", "rejected")
  /\ IF i \in Stored THEN EraseRow(i) ELSE UNCHANGED <<row, openTxn>>
  /\ UNCHANGED <<files, outbox, slot, deletes, handlers, bounds>>

UploadStep(i) ==
  \/ SaveOriginal(i) \/ SaveOriginalFails(i) \/ ChoosePosition(i)
  \/ StoreRow(i) \/ StoreRowFails(i) \/ ScheduleProcessing(i) \/ ScheduleFails(i)
  \/ MarkUnscheduled(i) \/ MarkUnscheduledFails(i) \/ UndoRow(i)

-----------------------------------------------------------------------------
(* delete_image and reorder_listing_images *)

Delete(i, from, to) == delete[i] = from /\ delete' = [delete EXCEPT ![i] = to]

RequestDelete(i) ==
  /\ i \in Stored
  /\ Delete(i, "idle", "reading")
  /\ unread' = [unread EXCEPT ![i] = Sizes]
  /\ keys' = [keys EXCEPT ![i] = {}]
  /\ UNCHANGED <<row, openTxn, files, outbox, uploads, handlers, bounds>>

\* get_thumbnail_key, one size at a time.
ReadKey(i) ==
  /\ delete[i] = "reading"
  /\ \E s \in unread[i] :
       /\ unread' = [unread EXCEPT ![i] = @ \ {s}]
       /\ keys' = [keys EXCEPT ![i] = IF i \in recorded THEN @ \cup {s} ELSE @]
       /\ delete' = IF unread[i] = {s} THEN [delete EXCEPT ![i] = "erasing"] ELSE delete
  /\ UNCHANGED <<row, openTxn, files, outbox, uploads, handlers, bounds>>

DeleteRow(i) ==
  /\ Delete(i, "erasing", IF i \in Stored THEN "cleaning" ELSE "done")
  /\ IF i \in Stored THEN EraseRow(i) ELSE UNCHANGED <<row, openTxn>>
  /\ UNCHANGED <<files, outbox, uploads, unread, keys, handlers, bounds>>

\* A read raises, or delete_by_id does and rolls back: the client may try again.
DeleteFails(i) ==
  /\ Fault
  /\ delete[i] \in {"reading", "erasing"}
  /\ delete' = [delete EXCEPT ![i] = "idle"]
  /\ openTxn' = IF delete[i] = "erasing" THEN FALSE ELSE openTxn
  /\ UNCHANGED <<row, files, outbox, uploads, unread, keys, handlers>>

DeleteFiles(i) ==
  /\ Delete(i, "cleaning", "done")
  /\ Unlink(i, keys[i])
  /\ UNCHANGED <<row, openTxn, outbox, uploads, unread, keys, handlers, bounds>>

DeleteStep(i) == ReadKey(i) \/ DeleteRow(i) \/ DeleteFails(i) \/ DeleteFiles(i)

\* reorder_for_listing: the ids must be exactly those of the rows, which get
\* the positions 1, 2, ... in the order asked for.
Reorder ==
  /\ \E p \in Bijection(Stored, 1..Cardinality(Stored)) :
       position' = [i \in Images |-> IF i \in Stored THEN p[i] ELSE position[i]]
  /\ EndTxn
  /\ UNCHANGED <<status, attempts, recorded, files, outbox, uploads, deletes, handlers, bounds>>

-----------------------------------------------------------------------------
(* ImageUploadedHandler.handle *)

Handler(w, from, to) == handler[w] = from /\ handler' = [handler EXCEPT ![w] = to]

\* The outbox loop dispatches the event.
Deliver(w) ==
  /\ Handler(w, "idle", "claim")
  /\ \E i \in Images : event[i] = "pending" /\ image' = [image EXCEPT ![w] = i]
  /\ UNCHANGED <<row, openTxn, files, outbox, uploads, deletes, attempt, made, bounds>>

Return(w, from) ==
  /\ Handler(w, from, "idle")
  /\ image' = [image EXCEPT ![w] = NoImage]
  /\ attempt' = [attempt EXCEPT ![w] = 0]
  /\ made' = [made EXCEPT ![w] = {}]

\* An exception leaves the handler: increment_retry, and mark_failed at the limit.
Escape(w, from) ==
  LET i == image[w] IN
  /\ Return(w, from)
  /\ retries' = [retries EXCEPT ![i] = @ + 1]
  /\ event' = IF retries[i] + 1 >= MaxDeliveries THEN [event EXCEPT ![i] = "dead"] ELSE event
  /\ EndTxn
  /\ UNCHANGED <<files, uploads, deletes>>

\* The handler has returned: the loop marks the event published.
Settle(w) ==
  /\ Return(w, "return")
  /\ event' = [event EXCEPT ![image[w]] = "settled"]
  /\ EndTxn
  /\ UNCHANGED <<row, files, retries, uploads, deletes, bounds>>

CanClaim_mutant(i) == status[i] \in Claimable \/ status[i] = "READY"
CanClaim(i) == status[i] \in Claimable /\ attempts[i] < MaxAttempts

TakeRow(i) ==
  /\ status' = [status EXCEPT ![i] = "PROCESSING"]
  /\ attempts' = [attempts EXCEPT ![i] = @ + 1]
  /\ UNCHANGED <<position, recorded>>

\* claim_for_processing: BEGIN IMMEDIATE to COMMIT, then the row is read again.
Claim(w) ==
  LET i == image[w] IN
  /\ handler[w] \in {"claim", "sleep"}
  /\ ~openTxn /\ CanClaim(i)
  /\ TakeRow(i)
  /\ attempt' = [attempt EXCEPT ![w] = attempts[i] + 1]
  /\ made' = [made EXCEPT ![w] = {}]
  /\ Handler(w, handler[w], "open")
  /\ UNCHANGED <<openTxn, files, outbox, uploads, deletes, image, bounds>>

\* A repository with another lock is in the middle of a write on the connection.
Collision == collisions < MaxCollisions /\ collisions' = collisions + 1 /\ UNCHANGED <<crashes, faults>>

\* BEGIN IMMEDIATE raises inside an open transaction, also the one that a refused INSERT
\* has left; a fault may also come after the COMMIT.
ClaimRaises(w) ==
  /\ handler[w] \in {"claim", "sleep"}
  /\ \/ openTxn /\ UNCHANGED <<row, bounds>>
     \/ Collision /\ UNCHANGED row
     \/ Fault /\ UNCHANGED row
     \/ Fault /\ ~openTxn /\ CanClaim(image[w]) /\ TakeRow(image[w])
  /\ Escape(w, handler[w])

Skip_mutant(w) ==   \* cleans up like a later claim
  /\ Handler(w, "claim", "return")
  /\ ~openTxn /\ ~CanClaim(image[w])
  /\ original' = original \ {image[w]}
  /\ UNCHANGED <<row, openTxn, thumbs, scraps, outbox, uploads, deletes, locals, bounds>>

\* The first claim finds nothing to do: the event is skipped.
Skip(w) ==
  /\ Handler(w, "claim", "return")
  /\ ~openTxn /\ ~CanClaim(image[w])
  /\ UNCHANGED <<row, openTxn, files, outbox, uploads, deletes, locals, bounds>>

\* _cleanup_generated_assets: the original and what this attempt has stored.
CleanUp(w) == Unlink(image[w], made[w])

\* A later claim finds nothing to do: the files are deleted.
GiveUp(w) ==
  /\ Handler(w, "sleep", "return")
  /\ ~openTxn /\ ~CanClaim(image[w])
  /\ CleanUp(w)
  /\ UNCHANGED <<row, openTxn, outbox, uploads, deletes, locals, bounds>>

\* storage.open and, on FileNotFoundError, image_repo.get.
Open(w) ==
  /\ Handler(w, "open", IF image[w] \in original THEN "generate"
                        ELSE IF image[w] \in Stored THEN "fail" ELSE "return")
  /\ UNCHANGED <<row, openTxn, files, outbox, uploads, deletes, locals, bounds>>

\* The storage refuses to open the file.
OpenFails(w) ==
  /\ Handler(w, "open", "fail")
  /\ image[w] \in original
  /\ UNCHANGED <<row, openTxn, files, outbox, uploads, deletes, locals, bounds>>

\* The file is missing and image_repo.get raises: that leaves the handler at once.
OpenRaises(w) ==
  /\ Fault
  /\ image[w] \notin original
  /\ UNCHANGED row
  /\ Escape(w, "open")

\* generate_and_store stores one size after the other ...
Generate(w) ==
  /\ handler[w] = "generate"
  /\ \E s \in Sizes \ made[w] :
       /\ made' = [made EXCEPT ![w] = @ \cup {s}]
       /\ thumbs' = [thumbs EXCEPT ![image[w]] = @ \cup {s}]
       /\ scraps' = scraps \ {<<image[w], s>>}
       /\ handler' = IF Sizes \ made[w] = {s} THEN [handler EXCEPT ![w] = "ready"] ELSE handler
  /\ UNCHANGED <<row, openTxn, original, outbox, uploads, deletes, image, attempt, bounds>>

GenerateFails_mutant(w) ==   \* leaves what it has stored
  /\ Handler(w, "generate", "fail")
  /\ made' = [made EXCEPT ![w] = {}]
  /\ UNCHANGED <<row, openTxn, files, outbox, uploads, deletes, image, attempt, bounds>>

\* ... and when one fails deletes those it has stored, but not the one it has begun.
GenerateFails(w) ==
  /\ Handler(w, "generate", "fail")
  /\ \E cut \in {{}} \cup {{s} : s \in Sizes \ made[w]} :
       /\ thumbs' = [thumbs EXCEPT ![image[w]] = @ \ (made[w] \cup cut)]
       /\ scraps' = (scraps \ ({image[w]} \X made[w])) \cup ({image[w]} \X cut)
  /\ made' = [made EXCEPT ![w] = {}]
  /\ UNCHANGED <<row, openTxn, original, outbox, uploads, deletes, image, attempt, bounds>>

WriteReady(i) ==
  /\ status' = [status EXCEPT ![i] = "READY"]
  /\ recorded' = recorded \cup {i}
  /\ EndTxn
  /\ UNCHANGED <<attempts, position>>

MarkReady(w) ==
  /\ image[w] \in Stored
  /\ Handler(w, "ready", "return")
  /\ WriteReady(image[w])
  /\ UNCHANGED <<files, outbox, uploads, deletes, locals, bounds>>

\* The row is gone: the handler removes the files.
MarkReadyDeleted(w) ==
  /\ image[w] \notin Stored
  /\ Handler(w, "ready", "return")
  /\ CleanUp(w) /\ EndTxn
  /\ UNCHANGED <<row, outbox, uploads, deletes, locals, bounds>>

\* It raises before its commit or, reading the row again, after it.
MarkReadyRaises(w) ==
  /\ Fault
  /\ Handler(w, "ready", "fail")
  /\ \/ EndTxn /\ UNCHANGED row
     \/ image[w] \in Stored /\ WriteReady(image[w])
  /\ UNCHANGED <<files, outbox, uploads, deletes, locals>>

MarkFailed_mutant(w) ==   \* forgets the row when the attempts are used up
  /\ image[w] \in Stored
  /\ IF attempt[w] >= MaxAttempts THEN UNCHANGED <<row, openTxn>> ELSE WriteFailed(image[w])
  /\ Handler(w, "fail", IF attempt[w] >= MaxAttempts THEN "return" ELSE "sleep")
  /\ UNCHANGED <<files, outbox, uploads, deletes, locals, bounds>>

MarkFailed(w) ==
  /\ image[w] \in Stored
  /\ WriteFailed(image[w])
  /\ Handler(w, "fail", IF attempt[w] >= MaxAttempts THEN "return" ELSE "sleep")
  /\ UNCHANGED <<files, outbox, uploads, deletes, locals, bounds>>

MarkFailedDeleted(w) ==
  /\ image[w] \notin Stored
  /\ Handler(w, "fail", "return")
  /\ CleanUp(w) /\ EndTxn
  /\ UNCHANGED <<row, outbox, uploads, deletes, locals, bounds>>

MarkFailedRaises(w) ==
  /\ Fault
  /\ \/ UNCHANGED row
     \/ WriteFailed(image[w])
  /\ Escape(w, "fail")

HandlerStep(w) ==
  \/ Deliver(w) \/ Claim(w) \/ ClaimRaises(w) \/ Skip(w) \/ GiveUp(w)
  \/ Open(w) \/ OpenFails(w) \/ OpenRaises(w) \/ Generate(w) \/ GenerateFails(w)
  \/ MarkReady(w) \/ MarkReadyDeleted(w) \/ MarkReadyRaises(w)
  \/ MarkFailed(w) \/ MarkFailedDeleted(w) \/ MarkFailedRaises(w) \/ Settle(w)

-----------------------------------------------------------------------------
\* An operator requeues a dead letter.
Requeue(i) ==
  /\ event[i] = "dead"
  /\ event' = [event EXCEPT ![i] = "pending"]
  /\ retries' = [retries EXCEPT ![i] = 0]
  /\ EndTxn
  /\ UNCHANGED <<row, files, uploads, deletes, handlers, bounds>>

\* The files that are being written: at most one of each image.
Torn ==
  LET writing == {<<i, Original>> : i \in {j \in Images : upload[j] = "saving"}} \cup
                 UNION {{image[w]} \X (Sizes \ made[w]) : w \in {v \in Workers : handler[v] = "generate"}}
  IN  {cut \in SUBSET writing : \A p, q \in cut : p[1] = q[1] => p = q}

\* Rows, files and events stay; a client may ask for the deletion again.
Crash ==
  /\ crashes < MaxCrashes
  /\ crashes' = crashes + 1
  /\ upload' = [i \in Images |-> IF upload[i] \in UploadOver THEN upload[i] ELSE "lost"]
  /\ delete' = [i \in Images |-> IF delete[i] = "done" THEN "done" ELSE "idle"]
  /\ handler' = [w \in Workers |-> "idle"]
  /\ image' = [w \in Workers |-> NoImage]
  /\ attempt' = [w \in Workers |-> 0]
  /\ made' = [w \in Workers |-> {}]
  /\ \E cut \in Torn :
       /\ thumbs' = [i \in Images |-> {s \in thumbs[i] : <<i, s>> \notin cut}]
       /\ scraps' = scraps \cup cut
  /\ EndTxn
  /\ UNCHANGED <<row, original, outbox, slot, unread, keys, faults, collisions>>

Next ==
  \/ \E i \in Images :
       CheckLimit(i) \/ UploadStep(i) \/ RequestDelete(i) \/ DeleteStep(i) \/ Requeue(i)
  \/ \E w \in Workers : HandlerStep(w)
  \/ Reorder \/ Crash

Spec == Init /\ [][Next]_vars

\* Threads that have begun a request run on, and the loop polls.  Whether a
\* client or an operator asks for anything is free.
Fairness ==
  /\ \A i \in Images : WF_vars(UploadStep(i)) /\ WF_vars(DeleteStep(i))
  /\ \A w \in Workers : WF_vars(HandlerStep(w))

FairSpec == Spec /\ Fairness

-----------------------------------------------------------------------------
(* Properties. *)

\* The thumbnails of a READY image exist and its row has their keys, whatever
\* attempts, faults and restarts came before; with at most one call that raises no
\* cleanup of a stale attempt, of an upload taken back or of a delivery that was
\* repeated reaches its original either.
ReadyHasFiles ==
  \A i \in Images : status[i] = "READY" =>
    /\ i \in recorded /\ thumbs[i] = Sizes
    /\ faults <= 1 => i \in original

\* The upload request, the delete request and the deliveries of an image are over.
Over(i) ==
  /\ upload[i] \in UploadOver /\ delete[i] \in {"idle", "done"} /\ event[i] # "pending"
  /\ \A w \in Workers : image[w] = i => handler[w] = "idle"

\* No original file is left without a row, but that of an upload refused for
\* its position, which upload_image does leave (service.py:99-110, 145).
NoOrphanOriginal ==
  \A i \in Images : Over(i) /\ i \in original => (i \in Stored \/ slot[i] > MaxImages)

\* A deleted image leaves no thumbnail (tests/test_media_service.py:85: "delete
\* delegates binary removal"), unless the deletion had read its row before their keys
\* were recorded (service.py:205-210): then exactly those it had not found.
NoOrphanThumbnails ==
  \A i \in Images : Over(i) /\ i \notin Stored => thumbs[i] \in {{}, Sizes \ keys[i]}

\* No row leads to a file that was only begun: the original's key was never stored, nor
\* were those of an attempt that failed (service.py:89-94, thumbnail_service.py:42-48).
NoKeyToScrap ==
  \A p \in scraps : IF p[2] = Original THEN p[1] \notin Stored ELSE p[1] \notin recorded

\* Once everything about an image is over, no complete file is left without a row that
\* leads to it, but for the two kinds named above; the third kind of file that stays is
\* one a failed write has begun, which nobody is ever led to.
NoOrphanFiles == NoOrphanOriginal /\ NoOrphanThumbnails /\ NoKeyToScrap

\* Exactly the image some handler is working on is PROCESSING: a claim excludes
\* every other handler and is always given back.
ProcessingIsOwned ==
  \A i \in Images :
    status[i] = "PROCESSING" <=>
      i \in Stored /\ \E w \in Workers : image[w] = i /\ handler[w] \in {"open", "generate", "ready", "fail"}

\* Types hold, positions are unique and at most MaxImages images are stored, however many
\* uploads pass the count check together (domain/listings/images.py:16-18).
PositionsUnique ==
  /\ TypeOK
  /\ \A i, j \in Stored : i # j => position[i] # position[j]
  /\ \A i \in Stored : position[i] \in 1..MaxImages
  /\ Cardinality(Stored) <= MaxImages

\* A READY image never goes back: until a call raises it stays READY until it is
\* deleted, across crashes and repeated deliveries.
ReadyIsFinal ==
  [][faults' = 0 =>
       \A i \in Images : status[i] = "READY" => status'[i] \in {"READY", "deleted"}]_vars

\* Every image whose upload returned is eventually READY, FAILED for good or deleted, or
\* its event a dead letter, each of its deliveries having met an open transaction; then it
\* is not stuck in PROCESSING, and a requeue gives it another try (outbox_worker.py:106).
\* A call that raises or a crash may end that: both can leave an image PROCESSING.
UploadedIsProcessed ==
  \A i \in Images :
    upload[i] = "done" ~>
      \/ status[i] \in {"READY", "deleted"}
      \/ status[i] = "FAILED" /\ attempts[i] = MaxAttempts
      \/ event[i] = "dead" /\ CanClaim(i)
      \/ faults > 0 \/ crashes > 0
=============================================================================
