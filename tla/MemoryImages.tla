----------------------------- MODULE MemoryImages -----------------------------
(***************************************************************************)
(* MemoryListingImageRepository (infrastructure/repositories/memory.py),   *)
(* the image rows of one listing when nothing is persisted.  The outbox    *)
(* loop claims and marks images under the repository's lock: it reads a    *)
(* row and puts a changed copy of it back.  store, delete_by_id and        *)
(* reorder_for_listing, called on request threads, do not take the lock:   *)
(* they read the rows one by one, number them and write back the rows they *)
(* have read.                                                              *)
(*                                                                         *)
(* Reading and writing one entry of the dictionary is a step.              *)
(***************************************************************************)
EXTENDS Naturals, FiniteSets, Sequences, SequencesExt

CONSTANTS
  Images,        \* image ids, numbered in the order of created_at
  Loops,         \* outbox loops
  Threads,       \* a bound on the requests under way at once
  OverlapOnce,   \* a bound: requests that have overlapped do not do so again later
  MaxReorders,   \* a bound on the requests to reorder
  MaxAttempts    \* MAX_PROCESSING_ATTEMPTS

ASSUME ImagesAssumption == Images \subseteq Nat \ {0} /\ IsFiniteSet(Images)
ASSUME ThreadsAssumption == Threads \in Nat \ {0}
ASSUME OverlapAssumption == OverlapOnce \in BOOLEAN
ASSUME ReordersAssumption == MaxReorders \in Nat
ASSUME AttemptsAssumption == MaxAttempts \in Nat \ {0}

NoImage == 0

Requests == ({"store", "delete"} \X Images) \cup ({"reorder"} \X (1..MaxReorders))

\* Definitions named ..._mutant are plausible bugs of the definition after them;
\* no action uses them, the properties are tested against them.

VARIABLES
  row,       \* _store
  req,       \* each request: where it is, and what it has read
  loop,      \* each loop: its image, where it is with it, and the copy to put back
  met        \* history: what has come between the steps of another, see Meet

vars == <<row, req, loop, met>>

NoRow == [status |-> "none", attempts |-> 0, position |-> 0]
Rows == [status : {"PENDING", "PROCESSING", "READY", "FAILED"},
         attempts : 0..MaxAttempts, position : 1..Cardinality(Images)]

Keys == {i \in Images : row[i] # NoRow}

\* at: the step to make; size: the length of _store when its iteration began;
\* seen: the rows read; order: the images in the order they are numbered in; next:
\* the one to read again or to write.
Ended(how) == [at |-> how, size |-> 0, seen |-> [i \in {} |-> NoRow], order |-> <<>>, next |-> 1]
Idle == {Ended("idle"), Ended("done"), Ended("raised")}

\* A loop is "idle", has claimed its image ("working"), or is in between under the lock.
Resting == [at |-> "idle", image |-> NoImage, copy |-> NoRow]
Locked == {"claim", "mark"}

\* Rows and requests have their types; positions stay within the listing and attempts
\* within MAX_PROCESSING_ATTEMPTS (memory.py:133, 210).
TypeOK ==
  /\ row \in [Images -> Rows \cup {NoRow}]
  /\ \A r \in Requests : req[r] \notin Idle =>
       /\ req[r].at \in {"change", "list", "scan", "reread", "write"}
       /\ req[r].size \in 0..Cardinality(Images)
       /\ DOMAIN req[r].seen \subseteq Images
       /\ \A i \in DOMAIN req[r].seen : req[r].seen[i] \in Rows
       /\ \A k \in DOMAIN req[r].order :
            k >= req[r].next => req[r].order[k] \in DOMAIN req[r].seen
       /\ req[r].at \in {"reread", "write"} => req[r].next \in DOMAIN req[r].order
  /\ loop \in [Loops -> [at : {"idle", "working"} \cup Locked, image : Images \cup {NoImage},
                         copy : Rows \cup {NoRow}]]
  /\ \A w \in Loops : /\ loop[w].at = "idle" <=> loop[w].image = NoImage
                      /\ loop[w].at \in Locked <=> loop[w].copy # NoRow
  /\ met \subseteq {"request", "loop", "change"}

Init ==
  /\ row = [i \in Images |-> NoRow]
  /\ req = [r \in Requests |-> Ended("idle")]
  /\ loop = [w \in Loops |-> Resting]
  /\ met = {}

Quiet == \A r \in Requests : req[r] \in Idle

\* A request begins ("request"), or the loop makes a step ("loop"), beside a request ...
Meet(who) == met' = IF Quiet THEN met ELSE met \cup {who}

\* ... or a request changes a row that a loop has read and not yet put back ("change").
Change(i, new) ==
  /\ row' = [row EXCEPT ![i] = new]
  /\ met' = IF new # row[i] /\ \E w \in Loops : loop[w].at \in Locked /\ loop[w].image = i
            THEN met \cup {"change"} ELSE met

-----------------------------------------------------------------------------
(* The loop, under the lock. *)

LockFree == \A w \in Loops : loop[w].at \notin Locked

\* claim_for_processing: the row as it was read ...
Claim(w) ==
  /\ loop[w] = Resting /\ LockFree
  /\ \E i \in Keys :
       /\ row[i].status \notin {"READY", "PROCESSING"} /\ row[i].attempts < MaxAttempts
       /\ loop' = [loop EXCEPT ![w] =
                     [at |-> "claim", image |-> i,
                      copy |-> [row[i] EXCEPT !.status = "PROCESSING", !.attempts = @ + 1]]]
  /\ Meet("loop") /\ UNCHANGED <<row, req>>

MarkAs_mutant(w, status) ==   \* a failure records the error alone
  /\ loop[w].at = "working" /\ LockFree
  /\ loop' = [loop EXCEPT ![w] =
                IF loop[w].image \in Keys
                THEN [@ EXCEPT !.at = "mark",
                               !.copy = IF status = "READY" THEN [row[loop[w].image] EXCEPT !.status = status]
                                        ELSE row[loop[w].image]]
                ELSE Resting]
  /\ Meet("loop") /\ UNCHANGED <<row, req>>

MarkAs_mutant2(w, status) ==   \* the claimed row is written, there or not
  /\ loop[w].at = "working" /\ LockFree
  /\ loop' = [loop EXCEPT ![w] = [@ EXCEPT !.at = "mark",
                !.copy = [status |-> status, attempts |-> 1, position |-> 1]]]
  /\ Meet("loop") /\ UNCHANGED <<row, req>>

\* mark_ready and mark_failed return None when the row is gone.
MarkAs(w, status) ==
  /\ loop[w].at = "working" /\ LockFree
  /\ loop' = [loop EXCEPT ![w] =
                IF loop[w].image \in Keys
                THEN [@ EXCEPT !.at = "mark", !.copy = [row[loop[w].image] EXCEPT !.status = status]]
                ELSE Resting]
  /\ Meet("loop") /\ UNCHANGED <<row, req>>

\* ... is put back with its new status, whatever is there by now.
PutBack(w) ==
  /\ loop[w].at \in Locked
  /\ row' = [row EXCEPT ![loop[w].image] = loop[w].copy]
  /\ loop' = [loop EXCEPT ![w] = IF @.at = "claim" THEN [@ EXCEPT !.at = "working", !.copy = NoRow]
                                ELSE Resting]
  /\ Meet("loop") /\ UNCHANGED req

-----------------------------------------------------------------------------
(* The requests, without it. *)

Go(r, from, to) == req[r].at = from /\ req' = [req EXCEPT ![r] = to]

\* An image is uploaded once, and deleted once, when it is there; upload_image has
\* counted the images of the listing.
Begin(r) ==
  /\ Cardinality({q \in Requests : req[q] \notin Idle}) < Threads
  /\ OverlapOnce /\ "request" \in met => Quiet
  /\ r[1] = "delete" => r[2] \in Keys
  /\ Go(r, "idle",
        IF r[1] = "reorder" THEN Ended("list")
        ELSE [Ended("change") EXCEPT !.size = Cardinality(Keys)])
  /\ Meet("request") /\ UNCHANGED <<row, loop>>

\* store: the new row has the position upload_image chose, one more than the
\* images it had counted.
Insert(r) ==
  /\ r[1] = "store" /\ Go(r, "change", Ended("list"))
  /\ Change(r[2], [status |-> "PENDING", attempts |-> 0, position |-> req[r].size + 1])
  /\ UNCHANGED loop

Pop_mutant(r) ==   \* no compaction
  /\ r[1] = "delete" /\ Go(r, "change", Ended("done"))
  /\ Change(r[2], NoRow)
  /\ UNCHANGED loop

\* delete_by_id: pop, then compact; an image that is gone is not found.
Pop(r) ==
  /\ r[1] = "delete" /\ Go(r, "change", Ended(IF r[2] \in Keys THEN "list" ELSE "done"))
  /\ Change(r[2], NoRow)
  /\ UNCHANGED loop

\* The iteration over _store starts with its length.
StartScan(r) ==
  /\ Go(r, "list", [Ended("scan") EXCEPT !.size = Cardinality(Keys)])
  /\ UNCHANGED <<row, loop, met>>

\* _ordered_images reads the values of _store one by one ...
Visit(r) ==
  /\ Cardinality(Keys) = req[r].size
  /\ \E i \in Keys \ DOMAIN req[r].seen :
       Go(r, "scan", [req[r] EXCEPT !.seen =
                        [j \in DOMAIN @ \cup {i} |-> IF j = i THEN row[i] ELSE @[j]]])
  /\ UNCHANGED <<row, loop, met>>

\* ... and raises a RuntimeError when their number has changed.
SizeChanged(r) ==
  /\ Cardinality(Keys) # req[r].size
  /\ Go(r, "scan", Ended("raised"))
  /\ UNCHANGED <<row, loop, met>>

\* sorted by position, then created_at.
Before(rows, i, j) ==
  \/ rows[i].position < rows[j].position
  \/ rows[i].position = rows[j].position /\ i < j

\* All values are read: _compact_listing will number them in their order;
\* reorder_for_listing was given all of them in an order of the client's, or raises.
Scanned(r) ==
  /\ Cardinality(Keys) = req[r].size /\ Keys \subseteq DOMAIN req[r].seen
  /\ \E s \in SetToSeqs(DOMAIN req[r].seen) :
       /\ r[1] # "reorder" =>
            \A k, l \in DOMAIN s : k < l => Before(req[r].seen, s[k], s[l])
       /\ Go(r, "scan",
             IF s = <<>> THEN Ended("done")
             ELSE [req[r] EXCEPT !.order = s, !.size = 0,
                                 !.at = IF r[1] = "reorder" THEN "reread" ELSE "write"])
  /\ UNCHANGED <<row, loop, met>>

\* The next row of the order is dealt with; after the last one the request goes on.
Advanced(q, after) ==
  IF q.next = Len(q.order) THEN after ELSE [q EXCEPT !.next = @ + 1]

\* reorder_for_listing reads each row again ...
Reread(r) ==
  LET i == req[r].order[req[r].next]
      q == [req[r] EXCEPT !.seen[i] = row[i]]
  IN  /\ Go(r, "reread", Advanced(q, [q EXCEPT !.at = "write", !.next = 1]))
      /\ i \in Keys
      /\ UNCHANGED <<row, loop, met>>

\* ... and raises a KeyError when one is gone.
RowGone(r) ==
  /\ Go(r, "reread", Ended("raised"))
  /\ req[r].order[req[r].next] \notin Keys
  /\ UNCHANGED <<row, loop, met>>

\* replace(image, position=index) is put back, whatever is there by now.
Write(r) ==
  LET q == req[r]
      i == q.order[q.next]
      rest == [q EXCEPT !.seen = Restrict(@, DOMAIN @ \ {i})]
  IN  /\ Go(r, "write", Advanced(rest, Ended("done")))
      /\ Change(i, [q.seen[i] EXCEPT !.position = q.next])
      /\ UNCHANGED loop

Next ==
  \/ \E w \in Loops : Claim(w) \/ PutBack(w) \/ \E status \in {"READY", "FAILED"} : MarkAs(w, status)
  \/ \E r \in Requests :
       \/ Begin(r) \/ Insert(r) \/ Pop(r) \/ StartScan(r)
       \/ Visit(r) \/ SizeChanged(r) \/ Scanned(r)
       \/ Reread(r) \/ RowGone(r) \/ Write(r)

Spec == Init /\ [][Next]_vars

-----------------------------------------------------------------------------
(* Properties. *)

\* Types hold and, when no request is under way, the rows are numbered 1, 2, ... without a
\* gap, "a new contiguous ordering" (domain/listings/repositories.py:89), unless requests
\* have overlapped or a row was changed that the loop had read and not yet put back:
\* otherwise the loop may come between any two steps of a request.
PositionsContiguous ==
  /\ TypeOK
  /\ Quiet /\ met \subseteq {"loop"} => {row[i].position : i \in Keys} = 1..Cardinality(Keys)

\* When neither a request nor the loop is at work, no image is PROCESSING (one that is
\* would never be claimed again: tests/test_async_media_api.py:52-57), unless the loop
\* has made a step beside a request: requests alone, however they overlap with each other
\* and between the steps of a claim, put no stale status back for good.
NoneLeftProcessing ==
  Quiet /\ "loop" \notin met /\ (\A w \in Loops : loop[w] = Resting) =>
    \A i \in Keys : row[i].status # "PROCESSING"

\* An image whose deletion was answered with True stays deleted (memory.py:255-263),
\* unless requests have overlapped or the loop had read the row and not yet put it back:
\* a loop that has only claimed the image finds it gone and leaves it so.
DeletedIsGone ==
  met \subseteq {"loop"} =>
    \A i \in Images : req[<<"delete", i>>].at = "done" => row[i] = NoRow

\* An uploaded image is in the listing until its deletion takes it out, however the
\* requests and the loop overlap: store has its row in before it numbers the others, and no
\* request that numbers them drops one it has not read (memory.py:130-137).
UploadKept ==
  \A i \in Images :
    /\ req[<<"store", i>>].at \notin {"idle", "change"}
    /\ req[<<"delete", i>>].at \in {"idle", "change"}
    => i \in Keys

\* Uploads and deletions that were answered are in the listing, as far as said above.
RowsFollowRequests == UploadKept /\ DeletedIsGone
=============================================================================
