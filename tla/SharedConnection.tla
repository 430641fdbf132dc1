-------------------------- MODULE SharedConnection --------------------------
(***************************************************************************)
(* The SQLite repositories share one connection                            *)
(* (infrastructure/sqlite/database.py), opened for use from any thread, and *)
(* so one transaction: a COMMIT or a ROLLBACK ends whatever is open,       *)
(* whoever began it.  Each repository has its own idea of a lock: images   *)
(* hold Database.lock, the outbox a lock of its own, listings, users and   *)
(* reservations none.                                                      *)
(*                                                                         *)
(* A thread makes one write operation, and its write is named by the       *)
(* thread; statements of several threads interleave.  The threads without  *)
(* a lock save one listing, and its row of the search index with it.       *)
(***************************************************************************)
EXTENDS Naturals, FiniteSets

CONSTANTS
  ImageThreads,     \* callers of listing_image_repository.py
  OutboxThreads,    \* callers of outbox_repository.py
  BareThreads,      \* callers of listing_repository.py, for one listing
  MaxCrashes        \* bound

NoThread == "none"   \* a lock nobody holds

Threads == ImageThreads \cup OutboxThreads \cup BareThreads

ASSUME ThreadsAssumption == NoThread \notin Threads
ASSUME DisjointAssumption ==
  /\ ImageThreads \cap OutboxThreads = {}
  /\ BareThreads \cap (ImageThreads \cup OutboxThreads) = {}
ASSUME BoundAssumption == MaxCrashes \in Nat

VARIABLES
  txn,       \* conn.in_transaction
  dirty,     \* writes of the open transaction
  durable,   \* committed writes
  listing,   \* the connection's view: who wrote the row, whose index rows exist
  kept,      \* and what of it is committed
  holder,    \* the thread that holds each lock
  kind,      \* the operation a thread is making
  at,        \* and how far it is
  overlapped,   \* history: two saves of the listing were under way together
  crashes

search == <<listing, kept, overlapped>>
vars == <<txn, dirty, durable, search, holder, kind, at, crashes>>

Locks == {"database", "outbox"}
Kinds == {"none", "store", "claim", "mark", "save", "publish", "withdraw"}
UnderWay == {"entered", "begun", "half", "cleared", "wrote", "undo"}

KindsOf(t) ==
  IF t \in ImageThreads THEN {"store", "claim", "mark"}
  ELSE IF t \in OutboxThreads THEN {"save"} ELSE {"publish", "withdraw"}

LockOf(t) == IF t \in ImageThreads THEN "database" ELSE "outbox"

\* Locks, transaction and operations have their types; uncommitted writes belong to
\* an open transaction, as Python's sqlite3 begins one before a change (database.py:26).
TypeOK ==
  /\ txn \in {"open", "closed"}
  /\ dirty \subseteq Threads /\ durable \subseteq Threads
  /\ {listing, kept} \subseteq [row : BareThreads \cup {NoThread}, index : SUBSET BareThreads]
  /\ overlapped \in BOOLEAN
  /\ (txn = "closed" => dirty = {} /\ listing = kept)
  /\ holder \in [Locks -> Threads \cup {NoThread}]
  /\ kind \in [Threads -> Kinds]
  /\ at \in [Threads -> UnderWay \cup {"idle", "ok", "failed"}]
  /\ crashes \in Nat

Init ==
  /\ txn = "closed" /\ dirty = {} /\ durable = {}
  /\ listing = [row |-> NoThread, index |-> {}] /\ kept = listing
  /\ overlapped = FALSE
  /\ holder = [l \in Locks |-> NoThread]
  /\ kind = [t \in Threads |-> "none"]
  /\ at = [t \in Threads |-> "idle"]
  /\ crashes = 0

-----------------------------------------------------------------------------
(* Statements. *)

\* Python begins a transaction before a data change when none is open.
Change(ws) == txn' = "open" /\ dirty' = dirty \cup ws

\* A commit and a rollback end the transaction with everything in it.
CommitAll ==
  /\ txn' = "closed"
  /\ durable' = durable \cup dirty /\ dirty' = {}
  /\ kept' = listing

UndoAll ==
  /\ txn' = "closed" /\ dirty' = {}
  /\ listing' = kept

Advance(t, from, to) == at[t] = from /\ at' = [at EXCEPT ![t] = to]

Leave(t) ==
  holder' = IF t \in BareThreads THEN holder ELSE [holder EXCEPT ![LockOf(t)] = NoThread]

Saving == {u \in BareThreads : at[u] \in UnderWay}

Enter_mutant(t) ==   \* no "with self.db.lock"
  /\ Advance(t, "idle", "entered")
  /\ \E k \in KindsOf(t) : kind' = [kind EXCEPT ![t] = k]
  /\ UNCHANGED <<txn, dirty, durable, search, holder, crashes>>

Enter(t) ==
  /\ Advance(t, "idle", "entered")
  /\ \E k \in KindsOf(t) : kind' = [kind EXCEPT ![t] = k]
  /\ IF t \in BareThreads
     THEN UNCHANGED holder
     ELSE holder[LockOf(t)] = NoThread /\ holder' = [holder EXCEPT ![LockOf(t)] = t]
  /\ overlapped' = (overlapped \/ (t \in BareThreads /\ Saving \ {t} # {}))
  /\ UNCHANGED <<txn, dirty, durable, listing, kept, crashes>>

\* The INSERT or UPDATE of an operation of one statement.
Write(t) ==
  /\ kind[t] \in {"store", "mark", "save"}
  /\ Advance(t, "entered", "wrote")
  /\ Change({t})
  /\ UNCHANGED <<durable, search, holder, kind, crashes>>

\* An INSERT that a constraint refuses raises: store and add do not roll back.
WriteRefused(t) ==
  /\ kind[t] \in {"store", "publish", "withdraw"}
  /\ Advance(t, "entered", "failed")
  /\ Change({}) /\ Leave(t)
  /\ UNCHANGED <<durable, search, kind, crashes>>

\* mark_ready and mark_failed roll back when the row is gone (the outbox's
\* updates would, but its rows are never deleted).
RowMissing(t) ==
  /\ kind[t] = "mark"
  /\ Advance(t, "entered", "undo")
  /\ Change({})
  /\ UNCHANGED <<durable, search, holder, kind, crashes>>

\* claim_for_processing: BEGIN IMMEDIATE raises inside a transaction.
BeginImmediate(t) ==
  /\ kind[t] = "claim"
  /\ Advance(t, "entered", IF txn = "open" THEN "undo" ELSE "begun")
  /\ txn' = "open"
  /\ UNCHANGED <<dirty, durable, search, holder, kind, crashes>>

ClaimRow(t) ==
  /\ Advance(t, "begun", "wrote")
  /\ Change({t})
  /\ UNCHANGED <<durable, search, holder, kind, crashes>>

NotClaimable(t) ==
  /\ Advance(t, "begun", "undo")
  /\ UNCHANGED <<txn, dirty, durable, search, holder, kind, crashes>>

\* listing_repository.save: the row, then _sync_search_index, which deletes the row of
\* the index and inserts a new one for a PUBLISHED listing.
UpdateListing(t) ==
  /\ kind[t] \in {"publish", "withdraw"}
  /\ Advance(t, "entered", "half")
  /\ Change({t})
  /\ listing' = [listing EXCEPT !.row = t]
  /\ UNCHANGED <<durable, kept, overlapped, holder, kind, crashes>>

DeleteIndexed_mutant(t) ==   \* inserts without deleting
  /\ Advance(t, "half", IF kind[t] = "publish" THEN "cleared" ELSE "wrote")
  /\ Change({})
  /\ UNCHANGED <<durable, search, holder, kind, crashes>>

DeleteIndexed(t) ==
  /\ Advance(t, "half", IF kind[t] = "publish" THEN "cleared" ELSE "wrote")
  /\ Change({})
  /\ listing' = [listing EXCEPT !.index = {}]
  /\ UNCHANGED <<durable, kept, overlapped, holder, kind, crashes>>

InsertIndexed(t) ==
  /\ Advance(t, "cleared", "wrote")
  /\ Change({})
  /\ listing' = [listing EXCEPT !.index = @ \cup {t}]
  /\ UNCHANGED <<durable, kept, overlapped, holder, kind, crashes>>

Commit_mutant(t) ==   \* returns without it
  /\ Advance(t, "wrote", "ok")
  /\ Leave(t)
  /\ UNCHANGED <<txn, dirty, durable, search, kind, crashes>>

Commit(t) ==
  /\ Advance(t, "wrote", "ok")
  /\ CommitAll /\ Leave(t)
  /\ UNCHANGED <<listing, overlapped, kind, crashes>>

RollBack(t) ==
  /\ Advance(t, "undo", "failed")
  /\ UndoAll /\ Leave(t)
  /\ UNCHANGED <<durable, kept, overlapped, kind, crashes>>

\* The process ends and the connection with it; the callers get no answer.
Crash ==
  /\ crashes < MaxCrashes
  /\ crashes' = crashes + 1
  /\ UndoAll
  /\ holder' = [l \in Locks |-> NoThread]
  /\ at' = [t \in Threads |-> IF at[t] \in UnderWay THEN "failed" ELSE at[t]]
  /\ UNCHANGED <<durable, kept, overlapped, kind>>

Step(t) ==
  \/ Enter(t) \/ Write(t) \/ WriteRefused(t) \/ RowMissing(t)
  \/ BeginImmediate(t) \/ ClaimRow(t) \/ NotClaimable(t)
  \/ UpdateListing(t) \/ DeleteIndexed(t) \/ InsertIndexed(t)
  \/ Commit(t) \/ RollBack(t)

\* Every operation has been answered.  Any other state without a step would be
\* one where threads wait for each other's lock.
Answered == (\A t \in Threads : at[t] \in {"ok", "failed"}) /\ UNCHANGED vars

Next == (\E t \in Threads : Step(t)) \/ Crash \/ Answered

Spec == Init /\ [][Next]_vars

-----------------------------------------------------------------------------
(* Properties. *)

\* Whether two operations may run at the same time: one has no lock, or another one.
Exclude(t, u) == t \notin BareThreads /\ u \notin BareThreads /\ LockOf(t) = LockOf(u)

\* The operations that answered with a rollback rather than by leaving the
\* transaction of a refused INSERT open.
RolledBack(u) == at[u] = "failed" /\ kind[u] \in {"claim", "mark"}

\* An operation that has returned is in the database: an event whose save has returned
\* can be read and is listed for delivery (tests/test_outbox_repository.py:41-44).
ReturnedIsDurable == \A t \in Threads : at[t] = "ok" => t \in durable

\* Types hold, and what has returned is lost only to the rollback of an operation that
\* may run at the same time; neither early commits, nor refused INSERTs, nor a crash
\* undo it (listing_image_repository.py:69-110, outbox_repository.py:18).
LostOnlyToRollback ==
  /\ TypeOK
  /\ \A t \in Threads :
       at[t] = "ok" /\ t \notin durable => \E u \in Threads : RolledBack(u) /\ ~Exclude(t, u)

\* An operation that failed, or was lost, has left nothing in the database, unless
\* one that may run at the same time has committed it.
FailedLeavesNothing ==
  \A t \in Threads :
    at[t] = "failed" /\ t \in durable => \E u \in Threads : at[u] = "ok" /\ ~Exclude(t, u)

\* The search finds a PUBLISHED listing once and no other (listing_repository.py:125-126;
\* tests/test_search_sqlite_fts.py:118-142), whatever the other repositories commit
\* half way, as long as no two saves of it overlap and nothing rolls back or crashes.
IndexFollowsListing ==
  /\ ~overlapped /\ crashes = 0 /\ (\A u \in Threads : ~RolledBack(u))
  /\ \A t \in BareThreads : at[t] \in {"idle", "ok"}
  => kept.index = {t \in BareThreads : t = kept.row /\ kind[t] = "publish"}
=============================================================================
