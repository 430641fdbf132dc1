--------------------------- MODULE DatabaseProofs ---------------------------
(***************************************************************************)
(* What the SQLite database guarantees.                                    *)
(*                                                                         *)
(* SharedConnection, for every set of threads of each kind: who can undo a *)
(* write that was answered, who can commit one that was not, and when the  *)
(* search index follows the listing.                                       *)
(*                                                                         *)
(* StartUp, for every number of images, listings and positions: what a     *)
(* start makes of the file it finds, when it fails, and that it changes    *)
(* neither a current file nor the order of the images.  The names of the   *)
(* two specifications are apart, and so are their theorems.                *)
(***************************************************************************)
EXTENDS SharedConnection, StartUp, FiniteSetTheorems, TLAPS

-----------------------------------------------------------------------------
(* SharedConnection: types, locks and the operations the steps belong to. *)

\* An operation makes the steps of its kind, which its thread's repository has.
KindFits ==
  \A t \in Threads :
    /\ at[t] # "idle" => kind[t] \in KindsOf(t)
    /\ at[t] = "undo" => kind[t] \in {"claim", "mark"}
    /\ at[t] = "begun" => kind[t] = "claim"
    /\ at[t] \in {"half", "cleared"} => t \in BareThreads
    /\ at[t] = "cleared" => kind[t] = "publish"

\* Who has a lock to take holds it while its operation is under way.
HoldsLock ==
  \A t \in Threads \ BareThreads : at[t] \in UnderWay => holder[LockOf(t)] = t

Typed == TypeOK /\ KindFits /\ HoldsLock

LEMMA TypeInit == Init => Typed
<1> SUFFICES ASSUME Init PROVE Typed
  OBVIOUS
<1>1. listing \in [row : BareThreads \cup {NoThread}, index : SUBSET BareThreads]
  BY DEF Init
<1>2. TypeOK
  BY <1>1 DEF Init, TypeOK, Threads, Locks, Kinds, UnderWay
<1>3. KindFits /\ HoldsLock
  BY DEF Init, KindFits, HoldsLock, UnderWay
<1> QED
  BY <1>2, <1>3 DEF Typed

LEMMA TypeStep == Typed /\ [Next]_vars => Typed'
<1> SUFFICES ASSUME Typed, [Next]_vars PROVE Typed'
  OBVIOUS
<1> USE ThreadsAssumption, DisjointAssumption
    DEF Typed, TypeOK, KindFits, HoldsLock, Threads, Locks, Kinds, KindsOf, LockOf,
        UnderWay, Advance, Change, CommitAll, UndoAll, Leave, search
<1>1. ASSUME NEW t \in Threads, Enter(t) PROVE Typed'
  BY <1>1 DEF Enter
<1>2. ASSUME NEW t \in Threads, Write(t) PROVE Typed'
  BY <1>2 DEF Write
<1>3. ASSUME NEW t \in Threads, WriteRefused(t) PROVE Typed'
  BY <1>3 DEF WriteRefused
<1>4. ASSUME NEW t \in Threads, RowMissing(t) PROVE Typed'
  BY <1>4 DEF RowMissing
<1>5. ASSUME NEW t \in Threads, BeginImmediate(t) PROVE Typed'
  BY <1>5 DEF BeginImmediate
<1>6. ASSUME NEW t \in Threads, ClaimRow(t) PROVE Typed'
  BY <1>6 DEF ClaimRow
<1>7. ASSUME NEW t \in Threads, NotClaimable(t) PROVE Typed'
  BY <1>7 DEF NotClaimable
<1>8. ASSUME NEW t \in Threads, UpdateListing(t) PROVE Typed'
  BY <1>8 DEF UpdateListing
<1>9. ASSUME NEW t \in Threads, DeleteIndexed(t) PROVE Typed'
  BY <1>9 DEF DeleteIndexed
<1>10. ASSUME NEW t \in Threads, InsertIndexed(t) PROVE Typed'
  BY <1>10 DEF InsertIndexed
<1>11. ASSUME NEW t \in Threads, Commit(t) PROVE Typed'
  BY <1>11 DEF Commit
<1>12. ASSUME NEW t \in Threads, RollBack(t) PROVE Typed'
  BY <1>12 DEF RollBack
<1>13. CASE Crash
  BY <1>13, BoundAssumption DEF Crash
<1>14. CASE Answered \/ UNCHANGED vars
  BY <1>14 DEF Answered, vars
<1> QED
  BY <1>1, <1>2, <1>3, <1>4, <1>5, <1>6, <1>7, <1>8, <1>9, <1>10, <1>11, <1>12, <1>13, <1>14
  DEF Next, Step

LEMMA TypeInvariant == Spec => []Typed
BY TypeInit, TypeStep, PTL DEF Spec

\* Operations under the same lock are not under way together.
LEMMA LocksExclude ==
  ASSUME NEW t \in Threads, NEW u \in Threads, t # u, Typed,
         at[t] \in UnderWay, at[u] \in UnderWay
  PROVE  ~Exclude(t, u)
BY DEF Typed, HoldsLock, Exclude

-----------------------------------------------------------------------------
(* What was answered is lost only to a rollback. *)

\* A write that was made is pending or committed, unless an operation that may run at
\* the same time has rolled back.
Undone(t) == \E u \in Threads : RolledBack(u) /\ ~Exclude(t, u)

WriteKept ==
  \A t \in Threads :
    /\ at[t] \in {"half", "cleared", "wrote"} => t \in dirty \cup durable \/ Undone(t)
    /\ at[t] = "ok" => t \in durable \/ Undone(t)

\* An operation that has rolled back has ended.
LEMMA RolledBackStays ==
  ASSUME NEW u \in Threads, Typed, [Next]_vars, RolledBack(u)
  PROVE  RolledBack(u)'
<1>1. at[u] = "failed" /\ kind[u] \in {"claim", "mark"}
  BY DEF RolledBack
<1>2. ASSUME NEW t \in Threads, Step(t) PROVE at'[u] = at[u] /\ kind'[u] = kind[u]
  <2>1. t # u
    BY <1>1, <1>2 DEF Step, Advance, Enter, Write, WriteRefused, RowMissing, BeginImmediate, ClaimRow,
       NotClaimable, UpdateListing, DeleteIndexed, InsertIndexed, Commit, RollBack
  <2>2. at'[u] = at[u]
    BY <1>2, <2>1 DEF Typed, TypeOK, Step, Advance, Enter, Write, WriteRefused, RowMissing,
       BeginImmediate, ClaimRow, NotClaimable, UpdateListing, DeleteIndexed, InsertIndexed, Commit, RollBack
  <2>3. kind'[u] = kind[u]
    BY <1>2, <2>1 DEF Typed, TypeOK, Step, Enter, Write, WriteRefused, RowMissing,
       BeginImmediate, ClaimRow, NotClaimable, UpdateListing, DeleteIndexed, InsertIndexed, Commit, RollBack
  <2> QED
    BY <2>2, <2>3
<1>3. CASE Crash
  BY <1>1, <1>3 DEF Crash, UnderWay, RolledBack
<1>4. CASE Answered \/ UNCHANGED vars
  BY <1>4 DEF Answered, vars, RolledBack
<1> QED
  BY <1>1, <1>2, <1>3, <1>4 DEF Next, RolledBack

\* What an operation has rolled back stays rolled back.
LEMMA UndoneStays ==
  ASSUME NEW t \in Threads, Typed, [Next]_vars, Undone(t)
  PROVE  Undone(t)'
<1>1. PICK u \in Threads : RolledBack(u) /\ ~Exclude(t, u)
  BY DEF Undone
<1> QED
  BY <1>1, RolledBackStays DEF Undone, Exclude

LEMMA WriteKeptInit == Init => WriteKept
BY DEF Init, WriteKept

LEMMA WriteKeptStep == Typed /\ WriteKept /\ [Next]_vars => WriteKept'
<1> SUFFICES ASSUME Typed, WriteKept, [Next]_vars PROVE WriteKept'
  OBVIOUS
<1> USE DEF Typed, TypeOK, WriteKept, Advance, Change, UnderWay
<1>u. \A t \in Threads : Undone(t) => Undone(t)'
  BY UndoneStays
<1>1. ASSUME NEW t \in Threads,
             Enter(t) \/ Write(t) \/ WriteRefused(t) \/ RowMissing(t) \/ BeginImmediate(t)
             \/ ClaimRow(t) \/ NotClaimable(t)
      PROVE  WriteKept'
  BY <1>1, <1>u DEF Enter, Write, WriteRefused, RowMissing, BeginImmediate, ClaimRow,
     NotClaimable
<1>2. ASSUME NEW t \in Threads, UpdateListing(t) \/ DeleteIndexed(t) \/ InsertIndexed(t)
      PROVE  WriteKept'
  BY <1>2, <1>u DEF UpdateListing, DeleteIndexed, InsertIndexed
<1>3. ASSUME NEW t \in Threads, Commit(t) PROVE WriteKept'
  BY <1>3, <1>u DEF Commit, CommitAll
<1>4. ASSUME NEW u \in Threads, RollBack(u) PROVE WriteKept'
  <2> SUFFICES ASSUME NEW t \in Threads, at'[t] \in {"half", "cleared", "wrote", "ok"}
               PROVE  t \in durable' \/ Undone(t)'
    OBVIOUS
  <2>1. t # u /\ at'[t] = at[t]
    BY <1>4 DEF RollBack
  <2>2. CASE at[t] = "ok"
    BY <1>4, <1>u, <2>1, <2>2 DEF RollBack
  <2>3. CASE at[t] # "ok"
    <3>1. ~Exclude(t, u)
      BY <1>4, <2>1, <2>3, LocksExclude DEF RollBack
    <3>2. RolledBack(u)'
      BY <1>4 DEF RollBack, RolledBack, KindFits
    <3> QED
      BY <3>1, <3>2 DEF Undone, Exclude
  <2> QED
    BY <2>2, <2>3
<1>5. CASE Crash
  BY <1>5, <1>u DEF Crash
<1>6. CASE Answered \/ UNCHANGED vars
  BY <1>6, <1>u DEF Answered, vars
<1> QED
  BY <1>1, <1>2, <1>3, <1>4, <1>5, <1>6 DEF Next, Step

\* For any threads: what has returned is lost only to the rollback of an operation of
\* another lock or of none, never to a commit, a refused INSERT or a crash
\* (listing_image_repository.py:69-110, outbox_repository.py:18).
THEOREM OnlyRollbackLoses == Spec => []LostOnlyToRollback
<1>1. Typed /\ WriteKept => LostOnlyToRollback
  BY DEF Typed, WriteKept, Undone, LostOnlyToRollback
<1> QED
  BY <1>1, TypeInvariant, WriteKeptInit, WriteKeptStep, PTL DEF Spec

-----------------------------------------------------------------------------
(* What failed is committed only by another. *)

\* A write is pending only while its operation is under way, and is committed before
\* its own commit only by an operation that may run at the same time.
Committed(t) == \E u \in Threads : at[u] = "ok" /\ ~Exclude(t, u)

OwnWrite ==
  \A t \in Threads :
    /\ t \in dirty => at[t] \in {"half", "cleared", "wrote"}
    /\ t \in durable => at[t] = "ok" \/ Committed(t)

LEMMA OwnWriteInit == Init => OwnWrite
BY DEF Init, OwnWrite

LEMMA OwnWriteStep == Typed /\ OwnWrite /\ [Next]_vars => OwnWrite'
<1> SUFFICES ASSUME Typed, OwnWrite, [Next]_vars PROVE OwnWrite'
  OBVIOUS
<1> USE DEF Typed, TypeOK, OwnWrite, Advance, Change, UnderWay
<1>o. \A t \in Threads : at[t] = "ok" => at'[t] = "ok"
  BY DEF Next, Step, vars, Enter, Write, WriteRefused, RowMissing, BeginImmediate, ClaimRow,
     NotClaimable, UpdateListing, DeleteIndexed, InsertIndexed, Commit, RollBack, Crash,
     Answered
<1>c. \A t \in Threads : Committed(t) => Committed(t)'
  BY <1>o DEF Committed, Exclude
<1>1. ASSUME NEW t \in Threads,
             Enter(t) \/ Write(t) \/ WriteRefused(t) \/ RowMissing(t) \/ BeginImmediate(t)
             \/ ClaimRow(t) \/ NotClaimable(t)
      PROVE  OwnWrite'
  BY <1>1, <1>c DEF Enter, Write, WriteRefused, RowMissing, BeginImmediate, ClaimRow,
     NotClaimable
<1>2. ASSUME NEW t \in Threads, UpdateListing(t) \/ DeleteIndexed(t) \/ InsertIndexed(t)
      PROVE  OwnWrite'
  BY <1>2, <1>c DEF UpdateListing, DeleteIndexed, InsertIndexed
<1>3. ASSUME NEW u \in Threads, Commit(u) PROVE OwnWrite'
  <2>1. ASSUME NEW t \in Threads, t \in dirty, t # u PROVE Committed(t)'
    <3>1. ~Exclude(t, u)
      BY <1>3, <2>1, LocksExclude DEF Commit
    <3>2. at'[u] = "ok"
      BY <1>3 DEF Commit
    <3> QED
      BY <3>1, <3>2 DEF Committed, Exclude
  <2> QED
    BY <1>3, <1>o, <1>c, <2>1 DEF Commit, CommitAll
<1>4. ASSUME NEW t \in Threads, RollBack(t) PROVE OwnWrite'
  BY <1>4, <1>c, <1>o DEF RollBack, UndoAll
<1>5. CASE Crash
  BY <1>5, <1>c, <1>o DEF Crash, UndoAll
<1>6. CASE Answered \/ UNCHANGED vars
  BY <1>6, <1>c DEF Answered, vars
<1> QED
  BY <1>1, <1>2, <1>3, <1>4, <1>5, <1>6 DEF Next, Step

\* For any threads: an operation that failed or was lost is in the database only when
\* one of another lock or of none has committed it.
THEOREM FailureIsUndone == Spec => []FailedLeavesNothing
<1>1. OwnWrite => FailedLeavesNothing
  BY DEF OwnWrite, Committed, FailedLeavesNothing
<1> QED
  BY <1>1, TypeInvariant, OwnWriteInit, OwnWriteStep, PTL DEF Spec

-----------------------------------------------------------------------------
(* The index follows the listing. *)

\* Two saves of the listing under way together have overlapped; only a thread that has
\* written the listing is in its row.
SavesApart ==
  /\ \A t, u \in BareThreads :
       at[t] \in UnderWay /\ at[u] \in UnderWay /\ t # u => overlapped
  /\ \A t \in Threads : listing.row = t \/ kept.row = t => at[t] \notin {"idle", "entered"}

\* Nothing has happened that may tear the listing and its index apart.
Undisturbed == ~overlapped /\ crashes = 0 /\ \A u \in Threads : ~RolledBack(u)

\* The rows of the index that a PUBLISHED listing has when nobody is saving it.
IndexDue == {t \in BareThreads : t = listing.row /\ kind[t] = "publish"}

\* The connection sees the row of the thread that is saving, without an index or with
\* its own; between saves row and index agree, and what was answered is committed.
IndexInStep ==
  Undisturbed =>
    /\ \A t \in BareThreads :
         /\ at[t] \in {"half", "cleared", "wrote"} => listing.row = t
         /\ at[t] = "cleared" => listing.index = {}
         /\ at[t] = "wrote" => listing.index = IndexDue
    /\ (\A t \in BareThreads : at[t] \notin {"half", "cleared", "wrote"}) => listing.index = IndexDue
    /\ (\A t \in BareThreads : at[t] \in {"idle", "ok"}) => kept = listing

LEMMA SavesApartInit == Init => SavesApart /\ IndexInStep
<1> SUFFICES ASSUME Init PROVE SavesApart /\ IndexInStep
  OBVIOUS
<1>1. listing.row = NoThread /\ listing.index = {} /\ kept = listing
  BY DEF Init
<1> QED
  BY <1>1, ThreadsAssumption DEF Init, SavesApart, IndexInStep, IndexDue, UnderWay, Threads

LEMMA SavesApartStep == Typed /\ SavesApart /\ [Next]_vars => SavesApart'
<1> SUFFICES ASSUME Typed, SavesApart, [Next]_vars PROVE SavesApart'
  OBVIOUS
<1> USE ThreadsAssumption
    DEF Typed, TypeOK, SavesApart, Advance, UnderWay, Threads, search
<1>1. ASSUME NEW t \in Threads, Enter(t) PROVE SavesApart'
  <2>1. ASSUME NEW u \in BareThreads, u # t, t \in BareThreads, at[u] \in UnderWay PROVE overlapped'
    BY <1>1, <2>1 DEF Enter, Saving
  <2>2. overlapped => overlapped'
    BY <1>1 DEF Enter
  <2>3. \A u \in Threads : u # t => at'[u] = at[u]
    BY <1>1 DEF Enter
  <2>4. UNCHANGED <<listing, kept>> /\ at[t] = "idle"
    BY <1>1 DEF Enter
  <2> QED
    BY <2>1, <2>2, <2>3, <2>4
<1>2. ASSUME NEW t \in Threads,
             Write(t) \/ WriteRefused(t) \/ RowMissing(t) \/ BeginImmediate(t)
             \/ ClaimRow(t) \/ NotClaimable(t)
      PROVE  SavesApart'
  BY <1>2 DEF Write, WriteRefused, RowMissing, BeginImmediate, ClaimRow, NotClaimable
<1>3. ASSUME NEW t \in Threads, UpdateListing(t) \/ DeleteIndexed(t) \/ InsertIndexed(t)
      PROVE  SavesApart'
  <2>1. listing'.row \in {t, listing.row}
    BY <1>3 DEF UpdateListing, DeleteIndexed, InsertIndexed
  <2> QED
    BY <1>3, <2>1 DEF UpdateListing, DeleteIndexed, InsertIndexed
<1>4. ASSUME NEW t \in Threads, Commit(t) \/ RollBack(t) PROVE SavesApart'
  BY <1>4 DEF Commit, RollBack, CommitAll, UndoAll
<1>5. CASE Crash
  BY <1>5 DEF Crash, UndoAll
<1>6. CASE Answered \/ UNCHANGED vars
  BY <1>6 DEF Answered, vars
<1> QED
  BY <1>1, <1>2, <1>3, <1>4, <1>5, <1>6 DEF Next, Step

\* What has disturbed the listing stays.
LEMMA UndisturbedBefore == Typed /\ [Next]_vars /\ Undisturbed' => Undisturbed
<1> SUFFICES ASSUME Typed, [Next]_vars, Undisturbed' PROVE Undisturbed
  OBVIOUS
<1>1. overlapped => overlapped'
  BY DEF Next, Step, vars, search, Enter, Write, WriteRefused, RowMissing, BeginImmediate,
     ClaimRow, NotClaimable, UpdateListing, DeleteIndexed, InsertIndexed, Commit, RollBack,
     Crash, Answered
<1>3. crashes' \in {crashes, crashes + 1}
  BY DEF Next, Step, vars, search, Enter, Write, WriteRefused, RowMissing, BeginImmediate,
     ClaimRow, NotClaimable, UpdateListing, DeleteIndexed, InsertIndexed, Commit, RollBack,
     Crash, Answered
<1>2. ASSUME NEW u \in Threads, RolledBack(u) PROVE RolledBack(u)'
  BY <1>2, RolledBackStays
<1> QED
  BY <1>1, <1>2, <1>3 DEF Undisturbed, Typed, TypeOK

LEMMA IndexStep == Typed /\ SavesApart /\ IndexInStep /\ [Next]_vars => IndexInStep'
<1> SUFFICES ASSUME Typed, SavesApart, IndexInStep, [Next]_vars, Undisturbed'
             PROVE  IndexInStep'
  BY DEF IndexInStep
<1>u. Undisturbed
  BY UndisturbedBefore
<1> USE <1>u, ThreadsAssumption, DisjointAssumption
    DEF Typed, TypeOK, KindFits, KindsOf, IndexInStep, IndexDue, Advance, UnderWay, Threads, search
<1>1. ASSUME NEW t \in Threads, Enter(t) PROVE IndexInStep'
  <2>1. UNCHANGED <<listing, kept>> /\ listing.row # t
    BY <1>1 DEF Enter, SavesApart
  <2>2. ASSUME NEW u \in BareThreads
        PROVE  /\ u # t => at'[u] = at[u] /\ kind'[u] = kind[u]
               /\ u = t => at[u] = "idle" /\ at'[u] = "entered"
    BY <1>1 DEF Enter
  <2>3. IndexDue' = IndexDue
    BY <2>1, <2>2
  <2> QED
    BY <2>1, <2>2, <2>3
<1>2. ASSUME NEW t \in Threads, Write(t) \/ RowMissing(t) \/ BeginImmediate(t) \/ ClaimRow(t)
                                \/ NotClaimable(t) \/ WriteRefused(t)
      PROVE  IndexInStep'
  <2>1. UNCHANGED <<listing, kept, kind>>
    BY <1>2 DEF Write, RowMissing, BeginImmediate, ClaimRow, NotClaimable, WriteRefused
  <2>2. ASSUME NEW u \in BareThreads
        PROVE  at'[u] = at[u] \/ (u = t /\ at[u] = "entered" /\ at'[u] = "failed")
    BY <1>2 DEF Write, RowMissing, BeginImmediate, ClaimRow, NotClaimable, WriteRefused
  <2> QED
    BY <2>1, <2>2
<1>3. ASSUME NEW t \in Threads, UpdateListing(t) PROVE IndexInStep'
  BY <1>3, <1>u DEF UpdateListing, SavesApart, Undisturbed
<1>4. ASSUME NEW t \in Threads, DeleteIndexed(t) PROVE IndexInStep'
  BY <1>4, <1>u DEF DeleteIndexed, SavesApart, Undisturbed
<1>5. ASSUME NEW t \in Threads, InsertIndexed(t) PROVE IndexInStep'
  BY <1>5, <1>u DEF InsertIndexed, SavesApart, Undisturbed
<1>6. ASSUME NEW t \in Threads, Commit(t) PROVE IndexInStep'
  BY <1>6, <1>u DEF Commit, CommitAll, SavesApart, Undisturbed
<1>7. ASSUME NEW t \in Threads, RollBack(t) PROVE IndexInStep'
  BY <1>7 DEF RollBack, RolledBack, Undisturbed
<1>8. CASE Crash
  BY <1>8, BoundAssumption DEF Crash, Undisturbed
<1>9. CASE Answered \/ UNCHANGED vars
  BY <1>9 DEF Answered, vars
<1> QED
  BY <1>1, <1>2, <1>3, <1>4, <1>5, <1>6, <1>7, <1>8, <1>9 DEF Next, Step

\* For any threads: between its saves a PUBLISHED listing is in the index once, and no
\* other is, until two of its saves overlap, something rolls back or the process crashes
\* (listing_repository.py:125-126).
THEOREM IndexIsRight == Spec => []IndexFollowsListing
<1>1. IndexInStep => IndexFollowsListing
  BY DEF IndexInStep, IndexDue, Undisturbed, IndexFollowsListing
<1> QED
  BY <1>1, TypeInvariant, SavesApartInit, SavesApartStep, IndexStep, PTL DEF Spec

-----------------------------------------------------------------------------
(* StartUp: files. *)

\* Images are rows: finitely many, and rowids are natural numbers.
LEMMA RowsOf ==
  ASSUME NEW S \in SUBSET Rows
  PROVE  IsFiniteSet(S) /\ Cardinality(S) \in Nat /\ Cardinality(S) <= Cardinality(Rows) /\ S \subseteq Nat
<1>1. IsFiniteSet(S) /\ Cardinality(S) <= Cardinality(Rows)
  BY RowsAssumption, FS_Subset
<1>2. Cardinality(S) \in Nat /\ Cardinality(Rows) \in Nat
  BY <1>1, RowsAssumption, FS_CardinalityType
<1>3. Rows \subseteq Nat
  BY <1>2, RowsAssumption
<1> QED
  BY <1>1, <1>2, <1>3

\* ORDER BY position, rowid is a strict total order.
LEMMA PrecedesIsOrder ==
  ASSUME NEW d \in Files, NEW r \in Rows, NEW s \in Rows
  PROVE  /\ ~(Precedes(d, r, s) /\ Precedes(d, s, r))
         /\ r # s => Precedes(d, r, s) \/ Precedes(d, s, r)
         /\ \A t \in Rows : Precedes(d, r, s) /\ Precedes(d, s, t) => Precedes(d, r, t)
<1>1. d.pos \in [Rows -> Nat]
  BY DEF Files
<1>2. Rows \subseteq Nat
  BY RowsOf
<1> QED
  BY <1>1, <1>2 DEF Precedes, Null

\* The unique index holds.
FileOK(d) == d.unique => Distinct(d)

\* What renumbering leaves behind, and what completing the search index does.
Numbered(d) ==
  \A l \in Listings : {d.pos[r] : r \in ImagesOf(d, l)} = 1..Cardinality(ImagesOf(d, l))

IndexComplete(d) == \A l \in Listings : l \in d.published => d.index[l] > 0

LEMMA CurrentIs ==
  ASSUME NEW d
  PROVE  Current(d) <=> /\ d.images = ImageColumns /\ d.outbox = OutboxColumns /\ d.search /\ d.unique
                        /\ Numbered(d) /\ IndexComplete(d)
  BY DEF Current, Numbered, IndexComplete

\* The images of a file whose rows are numbered have the positions 1, 2, ... .
LEMMA PositionsOf ==
  ASSUME NEW d \in Files, Numbered(d), NEW r \in Present(d)
  PROVE  /\ d.of[r] \in Listings /\ r \in ImagesOf(d, d.of[r])
         /\ Cardinality(ImagesOf(d, d.of[r])) \in Nat
         /\ d.pos[r] \in 1..Cardinality(ImagesOf(d, d.of[r]))
         /\ d.pos[r] \in Nat \ {0}
<1>1. d.of[r] \in Listings /\ r \in ImagesOf(d, d.of[r])
  BY DEF Files, Present, ImagesOf
<1>2. Cardinality(ImagesOf(d, d.of[r])) \in Nat
  BY RowsOf DEF ImagesOf
<1>3. d.pos[r] \in 1..Cardinality(ImagesOf(d, d.of[r]))
  BY <1>1 DEF Numbered
<1> QED
  BY <1>1, <1>2, <1>3


-----------------------------------------------------------------------------
(* Requests. *)

\* Two files that differ in the rows of images only.
SameButRows(d, e) ==
  /\ e.images = d.images /\ e.outbox = d.outbox /\ e.search = d.search
  /\ e.unique = d.unique /\ e.published = d.published /\ e.index = d.index

\* A new image goes behind those of its listing: the file stays current.
LEMMA AddKeeps ==
  ASSUME NEW d \in Files, FileOK(d), Current(d), NEW l \in Listings, NEW r \in Rows \ Present(d),
         NEW e \in Files, SameButRows(d, e), e.of = [d.of EXCEPT ![r] = l],
         e.pos = [d.pos EXCEPT ![r] = Cardinality(ImagesOf(d, l)) + 1]
  PROVE  /\ FileOK(e) /\ Current(e)
         /\ \A k \in Listings : ImagesOf(e, k) = IF k = l THEN ImagesOf(d, l) \cup {r} ELSE ImagesOf(d, k)
         /\ \A s \in ImagesOf(d, l) : Precedes(e, s, r) /\ ~Precedes(e, r, s)
         /\ \A s, t \in Present(d) : Precedes(e, s, t) <=> Precedes(d, s, t)
<1> DEFINE n == Cardinality(ImagesOf(d, l))
<1>1. Numbered(d) /\ IndexComplete(d) /\ Distinct(d)
  BY CurrentIs DEF FileOK
<1>2. n \in Nat /\ IsFiniteSet(ImagesOf(d, l))
  BY RowsOf DEF ImagesOf
<1>3. d.of \in [Rows -> Listings \cup {Null}] /\ d.pos \in [Rows -> Nat]
  BY DEF Files
<1>4. r \notin ImagesOf(d, l) /\ d.of[r] = Null /\ Null \notin Listings
  BY ListingsAssumption DEF Present, ImagesOf, Null
<1>5. \A k \in Listings : ImagesOf(e, k) = IF k = l THEN ImagesOf(d, l) \cup {r} ELSE ImagesOf(d, k)
  BY <1>3, <1>4 DEF ImagesOf
<1>6. Cardinality(ImagesOf(e, l)) = n + 1
  BY <1>2, <1>4, <1>5, FS_AddElement
<1>7. e.pos[r] = n + 1 /\ \A s \in Rows \ {r} : e.pos[s] = d.pos[s] /\ e.of[s] = d.of[s]
  BY <1>3
<1>8. \A s \in ImagesOf(d, l) : d.pos[s] \in 1..n
  BY <1>1 DEF Numbered
<1>9. Numbered(e)
  <2> SUFFICES ASSUME NEW k \in Listings
               PROVE  {e.pos[s] : s \in ImagesOf(e, k)} = 1..Cardinality(ImagesOf(e, k))
    BY DEF Numbered
  <2>1. \A s \in ImagesOf(d, k) : s # r /\ e.pos[s] = d.pos[s]
    BY <1>4, <1>7 DEF ImagesOf
  <2>2. {e.pos[s] : s \in ImagesOf(d, k)} = 1..Cardinality(ImagesOf(d, k))
    BY <1>1, <2>1 DEF Numbered
  <2>3. CASE k = l
    <3>1. {e.pos[s] : s \in ImagesOf(e, l)} = {e.pos[s] : s \in ImagesOf(d, l)} \cup {n + 1}
      BY <1>5, <1>7
    <3>2. (1..n) \cup {n + 1} = 1..(n + 1)
      BY <1>2
    <3> QED
      BY <2>2, <2>3, <3>1, <3>2, <1>6
  <2>4. CASE k # l
    BY <2>2, <2>4, <1>5
  <2> QED
    BY <2>3, <2>4
<1>10. Distinct(e)
  <2> SUFFICES ASSUME NEW s \in Present(e), NEW t \in Present(e), s # t, e.of[s] = e.of[t], e.pos[s] = e.pos[t]
               PROVE  FALSE
    BY DEF Distinct
  <2>1. CASE s # r /\ t # r
    <3>1. s \in Present(d) /\ t \in Present(d) /\ d.of[s] = d.of[t] /\ d.pos[s] = d.pos[t]
      BY <2>1, <1>7 DEF Present
    <3>2. d.pos[s] # Null
      BY <1>1, <3>1, PositionsOf DEF Null
    <3> QED
      BY <3>1, <3>2, <1>1 DEF Distinct
  <2>2. ASSUME NEW u \in Rows, u # r, e.of[u] = l PROVE e.pos[u] # n + 1
    BY <2>2, <1>2, <1>7, <1>8 DEF ImagesOf
  <2>3. e.of[r] = l /\ e.pos[r] = n + 1
    BY <1>3, <1>7
  <2> QED
    BY <2>1, <2>2, <2>3 DEF Present
<1>11. IndexComplete(e) /\ FileOK(e) /\ Current(e)
  BY <1>1, <1>9, <1>10, CurrentIs DEF FileOK, SameButRows, IndexComplete
<1>12. \A s \in ImagesOf(d, l) : Precedes(e, s, r) /\ ~Precedes(e, r, s)
  BY <1>2, <1>4, <1>7, <1>8 DEF Precedes, ImagesOf, Null
<1>13. \A s, t \in Present(d) : Precedes(e, s, t) <=> Precedes(d, s, t)
  BY <1>4, <1>7 DEF Precedes, Present
<1> QED
  BY <1>5, <1>11, <1>12, <1>13


\* The images behind a deleted one close its gap: the file stays current, and their order as it was.
LEMMA DeleteKeeps ==
  ASSUME NEW d \in Files, FileOK(d), Current(d), NEW r \in Present(d),
         NEW e \in Files, SameButRows(d, e), e.of = [d.of EXCEPT ![r] = Null],
         e.pos = [s \in Rows |->
                    IF s = r THEN Null
                    ELSE IF d.of[s] = d.of[r] /\ d.pos[s] > d.pos[r] THEN d.pos[s] - 1 ELSE d.pos[s]]
  PROVE  /\ FileOK(e) /\ Current(e)
         /\ \A k \in Listings : ImagesOf(e, k) = ImagesOf(d, k) \ {r}
         /\ \A k \in Listings : \A s, t \in ImagesOf(e, k) : Precedes(e, s, t) <=> Precedes(d, s, t)
<1> DEFINE l == d.of[r]
           n == Cardinality(ImagesOf(d, l))
<1>1. Numbered(d) /\ IndexComplete(d) /\ Distinct(d)
  BY CurrentIs DEF FileOK
<1>2. r \in Rows /\ l \in Listings /\ r \in ImagesOf(d, l) /\ d.pos[r] \in 1..n /\ n \in Nat
  BY <1>1, PositionsOf DEF Present
<1>3. d.of \in [Rows -> Listings \cup {Null}] /\ d.pos \in [Rows -> Nat] /\ Null \notin Listings
  BY ListingsAssumption DEF Files, Null
<1>4. \A k \in Listings : ImagesOf(e, k) = ImagesOf(d, k) \ {r}
  BY <1>2, <1>3 DEF ImagesOf
<1>5. \A k \in Listings : k # l => ImagesOf(e, k) = ImagesOf(d, k)
  BY <1>4 DEF ImagesOf
<1>6. Cardinality(ImagesOf(e, l)) = n - 1
  <2>1. IsFiniteSet(ImagesOf(d, l))
    BY RowsOf DEF ImagesOf
  <2> QED
    BY <2>1, <1>2, <1>4, FS_RemoveElement
<1>7. \A s \in Rows \ {r} :
        /\ e.of[s] = d.of[s]
        /\ e.pos[s] = IF d.of[s] = l /\ d.pos[s] > d.pos[r] THEN d.pos[s] - 1 ELSE d.pos[s]
  BY <1>3
<1>8. \A s \in ImagesOf(d, l) \ {r} : d.pos[s] \in 1..n /\ d.pos[s] # d.pos[r]
  <2>1. \A s \in ImagesOf(d, l) : d.pos[s] \in 1..n
    BY <1>1, <1>2 DEF Numbered
  <2>2. ImagesOf(d, l) \subseteq Present(d)
    BY <1>2, <1>3 DEF ImagesOf, Present
  <2> QED
    BY <2>1, <2>2, <1>1, <1>2 DEF Distinct, ImagesOf, Null
<1>9. \A s, t \in Rows \ {r} :
        d.of[s] # Null /\ d.of[s] = d.of[t] =>
          /\ e.pos[s] = e.pos[t] <=> d.pos[s] = d.pos[t]
          /\ e.pos[s] < e.pos[t] <=> d.pos[s] < d.pos[t]
          /\ e.pos[s] \in Nat \ {0}
  <2> SUFFICES ASSUME NEW s \in Rows \ {r}, NEW t \in Rows \ {r}, d.of[s] # Null, d.of[s] = d.of[t]
               PROVE  /\ e.pos[s] = e.pos[t] <=> d.pos[s] = d.pos[t]
                      /\ e.pos[s] < e.pos[t] <=> d.pos[s] < d.pos[t]
                      /\ e.pos[s] \in Nat \ {0}
    OBVIOUS
  <2>1. d.pos[s] \in Nat \ {0} /\ d.pos[t] \in Nat \ {0}
    BY <1>1, PositionsOf DEF Present
  <2>2. CASE d.of[s] = l
    <3>1. d.pos[s] # d.pos[r] /\ d.pos[t] # d.pos[r]
      BY <2>2, <1>8 DEF ImagesOf
    <3>2. /\ e.pos[s] = IF d.pos[s] > d.pos[r] THEN d.pos[s] - 1 ELSE d.pos[s]
          /\ e.pos[t] = IF d.pos[t] > d.pos[r] THEN d.pos[t] - 1 ELSE d.pos[t]
      BY <2>2, <1>7
    <3>3. d.pos[r] \in Nat \ {0}
      BY <1>2
    <3> QED
      BY <2>1, <3>1, <3>2, <3>3
  <2>3. CASE d.of[s] # l
    BY <2>1, <2>3, <1>7
  <2> QED
    BY <2>2, <2>3
<1>10. Numbered(e)
  <2>1. ASSUME NEW k \in Listings, k # l
        PROVE  {e.pos[s] : s \in ImagesOf(e, k)} = 1..Cardinality(ImagesOf(e, k))
    <3>1. \A s \in ImagesOf(d, k) : e.pos[s] = d.pos[s]
      BY <2>1, <1>7 DEF ImagesOf
    <3>2. {e.pos[s] : s \in ImagesOf(d, k)} = {d.pos[s] : s \in ImagesOf(d, k)}
      BY <3>1
    <3>3. ImagesOf(e, k) = ImagesOf(d, k)
      BY <2>1, <1>5
    <3> QED
      BY <3>2, <3>3, <1>1 DEF Numbered
  <2>2. \A s \in ImagesOf(e, l) : e.pos[s] \in 1..(n - 1)
    BY <1>2, <1>4, <1>7, <1>8 DEF ImagesOf
  <2>3. ASSUME NEW i \in 1..(n - 1) PROVE \E s \in ImagesOf(e, l) : e.pos[s] = i
    <3> DEFINE j == IF i < d.pos[r] THEN i ELSE i + 1
    <3>1. j \in 1..n /\ j # d.pos[r]
      BY <1>2
    <3>2. PICK s \in ImagesOf(d, l) : d.pos[s] = j
      BY <3>1, <1>1, <1>2 DEF Numbered
    <3>3. s \in ImagesOf(e, l) /\ s \in Rows \ {r} /\ d.of[s] = l
      BY <3>1, <3>2, <1>2, <1>4 DEF ImagesOf
    <3>4. e.pos[s] = i
      BY <3>1, <3>2, <3>3, <1>2, <1>7
    <3> QED
      BY <3>3, <3>4
  <2>4. {e.pos[s] : s \in ImagesOf(e, l)} = 1..(n - 1)
    <3> HIDE DEF n
    <3>1. \A i \in {e.pos[s] : s \in ImagesOf(e, l)} : i \in 1..(n - 1)
      BY <2>2
    <3>2. \A i \in 1..(n - 1) : i \in {e.pos[s] : s \in ImagesOf(e, l)}
      BY <2>3
    <3> QED
      BY <3>1, <3>2
  <2> QED
    BY <2>1, <2>4, <1>6 DEF Numbered
<1>11. Distinct(e)
  <2> SUFFICES ASSUME NEW s \in Present(e), NEW t \in Present(e), s # t, e.of[s] = e.of[t], e.pos[s] = e.pos[t]
               PROVE  FALSE
    BY DEF Distinct
  <2>1. s \in Rows \ {r} /\ t \in Rows \ {r} /\ d.of[s] # Null /\ d.of[s] = d.of[t]
    BY <1>2, <1>3, <1>7 DEF Present
  <2>2. d.pos[s] = d.pos[t] /\ s \in Present(d) /\ t \in Present(d)
    BY <2>1, <1>9 DEF Present
  <2>3. d.pos[s] # Null
    BY <2>2, <1>1, PositionsOf DEF Null
  <2> QED
    BY <2>1, <2>2, <2>3, <1>1 DEF Distinct
<1>12. IndexComplete(e) /\ FileOK(e) /\ Current(e)
  BY <1>1, <1>10, <1>11, CurrentIs DEF FileOK, SameButRows, IndexComplete
<1>13. ASSUME NEW k \in Listings, NEW s \in ImagesOf(e, k), NEW t \in ImagesOf(e, k)
       PROVE  Precedes(e, s, t) <=> Precedes(d, s, t)
  <2>1. s \in Rows \ {r} /\ t \in Rows \ {r} /\ d.of[s] = k /\ d.of[t] = k /\ k # Null
    BY <1>3, <1>4 DEF ImagesOf
  <2>2. s \in Present(d) /\ t \in Present(d)
    BY <2>1 DEF Present
  <2>3. d.pos[s] \in Nat \ {0} /\ d.pos[t] \in Nat \ {0}
    BY <2>2, <1>1, PositionsOf
  <2>4. /\ e.pos[s] = e.pos[t] <=> d.pos[s] = d.pos[t]
        /\ e.pos[s] < e.pos[t] <=> d.pos[s] < d.pos[t]
        /\ e.pos[s] \in Nat \ {0} /\ e.pos[t] \in Nat \ {0}
    BY <2>1, <1>9
  <2> QED
    BY <2>3, <2>4 DEF Precedes, Null
<1> QED
  BY <1>4, <1>12, <1>13


-----------------------------------------------------------------------------
(* Renumbering. *)

\* The images of a listing that have their new position.
Done(l) == ImagesOf(db, l) \ todo

\* They have the positions 1, 2, ..., one listing after the other, and under the unique
\* index of an earlier start no row to come has one of these.
InTurn ==
  stage = "renumber" =>
    /\ todo \subseteq Present(db)
    /\ \A s \in todo : last.listing <= db.of[s]
    /\ \A l \in Listings :
         /\ {db.pos[r] : r \in Done(l)} = 1..Cardinality(Done(l))
         /\ \A r, s \in Done(l) : r # s => db.pos[r] # db.pos[s]
         /\ l = last.listing => last.position = Cardinality(Done(l))
         /\ l # last.listing /\ Done(l) # {} => todo \cap ImagesOf(db, l) = {}
         /\ db.unique => \A s \in todo \cap ImagesOf(db, l) :
                           db.pos[s] # Null => db.pos[s] > Cardinality(Done(l))

\* The row that is next, and the file after its UPDATE.
LEMMA NextRow ==
  ASSUME StartTypeOK, InTurn, stage = "renumber", NEW r \in Rows, First(r)
  PROVE  /\ db.of[r] \in Listings /\ r \in todo /\ r \in ImagesOf(db, db.of[r])
         /\ last.listing <= db.of[r]
         /\ \A s \in todo : db.of[r] <= db.of[s]
         /\ \A s \in todo \cap ImagesOf(db, db.of[r]) : s # r => Precedes(db, r, s)
         /\ IsFiniteSet(Done(db.of[r])) /\ Cardinality(Done(db.of[r])) \in Nat
         /\ Cardinality(Done(db.of[r])) + 1 \in 1..Cardinality(Rows)
         /\ NextPosition(db.of[r]) = Cardinality(Done(db.of[r])) + 1
<1> DEFINE l == db.of[r]
<1>1. db.of \in [Rows -> Listings \cup {Null}] /\ db.pos \in [Rows -> Nat] /\ Null \notin Listings
  BY ListingsAssumption DEF StartTypeOK, Files, Null
<1>2. r \in todo /\ l \in Listings /\ r \in ImagesOf(db, l) /\ Listings \subseteq Nat
  BY <1>1, ListingsAssumption DEF First, InTurn, Present, ImagesOf
<1>3. last.listing <= l
  BY <1>2 DEF InTurn
<1>4. ASSUME NEW s \in todo
      PROVE  l <= db.of[s] /\ (s \in ImagesOf(db, l) /\ s # r => Precedes(db, r, s))
  <2>a. s \in Rows
    BY DEF StartTypeOK
  <2>1. l \in Nat /\ db.of[s] \in Nat
    <3>1. Listings \cup {Null} \subseteq Nat
      BY <1>2 DEF Null
    <3>2. db.of[s] \in Listings \cup {Null}
      BY <1>1, <2>a
    <3> QED
      BY <1>2, <3>1, <3>2
  <2>2. s # r => l < db.of[s] \/ (l = db.of[s] /\ Precedes(db, r, s))
    BY DEF First, Before
  <2>3. s \in ImagesOf(db, l) => db.of[s] = l
    BY DEF ImagesOf
  <2> QED
    BY <2>1, <2>2, <2>3
<1>5. \A s \in todo \cap ImagesOf(db, l) : s # r => Precedes(db, r, s)
  BY <1>4
<1>6. IsFiniteSet(Done(l)) /\ Cardinality(Done(l)) \in Nat
  BY RowsOf DEF Done, ImagesOf
<1>7. Cardinality(Done(l)) + 1 \in 1..Cardinality(Rows)
  <2>1. r \notin Done(l) /\ Done(l) \cup {r} \in SUBSET Rows
    BY <1>2 DEF Done, ImagesOf
  <2>2. Cardinality(Done(l) \cup {r}) = Cardinality(Done(l)) + 1
    BY <2>1, <1>6, FS_AddElement
  <2>3. Cardinality(Done(l) \cup {r}) <= Cardinality(Rows) /\ Cardinality(Rows) \in Nat
    BY <2>1, RowsOf
  <2> QED
    BY <2>2, <2>3, <1>6
<1>8. NextPosition(l) = Cardinality(Done(l)) + 1
  <2>1. CASE l = last.listing
    BY <2>1, <1>2 DEF NextPosition, InTurn
  <2>2. CASE l # last.listing
    <3>1. Done(l) = {}
      BY <2>2, <1>2 DEF InTurn
    <3> QED
      BY <2>2, <3>1, FS_EmptySet DEF NextPosition
  <2> QED
    BY <2>1, <2>2
<1> QED
  BY <1>2, <1>3, <1>4, <1>5, <1>6, <1>7, <1>8

\* The UPDATE never gives a row the position of another one: the unique index lets it pass.
LEMMA NoCollision ==
  ASSUME StartTypeOK, FileOK(db), InTurn, stage = "renumber", NEW r \in Rows, First(r), db.unique,
         NEW d, d = [db EXCEPT !.pos[r] = NextPosition(db.of[r])]
  PROVE  Distinct(d)
<1> DEFINE l == db.of[r]
           n == Cardinality(Done(l)) + 1
<1>1. db \in Files /\ db.of \in [Rows -> Listings \cup {Null}] /\ db.pos \in [Rows -> Nat]
  BY DEF StartTypeOK, Files
<1>2. d.of = db.of /\ d.pos = [db.pos EXCEPT ![r] = n]
  BY <1>1, NextRow DEF Files
<1>3. Distinct(db)
  BY DEF FileOK
<1>4. ASSUME NEW s \in ImagesOf(db, l), s # r PROVE db.pos[s] # n
  <2>1. CASE s \in Done(l)
    <3>1. db.pos[s] \in 1..Cardinality(Done(l))
      BY <2>1, NextRow DEF InTurn
    <3> QED
      BY <3>1, NextRow
  <2>2. CASE s \in todo /\ db.pos[s] # Null
    <3>1. Precedes(db, r, s) /\ s \in Rows
      BY <2>2, <1>4, NextRow DEF ImagesOf
    <3>a. s \in Present(db) /\ r \in Present(db) /\ db.of[s] = db.of[r]
      BY <1>4, NextRow, ListingsAssumption DEF ImagesOf, Present, Null
    <3>b. db.pos[s] # db.pos[r]
      BY <3>a, <2>2, <1>3, <1>4 DEF Distinct
    <3>2. db.pos[r] # Null /\ db.pos[r] < db.pos[s]
      BY <3>1, <3>b, <2>2 DEF Precedes
    <3>3. db.pos[r] > Cardinality(Done(l))
      BY <3>2, NextRow DEF InTurn
    <3> QED
      BY <3>1, <3>2, <3>3, <1>1, NextRow
  <2>3. CASE s \in todo /\ db.pos[s] = Null
    BY <2>3, NextRow DEF Null
  <2> QED
    BY <2>1, <2>2, <2>3, <1>4 DEF Done
<1>5. ASSUME NEW s \in Present(d), NEW t \in Present(d), s # t, d.of[s] = d.of[t], d.pos[s] = d.pos[t]
      PROVE  d.pos[s] = Null
  <2>1. s \in Present(db) /\ t \in Present(db) /\ s \in Rows /\ t \in Rows
    BY <1>2 DEF Present
  <2>2. CASE s # r /\ t # r
    <3>1. db.pos[s] = db.pos[t] /\ db.of[s] = db.of[t] /\ d.pos[s] = db.pos[s]
      BY <2>1, <2>2, <1>1, <1>2, <1>5
    <3> QED
      BY <2>1, <3>1, <1>3, <1>5 DEF Distinct
  <2>3. CASE s = r
    <3>1. t \in ImagesOf(db, l) /\ db.pos[t] = n
      BY <2>1, <2>3, <1>1, <1>2, <1>5 DEF ImagesOf
    <3> QED
      BY <3>1, <2>3, <1>4, <1>5
  <2>4. CASE t = r
    <3>1. s \in ImagesOf(db, l) /\ db.pos[s] = n
      BY <2>1, <2>4, <1>1, <1>2, <1>5 DEF ImagesOf
    <3> QED
      BY <3>1, <2>4, <1>4, <1>5
  <2> QED
    BY <2>2, <2>3, <2>4
<1> QED
  BY <1>5 DEF Distinct


\* The rows that have their position, and the next one, are the rows that have it then.
LEMMA TurnGoesOn ==
  ASSUME StartTypeOK, FileOK(db), InTurn, stage = "renumber", NEW r \in Rows, First(r),
         db' = [db EXCEPT !.pos[r] = NextPosition(db.of[r])], todo' = todo \ {r},
         last' = [listing |-> db.of[r], position |-> NextPosition(db.of[r])]
  PROVE  InTurn'
<1> DEFINE l == db.of[r]
           n == Cardinality(Done(l)) + 1
<1>1. db.of \in [Rows -> Listings \cup {Null}] /\ db.pos \in [Rows -> Nat] /\ todo \subseteq Rows
  BY DEF StartTypeOK, Files
<1>2. /\ l \in Listings /\ r \in todo /\ r \in ImagesOf(db, l) /\ n \in Nat /\ n - 1 \in Nat
      /\ n - 1 = Cardinality(Done(l)) /\ NextPosition(l) = n /\ IsFiniteSet(Done(l))
  BY NextRow
<1>3. db'.of = db.of /\ db'.pos = [db.pos EXCEPT ![r] = n] /\ db'.unique = db.unique
  BY <1>2 DEF StartTypeOK, Files
<1>4. /\ \A k : ImagesOf(db, k)' = ImagesOf(db, k)
      /\ Present(db)' = Present(db)
  BY <1>3 DEF ImagesOf, Present
<1>5. /\ \A k : k # l => Done(k)' = Done(k)
      /\ Done(l)' = Done(l) \cup {r} /\ r \notin Done(l)
  <2>1. \A k : k # l => r \notin ImagesOf(db, k)
    BY DEF ImagesOf
  <2> QED
    BY <2>1, <1>2, <1>4 DEF Done
<1>6. Cardinality(Done(l)') = n
  BY <1>2, <1>5, FS_AddElement
<1>7. \A k \in Listings : Done(k) \subseteq Rows /\ r \notin Done(k)
  BY <1>2 DEF Done, ImagesOf
<1>8. db'.pos[r] = n /\ \A s \in Rows \ {r} : db'.pos[s] = db.pos[s]
  BY <1>1, <1>3
<1>9. todo' \subseteq Present(db)' /\ \A s \in todo' : last'.listing <= db'.of[s]
  <2>1. \A s \in todo : l <= db.of[s]
    BY NextRow
  <2> QED
    BY <2>1, <1>3, <1>4 DEF InTurn
<1>10. ASSUME NEW k \in Listings, k # l
       PROVE  /\ {db'.pos[s] : s \in Done(k)'} = 1..Cardinality(Done(k)')
              /\ \A s, t \in Done(k)' : s # t => db'.pos[s] # db'.pos[t]
              /\ k # last'.listing /\ (Done(k)' # {} => todo' \cap ImagesOf(db, k)' = {})
              /\ db'.unique => \A s \in todo' \cap ImagesOf(db, k)' :
                                 db'.pos[s] # Null => db'.pos[s] > Cardinality(Done(k)')
  <2>1. Done(k)' = Done(k) /\ ImagesOf(db, k)' = ImagesOf(db, k) /\ k # last'.listing
    BY <1>4, <1>5, <1>10
  <2>2. \A s \in Done(k) : db'.pos[s] = db.pos[s]
    BY <1>7, <1>8
  <2>3. {db'.pos[s] : s \in Done(k)} = {db.pos[s] : s \in Done(k)}
    BY <2>2
  <2>4. {db'.pos[s] : s \in Done(k)'} = 1..Cardinality(Done(k)')
    BY <2>1, <2>3 DEF InTurn
  <2>5. \A s, t \in Done(k)' : s # t => db'.pos[s] # db'.pos[t]
    BY <2>1, <2>2 DEF InTurn
  <2>6. Done(k) # {} => todo' \cap ImagesOf(db, k) = {}
    <3>1. CASE k # last.listing
      BY <3>1 DEF InTurn
    <3>2. CASE k = last.listing
      <4>1. \A s \in todo : l <= db.of[s]
        BY NextRow
      <4>2. k <= l /\ k \in Nat /\ l \in Nat
        BY <3>2, <1>2, NextRow, ListingsAssumption
      <4>3. \A s \in ImagesOf(db, k) : db.of[s] = k
        BY DEF ImagesOf
      <4> QED
        BY <4>1, <4>2, <4>3, <1>10
    <3> QED
      BY <3>1, <3>2
  <2>7. ASSUME db.unique, NEW s \in todo' \cap ImagesOf(db, k), db'.pos[s] # Null
        PROVE  db'.pos[s] > Cardinality(Done(k))
    <3>1. s \in todo \cap ImagesOf(db, k) /\ db'.pos[s] = db.pos[s]
      BY <2>7, <1>1, <1>8
    <3> QED
      BY <2>7, <3>1 DEF InTurn
  <2> QED
    BY <2>1, <2>4, <2>5, <2>6, <2>7, <1>3
<1>11. {db'.pos[s] : s \in Done(l)'} = 1..Cardinality(Done(l)')
  <2>1. \A s \in Done(l) : db'.pos[s] = db.pos[s]
    BY <1>2, <1>7, <1>8
  <2>2. {db'.pos[s] : s \in Done(l)'} = {db.pos[s] : s \in Done(l)} \cup {n}
    BY <2>1, <1>5, <1>8
  <2>3. {db.pos[s] : s \in Done(l)} = 1..(n - 1)
    BY <1>2 DEF InTurn
  <2>4. (1..(n - 1)) \cup {n} = 1..n
    BY <1>2
  <2> QED
    BY <2>2, <2>3, <2>4, <1>6
<1>12. ASSUME NEW s \in Done(l)', NEW t \in Done(l)', s # t
       PROVE  db'.pos[s] # db'.pos[t]
  <2>1. \A u \in Done(l) : db'.pos[u] = db.pos[u] /\ db.pos[u] \in 1..(n - 1)
    BY <1>2, <1>7, <1>8 DEF InTurn
  <2>2. CASE s # r /\ t # r
    BY <2>1, <2>2, <1>2, <1>5, <1>12 DEF InTurn
  <2>3. CASE s = r \/ t = r
    BY <2>1, <2>3, <1>2, <1>5, <1>8, <1>12
  <2> QED
    BY <2>2, <2>3
<1>13. last'.listing = l /\ last'.position = Cardinality(Done(l)')
  BY <1>2, <1>6
<1>14. ASSUME db'.unique, NEW s \in todo' \cap ImagesOf(db, l)', db'.pos[s] # Null
       PROVE  db'.pos[s] > Cardinality(Done(l)')
  <2>1. s \in todo /\ s \in Rows /\ s # r /\ s \in ImagesOf(db, l) /\ db'.pos[s] = db.pos[s]
    BY <1>1, <1>4, <1>8, <1>14
  <2>2. Precedes(db, r, s) /\ db.pos[s] # Null
    BY <2>1, <1>14, NextRow
  <2>3. db.pos[r] # db.pos[s]
    <3>1. r \in Present(db) /\ s \in Present(db) /\ db.of[r] = db.of[s]
      BY <2>1, <1>2 DEF InTurn, ImagesOf
    <3> QED
      BY <3>1, <2>1, <2>2, <1>3, <1>14 DEF FileOK, Distinct
  <2>4. db.pos[r] # Null /\ db.pos[r] < db.pos[s]
    BY <2>2, <2>3 DEF Precedes
  <2>5. db.pos[r] > n - 1
    BY <2>4, <1>2, <1>3, <1>14 DEF InTurn
  <2> QED
    BY <2>1, <2>4, <2>5, <1>1, <1>2, <1>6
<1>15. ASSUME NEW k \in Listings
       PROVE  /\ {db'.pos[s] : s \in Done(k)'} = 1..Cardinality(Done(k)')
              /\ \A s, t \in Done(k)' : s # t => db'.pos[s] # db'.pos[t]
              /\ k = last'.listing => last'.position = Cardinality(Done(k)')
              /\ k # last'.listing /\ Done(k)' # {} => todo' \cap ImagesOf(db, k)' = {}
              /\ db'.unique => \A s \in todo' \cap ImagesOf(db, k)' :
                                 db'.pos[s] # Null => db'.pos[s] > Cardinality(Done(k)')
  <2>1. CASE k = l
    BY <2>1, <1>11, <1>12, <1>13, <1>14
  <2>2. CASE k # l
    BY <2>2, <1>10
  <2> QED
    BY <2>1, <2>2
<1> QED
  BY <1>9, <1>15 DEF InTurn


\* The rows that have their new position are in the order they had, before those to come.
Ordered ==
  stage \in {"renumber", "outbox", "commit"} =>
    /\ db.of = disk.of
    /\ \A s \in todo : db.pos[s] = disk.pos[s]
    /\ \A l \in Listings : \A r, s \in ImagesOf(db, l) : r \notin todo =>
         /\ s \notin todo => (Precedes(db, r, s) <=> Precedes(disk, r, s))
         /\ s \in todo => Precedes(disk, r, s)

\* The next row comes last of those that have their position, as it did before.
LEMMA OrderGoesOn ==
  ASSUME StartTypeOK, FileOK(db), InTurn, Ordered, stage = "renumber", NEW r \in Rows, First(r),
         db' = [db EXCEPT !.pos[r] = NextPosition(db.of[r])], todo' = todo \ {r}, UNCHANGED disk
  PROVE  Ordered'
<1> DEFINE l == db.of[r]
           n == Cardinality(Done(l)) + 1
<1>1. /\ db \in Files /\ disk \in Files /\ todo \subseteq Rows
      /\ db.of \in [Rows -> Listings \cup {Null}] /\ db.pos \in [Rows -> Nat]
  BY DEF StartTypeOK, Files
<1>2. /\ l \in Listings /\ r \in todo /\ r \in ImagesOf(db, l) /\ n - 1 \in Nat
      /\ n - 1 = Cardinality(Done(l)) /\ NextPosition(l) = n
  BY NextRow
<1>3. db'.of = db.of /\ db'.pos = [db.pos EXCEPT ![r] = n]
  BY <1>1, <1>2 DEF Files
<1>4. \A k : ImagesOf(db, k)' = ImagesOf(db, k)
  BY <1>3 DEF ImagesOf
<1>5. db'.pos[r] = n /\ \A s \in Rows \ {r} : db'.pos[s] = db.pos[s]
  BY <1>1, <1>3
<1>6. /\ db.of = disk.of
      /\ \A s \in todo : db.pos[s] = disk.pos[s]
      /\ \A k \in Listings : \A s, t \in ImagesOf(db, k) : s \notin todo =>
           /\ t \notin todo => (Precedes(db, s, t) <=> Precedes(disk, s, t))
           /\ t \in todo => Precedes(disk, s, t)
  BY DEF Ordered
<1>7. db'.of = disk'.of /\ \A s \in todo' : db'.pos[s] = disk'.pos[s]
  BY <1>1, <1>3, <1>5, <1>6
<1>8. ASSUME NEW s \in Rows, NEW t \in Rows, s # r, t # r
      PROVE  Precedes(db', s, t) <=> Precedes(db, s, t)
  BY <1>5, <1>8 DEF Precedes
<1>9. ASSUME NEW s \in Rows, s \in Done(l)
      PROVE  /\ Precedes(db', s, r) /\ ~Precedes(db', r, s)
             /\ Precedes(disk, s, r) /\ ~Precedes(disk, r, s)
  <2>1. s # r /\ s \notin todo /\ s \in ImagesOf(db, l)
    BY <1>2, <1>9 DEF Done
  <2>2. db.pos[s] \in 1..(n - 1) /\ db'.pos[s] = db.pos[s]
    BY <1>2, <1>5, <1>9, <2>1 DEF InTurn
  <2>3. Precedes(db', s, r) /\ ~Precedes(db', r, s)
    BY <2>2, <1>2, <1>5 DEF Precedes, Null
  <2>4. Precedes(disk, s, r)
    BY <2>1, <1>2, <1>6
  <2> QED
    BY <2>3, <2>4, <1>1, PrecedesIsOrder
<1>10. ASSUME NEW t \in todo', t \in ImagesOf(db, l) PROVE Precedes(disk, r, t)
  <2>1. t \in todo /\ t # r /\ Precedes(db, r, t)
    BY <1>10, NextRow
  <2> QED
    BY <2>1, <1>2, <1>6 DEF Precedes
<1>11. ASSUME NEW k \in Listings, NEW s \in ImagesOf(db, k), NEW t \in ImagesOf(db, k), s \notin todo'
       PROVE  /\ t \notin todo' => (Precedes(db', s, t) <=> Precedes(disk, s, t))
              /\ t \in todo' => Precedes(disk, s, t)
  <2>1. s \in Rows /\ t \in Rows /\ db.of[s] = k /\ db.of[t] = k
    BY DEF ImagesOf
  <2>2. CASE s # r /\ t # r
    BY <2>1, <2>2, <1>6, <1>8, <1>11
  <2>3. CASE s = r /\ t = r
    BY <2>1, <2>3, <1>1, <1>2, <1>5, PrecedesIsOrder DEF Precedes
  <2>4. CASE s = r /\ t # r
    <3>1. k = l
      BY <2>1, <2>4
    <3>2. t \in todo' \/ t \in Done(l)
      BY <2>4, <3>1 DEF Done
    <3> QED
      BY <2>1, <2>4, <3>1, <3>2, <1>9, <1>10 DEF Done
  <2>5. CASE s # r /\ t = r
    <3>1. k = l /\ s \in Done(l)
      BY <2>1, <2>5, <1>11 DEF Done
    <3> QED
      BY <2>1, <2>5, <3>1, <1>9
  <2> QED
    BY <2>2, <2>3, <2>4, <2>5
<1> QED
  BY <1>4, <1>7, <1>11 DEF Ordered

\* In a current file each row has the position it is given.
LEMMA CurrentKeepsPosition ==
  ASSUME StartTypeOK, FileOK(db), InTurn, stage = "renumber", NEW r \in Rows, First(r), Current(db)
  PROVE  [db EXCEPT !.pos[r] = NextPosition(db.of[r])] = db
<1> DEFINE l == db.of[r]
           n == Cardinality(Done(l)) + 1
<1>1. /\ db.of \in [Rows -> Listings \cup {Null}] /\ db.pos \in [Rows -> Nat] /\ db \in Files
      /\ Null \notin Listings
  BY ListingsAssumption DEF StartTypeOK, Files, Null
<1>2. /\ l \in Listings /\ r \in todo /\ r \in ImagesOf(db, l) /\ n - 1 \in Nat
      /\ n - 1 = Cardinality(Done(l)) /\ NextPosition(l) = n /\ IsFiniteSet(Done(l))
  BY NextRow
<1>3. Numbered(db) /\ Distinct(db) /\ db.unique
  BY CurrentIs DEF FileOK
<1>4. n \in 1..Cardinality(ImagesOf(db, l))
  <2>1. Cardinality(Done(l) \cup {r}) = n
    BY <1>2, FS_AddElement DEF Done
  <2>2. IsFiniteSet(ImagesOf(db, l)) /\ Cardinality(ImagesOf(db, l)) \in Nat
    BY RowsOf DEF ImagesOf
  <2>3. n <= Cardinality(ImagesOf(db, l))
    BY <2>1, <2>2, <1>2, FS_Subset DEF Done
  <2> QED
    BY <2>2, <2>3, <1>2
<1>5. PICK s \in ImagesOf(db, l) : db.pos[s] = n
  BY <1>2, <1>3, <1>4 DEF Numbered
<1>6. s \in todo
  <2>1. \A t \in Done(l) : db.pos[t] \in 1..(n - 1)
    BY <1>2 DEF InTurn
  <2> QED
    BY <2>1, <1>2, <1>5 DEF Done
<1>7. s # r => db.pos[r] # Null /\ db.pos[r] <= n
  <2>1. s # r => Precedes(db, r, s)
    BY <1>5, <1>6, NextRow
  <2> QED
    BY <2>1, <1>1, <1>2, <1>5 DEF Precedes, Null
<1>8. db.pos[r] # Null => db.pos[r] > n - 1
  BY <1>2, <1>3 DEF InTurn
<1>9. db.pos[r] = n
  BY <1>1, <1>2, <1>5, <1>7, <1>8
<1>10. [db.pos EXCEPT ![r] = n] = db.pos
  BY <1>1, <1>9
<1> QED
  BY <1>1, <1>2, <1>10 DEF Files


-----------------------------------------------------------------------------
(* The invariant of a start. *)

\* What each stage has done.
Stages ==
  /\ inTransaction => stage \in {"renumber", "outbox", "commit"}
  /\ stage \in {"columns", "renumber", "outbox", "commit"} => db.search
  /\ stage \in {"renumber", "outbox", "commit"} => db.images = ImageColumns
  /\ stage \in {"outbox", "commit"} => todo = {} /\ db.unique /\ Numbered(db)
  /\ stage = "commit" => db.outbox = OutboxColumns /\ IndexComplete(db)
  /\ stage = "up" => Current(db)

\* A start that finds the file current has nothing to change.
CurrentStays == Current(disk) => db = disk

StartInv ==
  /\ StartTypeOK /\ FileOK(disk) /\ FileOK(db)
  /\ Stages /\ InTurn /\ Ordered /\ CurrentStays
  /\ OnlyOldOutboxFails

\* What depends on the rows of images alone.
LEMMA SameRows ==
  ASSUME NEW d, NEW e, e.of = d.of, e.pos = d.pos
  PROVE  /\ Present(e) = Present(d) /\ \A l : ImagesOf(e, l) = ImagesOf(d, l)
         /\ \A r, s : Precedes(e, r, s) <=> Precedes(d, r, s)
         /\ Distinct(e) <=> Distinct(d)
         /\ Numbered(e) <=> Numbered(d)
  BY DEF Present, ImagesOf, Precedes, Distinct, Numbered

\* A start finds a file that some version has written.
LEMMA StartInvInit == StartInit => StartInv
<1> SUFFICES ASSUME StartInit PROVE StartInv
  OBVIOUS
<1>1. /\ disk \in Files /\ db = disk /\ inTransaction = FALSE /\ stage = "down"
      /\ todo = {} /\ last = [listing |-> Null, position |-> 0]
  BY PositionAssumption DEF StartInit, Files
<1>2. FileOK(disk)
  BY DEF StartInit, FileOK
<1>3. StartTypeOK
  <2>1. 0 \in 0..Cardinality(Rows)
    BY RowsOf
  <2> QED
    BY <1>1, <2>1 DEF StartTypeOK, Null
<1> QED
  BY <1>1, <1>2, <1>3 DEF StartInv, Stages, InTurn, Ordered, CurrentStays, OnlyOldOutboxFails

\* A change of the schema leaves the rows as they are.
LEMMA SchemaKeeps ==
  ASSUME StartInv, NEW d \in Files, Ddl(d), UNCHANGED Cursor,
         d.of = db.of, d.pos = db.pos, d.published = db.published, d.index = db.index,
         d.unique => Distinct(d), Current(db) => d = db,
         stage' \in Starting \cup {"failed"}, stage' # "renumber",
         stage' \in {"outbox", "commit"} => stage \in {"renumber", "outbox"} /\ todo = {}
  PROVE  StartTypeOK' /\ FileOK(disk)' /\ FileOK(db)' /\ InTurn' /\ Ordered' /\ CurrentStays'
<1>1. /\ db' = d /\ inTransaction' = inTransaction /\ todo' = todo /\ last' = last
      /\ disk' = IF inTransaction THEN disk ELSE d
  BY DEF Ddl, Cursor
<1>2. StartTypeOK'
  BY <1>1 DEF StartInv, StartTypeOK
<1>3. FileOK(d)
  BY DEF StartInv, FileOK
<1>4. FileOK(disk)' /\ FileOK(db)'
  BY <1>1, <1>3 DEF StartInv, FileOK, Distinct, Present
<1>5. InTurn'
  BY DEF InTurn
<1>6. Ordered'
  <2> SUFFICES ASSUME stage' \in {"renumber", "outbox", "commit"} PROVE Ordered'
    BY DEF Ordered
  <2>1. stage \in {"renumber", "outbox", "commit"} /\ todo = {}
    OBVIOUS
  <2>2. CASE inTransaction
    <3>1. db'.of = db.of /\ db'.pos = db.pos /\ disk' = disk
      BY <1>1, <2>2
    <3>2. \A l : ImagesOf(db, l)' = ImagesOf(db, l)
      BY <3>1, <1>1, SameRows
    <3>3. \A r, s : Precedes(db', r, s) <=> Precedes(db, r, s)
      BY <3>1, <1>1, SameRows
    <3>4. /\ db.of = disk.of
          /\ \A l \in Listings : \A r, s \in ImagesOf(db, l) : Precedes(db, r, s) <=> Precedes(disk, r, s)
      BY <2>1 DEF StartInv, Ordered
    <3> QED
      BY <3>1, <3>2, <3>3, <3>4, <2>1, <1>1 DEF Ordered
  <2>3. CASE ~inTransaction
    BY <1>1, <2>1, <2>3 DEF Ordered
  <2> QED
    BY <2>2, <2>3
<1>7. CurrentStays'
  BY <1>1 DEF StartInv, CurrentStays, StartTypeOK
<1> QED
  BY <1>2, <1>4, <1>5, <1>6, <1>7


\* Each statement that creates or alters a table does its part, and only where a part is missing.
LEMMA CreateKeeps ==
  ASSUME StartInv, CreateImages \/ CreateSearch \/ CreateOutbox \/ AddColumn \/ AddOutboxColumn
  PROVE  StartInv'
<1>1. PICK d \in Files :
        /\ Ddl(d) /\ UNCHANGED Cursor /\ stage' = stage
        /\ d.of = db.of /\ d.pos = db.pos /\ d.published = db.published /\ d.index = db.index
        /\ d.unique = db.unique /\ ~Current(db)
        /\ db.search => d.search
        /\ stage \in {"script", "columns", "outbox"}
        /\ stage = "outbox" => d.images = db.images
  <2>1. db \in Files
    BY DEF StartInv, StartTypeOK
  <2>2. CASE CreateImages
    <3> DEFINE d == [db EXCEPT !.images = ImageColumns]
    <3>1. d \in Files /\ Ddl(d) /\ db.images # ImageColumns /\ stage = "script"
      BY <2>1, <2>2 DEF CreateImages, Files, ImageColumns, Go
    <3> QED
      BY <2>1, <2>2, <3>1 DEF CreateImages, Current, Go, Files
  <2>3. CASE CreateSearch
    <3> DEFINE d == [db EXCEPT !.search = TRUE]
    <3>1. d \in Files /\ Ddl(d) /\ ~db.search /\ stage = "script"
      BY <2>1, <2>3 DEF CreateSearch, Files, Go
    <3> QED
      BY <2>1, <2>3, <3>1 DEF CreateSearch, Current, Go, Files
  <2>4. CASE CreateOutbox
    <3> DEFINE d == [db EXCEPT !.outbox = OutboxColumns]
    <3>1. d \in Files /\ Ddl(d) /\ db.outbox # OutboxColumns /\ stage = "script"
      BY <2>1, <2>4 DEF CreateOutbox, Files, OutboxColumns, Go
    <3> QED
      BY <2>1, <2>4, <3>1 DEF CreateOutbox, Current, Go, Files
  <2>5. CASE AddColumn
    <3>1. PICK c \in ImageColumns \ db.images : Ddl([db EXCEPT !.images = @ \cup {c}])
      BY <2>5 DEF AddColumn
    <3> DEFINE d == [db EXCEPT !.images = @ \cup {c}]
    <3>2. d \in Files /\ Ddl(d) /\ db.images # ImageColumns /\ stage = "columns"
      BY <2>1, <2>5, <3>1 DEF AddColumn, Files, Go
    <3> QED
      BY <2>1, <2>5, <3>2 DEF AddColumn, Current, Go, Files
  <2>6. CASE AddOutboxColumn
    <3>1. PICK c \in OutboxColumns \ db.outbox : Ddl([db EXCEPT !.outbox = @ \cup {c}])
      BY <2>6 DEF AddOutboxColumn
    <3> DEFINE d == [db EXCEPT !.outbox = @ \cup {c}]
    <3>2. d \in Files /\ Ddl(d) /\ db.outbox # OutboxColumns /\ stage = "outbox"
      BY <2>1, <2>6, <3>1 DEF AddOutboxColumn, Files, Go
    <3> QED
      BY <2>1, <2>6, <3>2 DEF AddOutboxColumn, Current, Go, Files
  <2> QED
    BY <2>2, <2>3, <2>4, <2>5, <2>6
<1>2. db' = d /\ inTransaction' = inTransaction /\ todo' = todo
  BY <1>1 DEF Ddl, Cursor
<1>3. d.unique => Distinct(d)
  BY <1>1, SameRows DEF StartInv, FileOK
<1>4. stage' \in Starting /\ stage' # "renumber" /\ (stage' \in {"outbox", "commit"} => stage = "outbox" /\ todo = {})
  BY <1>1 DEF Starting, StartInv, Stages
<1>5. StartTypeOK' /\ FileOK(disk)' /\ FileOK(db)' /\ InTurn' /\ Ordered' /\ CurrentStays'
  BY <1>1, <1>3, <1>4, SchemaKeeps
<1>6. Stages'
  <2>1. Numbered(d) <=> Numbered(db)
    BY <1>1, SameRows
  <2> QED
    BY <1>1, <1>2, <2>1 DEF StartInv, Stages
<1>7. OnlyOldOutboxFails'
  BY <1>1 DEF OnlyOldOutboxFails
<1> QED
  BY <1>5, <1>6, <1>7 DEF StartInv

\* When every row has its position, the unique index can be built.
LEMMA UniqueKeeps ==
  ASSUME StartInv, CreateUnique
  PROVE  StartInv'
<1> DEFINE d == [db EXCEPT !.unique = Distinct(db)]
<1>1. db \in Files /\ stage = "renumber" /\ todo = {} /\ Ddl(d) /\ UNCHANGED Cursor
  BY DEF StartInv, StartTypeOK, CreateUnique, Go
<1>2. \A l : Done(l) = ImagesOf(db, l)
  BY <1>1 DEF Done
<1>3. Numbered(db)
  BY <1>1, <1>2 DEF StartInv, InTurn, Numbered
<1>4. Distinct(db)
  <2> SUFFICES ASSUME NEW r \in Present(db), NEW s \in Present(db), r # s, db.of[r] = db.of[s]
               PROVE  db.pos[r] # db.pos[s]
    BY DEF Distinct
  <2>1. db.of[r] \in Listings /\ r \in Done(db.of[r]) /\ s \in Done(db.of[r])
    BY <1>1, <1>2 DEF Files, Present, ImagesOf
  <2> QED
    BY <2>1, <1>1 DEF StartInv, InTurn
<1>5. /\ d \in Files /\ d.of = db.of /\ d.pos = db.pos /\ d.published = db.published
      /\ d.index = db.index /\ d.unique = TRUE /\ d.images = db.images /\ d.search = db.search
  BY <1>1, <1>4 DEF Files
<1>6. db.unique = TRUE => d = db
  BY <1>1, <1>4 DEF Files
<1>7. db.unique \in BOOLEAN
  BY <1>1 DEF Files
<1>8. stage' = "outbox"
  BY <1>4 DEF CreateUnique, Go
<1>9. db' = d /\ inTransaction' = inTransaction /\ todo' = todo
  BY <1>1 DEF Ddl, Cursor
<1> HIDE DEF d
<1>10. Distinct(d) /\ Numbered(d)
  BY <1>3, <1>4, <1>5, SameRows
<1>11. StartTypeOK' /\ FileOK(disk)' /\ FileOK(db)' /\ InTurn' /\ Ordered' /\ CurrentStays'
  BY <1>1, <1>5, <1>6, <1>7, <1>8, <1>10, SchemaKeeps DEF Starting, Current
<1>12. Stages'
  BY <1>1, <1>5, <1>8, <1>9, <1>10 DEF StartInv, Stages
<1>13. OnlyOldOutboxFails'
  BY <1>8 DEF OnlyOldOutboxFails
<1> QED
  BY <1>11, <1>12, <1>13 DEF StartInv


\* Steps that change neither the file nor what the connection sees of it.
LEMMA WaitKeeps ==
  ASSUME StartInv, Open \/ FinishScript \/ ConnectAgain \/ ProcessStops \/ UNCHANGED startVars
  PROVE  StartInv'
<1>1. CASE Open \/ FinishScript \/ ConnectAgain
  <2>1. /\ db' = db /\ disk' = disk /\ inTransaction' = inTransaction /\ todo' = todo /\ last' = last
        /\ stage' \in {"script", "columns", "failed", "unready"}
        /\ inTransaction = FALSE
        /\ stage' = "columns" => db.search
        /\ stage' \in {"failed", "unready"} => ~(Indexed \subseteq disk.outbox)
    <3>1. CASE Open
      BY <3>1 DEF Open, Go, Untouched, Cursor, StartInv, StartTypeOK, Stages
    <3>2. CASE FinishScript
      BY <3>2 DEF FinishScript, Go, Untouched, Cursor, StartInv, StartTypeOK, Stages
    <3>3. CASE ConnectAgain
      BY <3>3 DEF ConnectAgain, Go, Untouched, Cursor, StartInv, StartTypeOK, Stages, OnlyOldOutboxFails
    <3> QED
      BY <1>1, <3>1, <3>2, <3>3
  <2>2. StartTypeOK'
    BY <2>1 DEF StartInv, StartTypeOK, Starting
  <2>3. FileOK(disk)' /\ FileOK(db)' /\ CurrentStays'
    BY <2>1 DEF StartInv, FileOK, Distinct, Present, CurrentStays, Current, ImagesOf
  <2> QED
    BY <2>1, <2>2, <2>3 DEF StartInv, Stages, InTurn, Ordered, OnlyOldOutboxFails
<1>2. CASE ProcessStops
  <2>1. /\ db' = disk /\ disk' = disk /\ inTransaction' = FALSE /\ stage' = "down"
        /\ todo' = {} /\ last' = [listing |-> Null, position |-> 0]
    BY <1>2 DEF ProcessStops
  <2>2. StartTypeOK'
    <3>1. 0 \in 0..Cardinality(Rows)
      BY RowsOf
    <3> QED
      BY <2>1, <3>1 DEF StartInv, StartTypeOK, Null
  <2>3. FileOK(disk)' /\ FileOK(db)' /\ CurrentStays'
    BY <2>1 DEF StartInv, FileOK, Distinct, Present, CurrentStays
  <2> QED
    BY <2>1, <2>2, <2>3 DEF StartInv, Stages, InTurn, Ordered, OnlyOldOutboxFails
<1>3. CASE UNCHANGED startVars
  <2>1. /\ db' = db /\ disk' = disk /\ inTransaction' = inTransaction /\ stage' = stage
        /\ todo' = todo /\ last' = last
    BY <1>3 DEF startVars
  <2>2. (StartTypeOK /\ Stages /\ OnlyOldOutboxFails)'
    <3>1. StartTypeOK' /\ OnlyOldOutboxFails'
      BY <2>1 DEF StartInv, StartTypeOK, OnlyOldOutboxFails
    <3>2. /\ Current(db)' <=> Current(db)
          /\ Numbered(db)' <=> Numbered(db)
          /\ IndexComplete(db)' <=> IndexComplete(db)
      BY <2>1 DEF Current, Numbered, IndexComplete, ImagesOf
    <3>3. Stages'
      BY <2>1, <3>2 DEF StartInv, Stages
    <3> QED
      BY <3>1, <3>3
  <2>3. (FileOK(disk) /\ FileOK(db) /\ CurrentStays)'
    BY <2>1 DEF StartInv, FileOK, Distinct, Present, CurrentStays, Current, ImagesOf
  <2>4. InTurn'
    <3>1. Present(db)' = Present(db) /\ \A l : ImagesOf(db, l)' = ImagesOf(db, l) /\ Done(l)' = Done(l)
      BY <2>1 DEF Present, ImagesOf, Done
    <3> QED
      BY <2>1, <3>1 DEF StartInv, InTurn
  <2>5. Ordered'
    <3>1. \A l : ImagesOf(db, l)' = ImagesOf(db, l)
      BY <2>1 DEF ImagesOf
    <3>2. \A r, s : /\ Precedes(db, r, s)' <=> Precedes(db, r, s)
                   /\ Precedes(disk, r, s)' <=> Precedes(disk, r, s)
      BY <2>1 DEF Precedes
    <3> QED
      BY <2>1, <3>1, <3>2 DEF StartInv, Ordered
  <2> QED
    BY <2>2, <2>3, <2>4, <2>5 DEF StartInv
<1> QED
  BY <1>1, <1>2, <1>3

\* The rows are fetched before the first of them is renumbered.
LEMMA SelectKeeps ==
  ASSUME StartInv, SelectRows
  PROVE  StartInv'
<1>1. /\ db' = db /\ disk' = disk /\ inTransaction' = inTransaction /\ stage' = "renumber"
      /\ todo' = Present(db) /\ last' = [listing |-> Null, position |-> 0]
      /\ db.images = ImageColumns /\ db.search /\ inTransaction = FALSE /\ db = disk
  BY DEF SelectRows, Go, Untouched, StartInv, Stages, StartTypeOK
<1>2. StartTypeOK'
  <2>1. 0 \in 0..Cardinality(Rows) /\ Present(db) \subseteq Rows
    BY RowsOf DEF Present
  <2> QED
    BY <1>1, <2>1 DEF StartInv, StartTypeOK, Null, Starting
<1>3. FileOK(disk)' /\ FileOK(db)' /\ CurrentStays'
  BY <1>1 DEF StartInv, FileOK, Distinct, Present, CurrentStays
<1>4. /\ db.of \in [Rows -> Listings \cup {Null}] /\ db.pos \in [Rows -> Nat]
      /\ Null \notin Listings /\ Listings \subseteq Nat
  BY ListingsAssumption DEF StartInv, StartTypeOK, Files, Null
<1>5. \A l \in Listings : Done(l)' = {}
  BY <1>1, <1>4 DEF Done, ImagesOf, Present
<1>6. InTurn'
  <2>1. todo' \subseteq Present(db)' /\ \A s \in todo' : last'.listing <= db'.of[s]
    <3>1. ASSUME NEW s \in Present(db) PROVE s \in Present(db)' /\ 0 <= db.of[s]
      <4>1. s \in Rows /\ db.of[s] \in Listings
        BY <1>4 DEF Present
      <4>2. db.of[s] \in Nat
        BY <4>1, <1>4
      <4>3. s \in Present(db)'
        BY <3>1, <1>1 DEF Present
      <4> QED
        BY <4>2, <4>3
    <3> QED
      BY <3>1, <1>1 DEF Null
  <2> SUFFICES ASSUME NEW l \in Listings
               PROVE  /\ {db'.pos[r] : r \in Done(l)'} = 1..Cardinality(Done(l)')
                      /\ \A r, s \in Done(l)' : r # s => db'.pos[r] # db'.pos[s]
                      /\ l = last'.listing => last'.position = Cardinality(Done(l)')
                      /\ l # last'.listing /\ Done(l)' # {} => todo' \cap ImagesOf(db, l)' = {}
                      /\ db'.unique => \A s \in todo' \cap ImagesOf(db, l)' :
                                         db'.pos[s] # Null => db'.pos[s] > Cardinality(Done(l)')
    BY <2>1 DEF InTurn
  <2>2. Done(l)' = {} /\ Cardinality(Done(l)') = 0
    BY <1>5, FS_EmptySet
  <2>3. {db'.pos[r] : r \in Done(l)'} = {} /\ 1..0 = {}
    BY <2>2
  <2>4. \A s \in todo' : db'.pos[s] \in Nat
    BY <1>1, <1>4 DEF Present
  <2> QED
    BY <2>2, <2>3, <2>4, <1>1, <1>4 DEF Null
<1>7. Ordered'
  BY <1>1, <1>4 DEF Ordered, ImagesOf, Present
<1> QED
  BY <1>1, <1>2, <1>3, <1>6, <1>7 DEF StartInv, Stages, OnlyOldOutboxFails

\* A row gets its position.
LEMMA RenumberKeeps ==
  ASSUME StartInv, Renumber
  PROVE  StartInv'
<1>1. PICK r \in Rows : 
        /\ First(r) /\ todo' = todo \ {r} /\ stage = "renumber"
        /\ LET d == [db EXCEPT !.pos[r] = NextPosition(db.of[r])]
           IN /\ stage' = IF db.unique /\ ~Distinct(d) THEN "failed" ELSE "renumber"
              /\ Dml(IF db.unique /\ ~Distinct(d) THEN db ELSE d)
              /\ last' = [listing |-> db.of[r], position |-> NextPosition(db.of[r])]
  BY DEF Renumber, Go
<1> DEFINE d == [db EXCEPT !.pos[r] = NextPosition(db.of[r])]
<1>2. StartTypeOK /\ FileOK(db) /\ FileOK(disk) /\ InTurn /\ Ordered /\ Stages /\ CurrentStays
  BY DEF StartInv
<1>3. db.unique => Distinct(d)
  BY <1>1, <1>2, NoCollision
<1>4. /\ stage' = "renumber" /\ db' = d /\ disk' = disk /\ inTransaction' = TRUE
      /\ last' = [listing |-> db.of[r], position |-> NextPosition(db.of[r])]
  BY <1>1, <1>3 DEF Dml
<1>5. /\ db.of[r] \in Listings
      /\ NextPosition(db.of[r]) \in Nat /\ NextPosition(db.of[r]) \in 0..Cardinality(Rows)
  <2>1. Cardinality(Rows) \in Nat
    BY RowsOf
  <2> QED
    BY <1>1, <1>2, <2>1, NextRow
<1>6. db \in Files
  BY <1>2 DEF StartTypeOK
<1>7. /\ d \in Files /\ d.index = db.index /\ d.published = db.published /\ d.unique = db.unique
      /\ d.images = db.images /\ d.search = db.search
  BY <1>5, <1>6 DEF Files
<1>8. StartTypeOK'
  BY <1>1, <1>2, <1>4, <1>5, <1>7 DEF StartTypeOK, Starting
<1>9. FileOK(disk)' /\ FileOK(db)'
  BY <1>2, <1>3, <1>4, <1>7 DEF FileOK, Distinct, Present
<1>10. InTurn'
  BY <1>1, <1>2, <1>4, TurnGoesOn
<1>11. Ordered'
  BY <1>1, <1>2, <1>4, OrderGoesOn
<1>12. CurrentStays'
  <2> SUFFICES ASSUME Current(disk) PROVE d = disk
    BY <1>4 DEF CurrentStays
  <2>1. db = disk /\ Current(db)
    BY <1>2 DEF CurrentStays
  <2> QED
    BY <2>1, <1>1, <1>2, CurrentKeepsPosition
<1>13. Stages' /\ OnlyOldOutboxFails'
  BY <1>1, <1>2, <1>4, <1>7 DEF Stages, OnlyOldOutboxFails
<1> QED
  BY <1>8, <1>9, <1>10, <1>11, <1>12, <1>13 DEF StartInv


\* The search index is completed, and what is complete stays as it is.
LEMMA BootstrapKeeps ==
  ASSUME StartInv, Bootstrap
  PROVE  StartInv'
<1> DEFINE index == [l \in Listings |-> db.index[l] + IF l \in Missing(db) THEN 1 ELSE 0]
           d == [db EXCEPT !.index = index]
<1>1. /\ stage = "outbox" /\ stage' = "commit" /\ db.outbox = OutboxColumns
      /\ db' = d /\ inTransaction' = TRUE /\ disk' = disk /\ todo' = todo /\ last' = last
  BY DEF Bootstrap, Go, Dml, Cursor
<1>2. /\ db \in Files /\ db.index \in [Listings -> Nat] /\ FileOK(db)
      /\ todo = {} /\ db.unique /\ Numbered(db) /\ db.images = ImageColumns /\ db.search
  BY <1>1 DEF StartInv, StartTypeOK, Files, Stages
<1>3. \A l \in Listings :
        index[l] \in Nat /\ index[l] = IF l \in Missing(db) THEN 1 ELSE db.index[l]
  BY <1>2 DEF Missing
<1>4. index \in [Listings -> Nat]
  BY <1>3
<1>5. IndexComplete(db) => index = db.index
  BY <1>2, <1>3 DEF IndexComplete, Missing
<1>6. IndexComplete(db) => d = db
  BY <1>2, <1>5 DEF Files
<1> HIDE DEF index
<1>7. /\ d \in Files /\ d.index = index /\ d.of = db.of /\ d.pos = db.pos /\ d.published = db.published
      /\ d.unique = db.unique /\ d.images = db.images /\ d.search = db.search /\ d.outbox = db.outbox
  BY <1>2, <1>4 DEF Files
<1> HIDE DEF d
<1>8. StartTypeOK'
  BY <1>1, <1>7 DEF StartInv, StartTypeOK, Starting
<1>9. /\ Distinct(d) <=> Distinct(db)
      /\ Numbered(d) <=> Numbered(db)
      /\ \A l : ImagesOf(d, l) = ImagesOf(db, l)
      /\ \A r, s : Precedes(d, r, s) <=> Precedes(db, r, s)
  BY <1>7, SameRows
<1>10. IndexComplete(d)
  <2> SUFFICES ASSUME NEW l \in Listings, l \in db.published PROVE index[l] > 0
    BY <1>7 DEF IndexComplete
  <2> QED
    BY <1>2, <1>3 DEF Missing
<1>11. FileOK(db)'
  BY <1>1, <1>2, <1>3, <1>7, <1>9 DEF FileOK, Distinct, Present
<1>12. FileOK(disk)'
  BY <1>1 DEF StartInv, FileOK, Distinct, Present
<1>13. Ordered'
  <2>1. /\ db.of = disk.of
        /\ \A l \in Listings : \A r, s \in ImagesOf(db, l) : Precedes(db, r, s) <=> Precedes(disk, r, s)
    BY <1>1, <1>2 DEF StartInv, Ordered
  <2> QED
    BY <2>1, <1>1, <1>2, <1>7, <1>9 DEF Ordered
<1>14. CurrentStays'
  <2> SUFFICES ASSUME Current(disk) PROVE d = disk
    BY <1>1 DEF CurrentStays
  <2>1. db = disk /\ IndexComplete(db)
    BY CurrentIs DEF StartInv, CurrentStays
  <2> QED
    BY <2>1, <1>6
<1>15. Stages'
  BY <1>1, <1>2, <1>7, <1>9, <1>10 DEF Stages
<1>16. InTurn' /\ OnlyOldOutboxFails'
  BY <1>1 DEF InTurn, OnlyOldOutboxFails
<1> QED
  BY <1>8, <1>11, <1>12, <1>13, <1>14, <1>15, <1>16 DEF StartInv

\* The commit makes the file current.
LEMMA CommitKeeps ==
  ASSUME StartInv, CommitStart
  PROVE  StartInv' /\ Current(db)
<1>1. /\ stage = "commit" /\ stage' = "up" /\ disk' = db /\ db' = db /\ inTransaction' = FALSE
      /\ todo' = todo /\ last' = last
  BY DEF CommitStart, Go, Cursor
<1>2. Current(db)
  BY <1>1, CurrentIs DEF StartInv, Stages
<1>3. StartTypeOK'
  BY <1>1 DEF StartInv, StartTypeOK
<1>4. FileOK(disk)' /\ FileOK(db)'
  BY <1>1 DEF StartInv, FileOK, Distinct, Present
<1>5. Current(db)'
  BY <1>1, <1>2 DEF Current, ImagesOf
<1> QED
  BY <1>1, <1>2, <1>3, <1>4, <1>5
  DEF StartInv, Stages, InTurn, Ordered, CurrentStays, OnlyOldOutboxFails

\* A request that leaves a current file current.
LEMMA RequestKeeps ==
  ASSUME StartInv, NEW d \in Files, FileOK(d), Current(d), Request(d)
  PROVE  StartInv'
<1>1. /\ stage = "up" /\ stage' = "up" /\ db' = d /\ disk' = d /\ inTransaction' = inTransaction
      /\ todo' = todo /\ last' = last
  BY DEF Request, Cursor
<1>2. StartTypeOK'
  BY <1>1 DEF StartInv, StartTypeOK
<1>3. FileOK(disk)' /\ FileOK(db)'
  BY <1>1 DEF FileOK, Distinct, Present
<1>4. Current(db)'
  BY <1>1 DEF Current, ImagesOf
<1> QED
  BY <1>1, <1>2, <1>3, <1>4 DEF StartInv, Stages, InTurn, Ordered, CurrentStays, OnlyOldOutboxFails

\* While requests are served the connection sees a current file, the one on disk.
LEMMA UpIs ==
  ASSUME StartInv, stage = "up"
  PROVE  db \in Files /\ FileOK(db) /\ Current(db) /\ db = disk
  BY DEF StartInv, Stages, StartTypeOK

\* The fields that each request changes.
LEMMA AddImageIs ==
  ASSUME StartInv, NEW l \in Listings, AddImage(l)
  PROVE  \E r \in Rows \ Present(db) :
           /\ db' \in Files /\ Request(db') /\ SameButRows(db, db')
           /\ db'.of = [db.of EXCEPT ![r] = l]
           /\ db'.pos = [db.pos EXCEPT ![r] = Cardinality(ImagesOf(db, l)) + 1]
<1>1. PICK r \in Rows \ Present(db) :
        Request([db EXCEPT !.of[r] = l, !.pos[r] = Cardinality(ImagesOf(db, l)) + 1])
  BY DEF AddImage
<1>2. Cardinality(ImagesOf(db, l)) \in Nat
  BY RowsOf DEF ImagesOf
<1>3. PICK n \in Nat : n = Cardinality(ImagesOf(db, l)) + 1
  BY <1>2
<1>4. db \in Files
  BY DEF StartInv, StartTypeOK
<1> DEFINE d == [db EXCEPT !.of[r] = l, !.pos[r] = n]
<1>5. d \in Files /\ SameButRows(db, d) /\ d.of = [db.of EXCEPT ![r] = l] /\ d.pos = [db.pos EXCEPT ![r] = n]
  BY <1>3, <1>4 DEF Files, SameButRows
<1>6. Request(d) /\ db' = d
  BY <1>1, <1>3 DEF Request
<1> QED
  BY <1>3, <1>5, <1>6

LEMMA DeleteImageIs ==
  ASSUME StartInv, NEW r \in Rows, DeleteImage(r)
  PROVE  /\ db' \in Files /\ Request(db') /\ SameButRows(db, db') /\ r \in Present(db)
         /\ db'.of = [db.of EXCEPT ![r] = Null]
         /\ db'.pos = [s \in Rows |->
                         IF s = r THEN Null
                         ELSE IF db.of[s] = db.of[r] /\ db.pos[s] > db.pos[r] THEN db.pos[s] - 1 ELSE db.pos[s]]
<1>1. PICK p : p = [s \in Rows |->
                      IF s = r THEN Null
                      ELSE IF db.of[s] = db.of[r] /\ db.pos[s] > db.pos[r] THEN db.pos[s] - 1 ELSE db.pos[s]]
  OBVIOUS
<1>2. db \in Files /\ db.pos \in [Rows -> Nat]
  BY DEF StartInv, StartTypeOK, Files
<1>3. p \in [Rows -> Nat]
  BY <1>1, <1>2 DEF Null
<1> DEFINE d == [db EXCEPT !.of[r] = Null, !.pos = p]
<1>4. d \in Files /\ SameButRows(db, d) /\ d.of = [db.of EXCEPT ![r] = Null] /\ d.pos = p
  BY <1>2, <1>3 DEF Files, SameButRows
<1>5. Request(d) /\ r \in Present(db)
  BY <1>1 DEF DeleteImage
<1>6. db' = d
  BY <1>5 DEF Request
<1> QED
  BY <1>1, <1>4, <1>5, <1>6


\* A listing is published together with its row of the index.
LEMMA PublishKeeps ==
  ASSUME StartInv, NEW l \in Listings, PublishListing(l)
  PROVE  StartInv' /\ db'.of = db.of /\ db'.pos = db.pos
<1> DEFINE d == [db EXCEPT !.published = @ \cup {l}, !.index[l] = 1]
<1>1. stage = "up" /\ Request(d) /\ db' = d
  BY DEF PublishListing, Request
<1>2. db \in Files /\ FileOK(db) /\ Current(db)
  BY <1>1, UpIs
<1>3. /\ d \in Files /\ d.of = db.of /\ d.pos = db.pos /\ d.images = db.images /\ d.outbox = db.outbox
      /\ d.search = db.search /\ d.unique = db.unique
      /\ d.published = db.published \cup {l} /\ d.index = [db.index EXCEPT ![l] = 1]
      /\ db.index \in [Listings -> Nat]
  BY <1>2 DEF Files
<1> HIDE DEF d
<1>4. (Distinct(d) <=> Distinct(db)) /\ (Numbered(d) <=> Numbered(db))
  BY <1>3, SameRows
<1>5. IndexComplete(d)
  BY <1>2, <1>3, CurrentIs DEF IndexComplete
<1>6. FileOK(d) /\ Current(d)
  BY <1>2, <1>3, <1>4, <1>5, CurrentIs DEF FileOK, IndexComplete
<1> QED
  BY <1>1, <1>3, <1>6, RequestKeeps

\* No step leaves the invariant.
LEMMA StartInvStep == StartInv /\ [StartNext]_startVars => StartInv'
<1> SUFFICES ASSUME StartInv, [StartNext]_startVars PROVE StartInv'
  OBVIOUS
<1>1. ASSUME NEW l \in Listings, AddImage(l) PROVE StartInv'
  <2>1. PICK r \in Rows \ Present(db) :
          /\ db' \in Files /\ Request(db') /\ SameButRows(db, db')
          /\ db'.of = [db.of EXCEPT ![r] = l]
          /\ db'.pos = [db.pos EXCEPT ![r] = Cardinality(ImagesOf(db, l)) + 1]
    BY <1>1, AddImageIs
  <2>2. db \in Files /\ FileOK(db) /\ Current(db)
    BY <2>1, UpIs DEF Request
  <2>3. PICK d : d = db'
    OBVIOUS
  <2>4. FileOK(d) /\ Current(d)
    BY <2>1, <2>2, <2>3, AddKeeps
  <2> QED
    BY <2>1, <2>3, <2>4, RequestKeeps
<1>2. ASSUME NEW r \in Rows, DeleteImage(r) PROVE StartInv'
  <2>1. PICK d : d = db'
    OBVIOUS
  <2>2. db \in Files /\ FileOK(db) /\ Current(db)
    BY <1>2, DeleteImageIs, UpIs DEF Request
  <2>3. FileOK(d) /\ Current(d)
    BY <1>2, <2>1, <2>2, DeleteImageIs, DeleteKeeps
  <2> QED
    BY <1>2, <2>1, <2>3, DeleteImageIs, RequestKeeps
<1> QED
  BY <1>1, <1>2, CreateKeeps, UniqueKeeps, WaitKeeps, SelectKeeps, RenumberKeeps, BootstrapKeeps, CommitKeeps,
     PublishKeeps DEF StartNext

LEMMA StartInvariant == StartSpec => []StartInv
BY StartInvInit, StartInvStep, PTL DEF StartSpec

\* Whatever file a start finds, its index with double and stale rows or without, however
\* often earlier starts were interrupted, and for any number of images and listings: when it
\* has succeeded the file is current.
THEOREM StartMakesCurrent == StartSpec => []UpMeansCurrent
<1>1. StartInv => UpMeansCurrent
  BY DEF StartInv, UpMeansCurrent, Stages, StartTypeOK
<1> QED
  BY <1>1, StartInvariant, PTL

\* A start fails only over an outbox that lacks an indexed column.
THEOREM OnlyOldOutboxStops == StartSpec => []OnlyOldOutboxFails
<1>1. StartInv => OnlyOldOutboxFails
  BY DEF StartInv
<1> QED
  BY <1>1, StartInvariant, PTL

\* A start that finds the file current does not write it.
THEOREM RestartIsHarmless == StartSpec => RestartWritesNothing
<1>1. StartInv /\ StartInv' /\ [StartNext]_startVars
      => [stage # "up" /\ Current(disk) => disk' = disk]_startVars
  <2> SUFFICES ASSUME StartInv, [StartNext]_startVars, stage # "up", Current(disk)
               PROVE  disk' = disk
    OBVIOUS
  <2>1. db = disk /\ Current(db)
    BY DEF StartInv, CurrentStays
  <2>2. CASE CommitStart
    BY <2>1, <2>2 DEF CommitStart
  <2>3. CASE CreateImages \/ CreateSearch \/ CreateOutbox \/ AddColumn \/ AddOutboxColumn
    BY <2>1, <2>3
    DEF CreateImages, CreateSearch, CreateOutbox, AddColumn, AddOutboxColumn, Current,
    ImageColumns, OutboxColumns
  <2>4. CASE CreateUnique
    <3>1. db \in Files /\ db.unique = TRUE /\ Distinct(db)
      BY <2>1 DEF StartInv, StartTypeOK, FileOK, Current, Files
    <3>2. [db EXCEPT !.unique = Distinct(db)] = db
      BY <3>1 DEF Files
    <3> QED
      BY <2>1, <2>4, <3>2 DEF CreateUnique, Ddl
  <2>5. CASE Renumber \/ Bootstrap
    BY <2>5 DEF Renumber, Bootstrap, Dml
  <2>6. CASE Open \/ FinishScript \/ SelectRows \/ ConnectAgain \/ ProcessStops \/ UNCHANGED startVars
    BY <2>6 DEF Open, FinishScript, SelectRows, ConnectAgain, ProcessStops, Untouched, startVars
  <2>7. ~(\E l \in Listings : AddImage(l) \/ PublishListing(l)) /\ ~(\E r \in Rows : DeleteImage(r))
    BY DEF AddImage, PublishListing, DeleteImage, Request
  <2> QED
    BY <2>2, <2>3, <2>4, <2>5, <2>6, <2>7 DEF StartNext
<1> QED
  BY <1>1, StartInvariant, PTL DEF StartSpec, RestartWritesNothing


-----------------------------------------------------------------------------
(* The order of the images. *)

\* Each listing shows its images one after the other.
LEMMA ShownIsLined ==
  ASSUME NEW d \in Files
  PROVE  /\ Shown(d) \in [Listings -> SUBSET (Rows \X Rows)]
         /\ \A l \in Listings : Promise!Lined(Shown(d)[l])
<1>1. \A l \in Listings : ImagesOf(d, l) \subseteq Rows
  BY DEF ImagesOf
<1>2. Shown(d) \in [Listings -> SUBSET (Rows \X Rows)]
  BY <1>1 DEF Shown
<1>3. ASSUME NEW l \in Listings PROVE Promise!Lined(Shown(d)[l])
  <2>1. PICK order : order = Shown(d)[l]
    OBVIOUS
  <2>2. order \subseteq Rows \X Rows
    BY <1>2, <2>1
  <2>3. \A r, s \in Rows : <<r, s>> \in order <=>
          /\ r \in ImagesOf(d, l) /\ s \in ImagesOf(d, l)
          /\ r = s \/ Precedes(d, r, s)
    BY <2>1 DEF Shown
  <2>4. \A p \in order : <<p[1], p[1]>> \in order /\ <<p[2], p[2]>> \in order
    <3> SUFFICES ASSUME NEW p \in order PROVE <<p[1], p[1]>> \in order /\ <<p[2], p[2]>> \in order
      OBVIOUS
    <3>1. p = <<p[1], p[2]>> /\ p[1] \in Rows /\ p[2] \in Rows
      BY <2>2
    <3> QED
      BY <3>1, <2>3
  <2>5. ASSUME NEW r \in Rows, NEW s \in Rows, <<r, r>> \in order, <<s, s>> \in order
        PROVE  /\ <<r, s>> \in order \/ <<s, r>> \in order
               /\ <<r, s>> \in order /\ <<s, r>> \in order => r = s
    BY <2>3, <2>5, PrecedesIsOrder
  <2>6. ASSUME NEW r \in Rows, NEW s \in Rows, NEW t \in Rows, <<r, s>> \in order, <<s, t>> \in order
        PROVE  <<r, t>> \in order
    BY <2>3, <2>6, PrecedesIsOrder
  <2> QED
    BY <2>1, <2>4, <2>5, <2>6 DEF Promise!Lined
<1> QED
  BY <1>2, <1>3

\* The images that are shown are those of the listing.
LEMMA ShownImages ==
  ASSUME NEW l \in Listings
  PROVE  Promise!Images(l) = ImagesOf(disk, l)
  BY DEF Promise!Images, Shown, ImagesOf

\* Files with the same images in the same order show the same.
LEMMA SameOrder ==
  ASSUME NEW d, NEW e, e.of = d.of,
         \A l \in Listings : \A r, s \in ImagesOf(d, l) : Precedes(e, r, s) <=> Precedes(d, r, s)
  PROVE  Shown(e) = Shown(d)
<1>1. \A l \in Listings : ImagesOf(e, l) = ImagesOf(d, l)
  BY DEF ImagesOf
<1>2. ASSUME NEW l \in Listings
      PROVE  {p \in ImagesOf(e, l) \X ImagesOf(e, l) : p[1] = p[2] \/ Precedes(e, p[1], p[2])}
           = {p \in ImagesOf(d, l) \X ImagesOf(d, l) : p[1] = p[2] \/ Precedes(d, p[1], p[2])}
  BY <1>1
<1> QED
  BY <1>2 DEF Shown

\* A new image is shown last.
LEMMA AddShown ==
  ASSUME StartInv, NEW l \in Listings, AddImage(l)
  PROVE  \E r \in Rows : Promise!Add(l, r)
<1>1. PICK r \in Rows \ Present(db) :
        /\ db' \in Files /\ Request(db') /\ SameButRows(db, db')
        /\ db'.of = [db.of EXCEPT ![r] = l]
        /\ db'.pos = [db.pos EXCEPT ![r] = Cardinality(ImagesOf(db, l)) + 1]
  BY AddImageIs
<1>2. db \in Files /\ FileOK(db) /\ Current(db) /\ db = disk /\ disk' = db'
  BY <1>1, UpIs DEF Request
<1>3. PICK e : e = db'
  OBVIOUS
<1>4. /\ \A k \in Listings : ImagesOf(e, k) = IF k = l THEN ImagesOf(db, l) \cup {r} ELSE ImagesOf(db, k)
      /\ \A s \in ImagesOf(db, l) : Precedes(e, s, r) /\ ~Precedes(e, r, s)
      /\ \A s, t \in Present(db) : Precedes(e, s, t) <=> Precedes(db, s, t)
  BY <1>1, <1>2, <1>3, AddKeeps
<1>5. \A k \in Listings : ImagesOf(db, k) \subseteq Present(db) /\ r \notin ImagesOf(db, k)
  BY ListingsAssumption DEF ImagesOf, Present, Null
<1>6. \A k \in Listings : r \notin Promise!Images(k)
  BY <1>2, <1>5, ShownImages
<1>7. Shown(db) \in [Listings -> SUBSET (Rows \X Rows)] /\ Shown(e) \in [Listings -> SUBSET (Rows \X Rows)]
  BY <1>1, <1>2, <1>3, ShownIsLined
<1>8. ASSUME NEW k \in Listings, k # l PROVE Shown(e)[k] = Shown(db)[k]
  <2>1. \A p \in ImagesOf(db, k) \X ImagesOf(db, k) : Precedes(e, p[1], p[2]) <=> Precedes(db, p[1], p[2])
    BY <1>4, <1>5
  <2>2. ImagesOf(e, k) = ImagesOf(db, k)
    BY <1>4, <1>8
  <2> QED
    BY <2>1, <2>2 DEF Shown
<1>9. Shown(e)[l] = Shown(db)[l] \cup (ImagesOf(db, l) \cup {r}) \X {r}
  <2>1. \A s, t \in Rows : <<s, t>> \in Shown(e)[l] <=>
          /\ s \in ImagesOf(db, l) \cup {r} /\ t \in ImagesOf(db, l) \cup {r}
          /\ s = t \/ Precedes(e, s, t)
    BY <1>4 DEF Shown
  <2>2. \A s, t \in Rows : <<s, t>> \in Shown(db)[l] <=>
          s \in ImagesOf(db, l) /\ t \in ImagesOf(db, l) /\ (s = t \/ Precedes(db, s, t))
    BY DEF Shown
  <2>3. \A s, t \in Rows :
          <<s, t>> \in Shown(e)[l] <=> <<s, t>> \in Shown(db)[l] \cup (ImagesOf(db, l) \cup {r}) \X {r}
    BY <2>1, <2>2, <1>4, <1>5
  <2>4. Shown(db)[l] \cup (ImagesOf(db, l) \cup {r}) \X {r} \subseteq Rows \X Rows
    BY <1>1, <1>7 DEF ImagesOf
  <2>5. Shown(e)[l] \subseteq Rows \X Rows
    BY <1>7
  <2> QED
    BY <2>3, <2>4, <2>5
<1>10. Shown(e) = [Shown(db) EXCEPT ![l] = @ \cup (ImagesOf(db, l) \cup {r}) \X {r}]
  BY <1>7, <1>8, <1>9
<1>11. Promise!Images(l) = ImagesOf(db, l)
  BY <1>2, ShownImages
<1>12. Promise!Add(l, r)
  BY <1>2, <1>3, <1>6, <1>10, <1>11 DEF Promise!Add
<1> QED
  BY <1>1, <1>12

\* A deleted image leaves the others in their order.
LEMMA DeleteShown ==
  ASSUME StartInv, NEW r \in Rows, DeleteImage(r)
  PROVE  \E l \in Listings : Promise!Delete(l, r)
<1>1. PICK e : e = db'
  OBVIOUS
<1>2. db \in Files /\ FileOK(db) /\ Current(db) /\ db = disk /\ disk' = e /\ e \in Files /\ r \in Present(db)
  BY <1>1, DeleteImageIs, UpIs DEF Request
<1>3. /\ \A k \in Listings : ImagesOf(e, k) = ImagesOf(db, k) \ {r}
      /\ \A k \in Listings : \A s, t \in ImagesOf(e, k) : Precedes(e, s, t) <=> Precedes(db, s, t)
  <2>1. /\ SameButRows(db, e) /\ e.of = [db.of EXCEPT ![r] = Null]
        /\ e.pos = [s \in Rows |->
                      IF s = r THEN Null
                      ELSE IF db.of[s] = db.of[r] /\ db.pos[s] > db.pos[r] THEN db.pos[s] - 1 ELSE db.pos[s]]
    BY <1>1, DeleteImageIs
  <2> QED
    BY <1>2, <2>1, DeleteKeeps
<1>4. PICK l \in Listings : l = db.of[r] /\ r \in ImagesOf(db, l)
  BY <1>2 DEF Files, Present, ImagesOf
<1>5. \A k \in Listings : k # l => r \notin ImagesOf(db, k)
  BY <1>4 DEF ImagesOf
<1>6. Shown(db) \in [Listings -> SUBSET (Rows \X Rows)] /\ Shown(e) \in [Listings -> SUBSET (Rows \X Rows)]
  BY <1>2, ShownIsLined
<1>7. ASSUME NEW k \in Listings
      PROVE  Shown(e)[k] = {p \in Shown(db)[k] : p[1] # r /\ p[2] # r}
  <2>1. \A p \in ImagesOf(e, k) \X ImagesOf(e, k) : Precedes(e, p[1], p[2]) <=> Precedes(db, p[1], p[2])
    BY <1>3
  <2>2. ImagesOf(e, k) = ImagesOf(db, k) \ {r}
    BY <1>3
  <2> QED
    BY <2>1, <2>2 DEF Shown
<1>8. ASSUME NEW k \in Listings, k # l PROVE Shown(e)[k] = Shown(db)[k]
  <2>1. \A p \in Shown(db)[k] : p[1] # r /\ p[2] # r
    BY <1>5, <1>8 DEF Shown
  <2> QED
    BY <2>1, <1>7
<1>9. Shown(e) = [Shown(db) EXCEPT ![l] = {p \in @ : p[1] # r /\ p[2] # r}]
  BY <1>6, <1>7, <1>8
<1>10. r \in Promise!Images(l)
  BY <1>2, <1>4, ShownImages
<1> QED
  BY <1>2, <1>9, <1>10 DEF Promise!Delete

\* Starting shows the images as they were; a request adds or deletes one.
LEMMA GalleryStep ==
  ASSUME StartInv, [StartNext]_startVars
  PROVE  [Promise!Next]_(Promise!vars)
<1>1. ASSUME NEW l \in Listings, AddImage(l) PROVE Promise!Next
  BY <1>1, AddShown DEF Promise!Next
<1>2. ASSUME NEW r \in Rows, DeleteImage(r) PROVE Promise!Next
  BY <1>2, DeleteShown DEF Promise!Next
<1>3. ASSUME disk'.of = disk.of, disk'.pos = disk.pos PROVE UNCHANGED Promise!vars
  <2>1. PICK e : e = disk'
    OBVIOUS
  <2>2. Shown(e) = Shown(disk)
    BY <1>3, <2>1, SameRows, SameOrder
  <2> QED
    BY <2>1, <2>2 DEF Promise!vars
<1>4. CASE CommitStart
  <2>1. db.of = disk.of /\ disk' = db
        /\ \A l \in Listings : \A r, s \in ImagesOf(disk, l) : Precedes(db, r, s) <=> Precedes(disk, r, s)
    <3>1. stage = "commit" /\ todo = {} /\ disk' = db
      BY <1>4 DEF CommitStart, Go, StartInv, Stages
    <3>2. \A l : ImagesOf(disk, l) = ImagesOf(db, l)
      BY <3>1 DEF StartInv, Ordered, ImagesOf
    <3> QED
      BY <3>1, <3>2 DEF StartInv, Ordered
  <2>2. Shown(db) = Shown(disk)
    BY <2>1, SameOrder
  <2> QED
    BY <2>1, <2>2 DEF Promise!vars
<1>5. ASSUME CreateImages \/ CreateSearch \/ CreateOutbox \/ AddColumn \/ AddOutboxColumn \/ CreateUnique
      PROVE  disk'.of = disk.of /\ disk'.pos = disk.pos
  <2>1. db \in Files /\ (~inTransaction => db = disk)
    BY DEF StartInv, StartTypeOK
  <2>2. CASE CreateImages \/ CreateSearch \/ CreateOutbox
    BY <2>1, <2>2 DEF CreateImages, CreateSearch, CreateOutbox, Ddl, Files
  <2>3. CASE AddColumn \/ AddOutboxColumn \/ CreateUnique
    BY <2>1, <2>3 DEF AddColumn, AddOutboxColumn, CreateUnique, Ddl, Files
  <2> QED
    BY <1>5, <2>2, <2>3
<1>6. CASE \/ Open \/ FinishScript \/ SelectRows \/ Renumber \/ Bootstrap \/ ConnectAgain \/ ProcessStops
           \/ UNCHANGED startVars
  <2>1. disk' = disk
    BY <1>6 DEF Open, FinishScript, SelectRows, Renumber, Bootstrap, ConnectAgain, ProcessStops,
       Untouched, Dml,
                startVars
  <2> QED
    BY <2>1, <1>3
<1>7. ASSUME NEW l \in Listings, PublishListing(l) PROVE disk'.of = disk.of /\ disk'.pos = disk.pos
  BY <1>7, PublishKeeps, UpIs DEF PublishListing, Request
<1> QED
  BY <1>1, <1>2, <1>3, <1>4, <1>5, <1>6, <1>7 DEF StartNext

\* Renumbering never changes the order in which the images of a listing are shown, whatever
\* positions an earlier version has left and wherever the start is interrupted.
THEOREM RenumberingKeepsOrder == StartSpec => GalleryKept
<1>1. StartInit => Promise!Init
  <2> SUFFICES ASSUME StartInit PROVE Promise!Init
    OBVIOUS
  <2>1. disk \in Files
    BY StartInvInit DEF StartInv, StartTypeOK
  <2> QED
    BY <2>1, ShownIsLined DEF Promise!Init
<1>2. StartInv /\ [StartNext]_startVars => [Promise!Next]_(Promise!vars)
  BY GalleryStep
<1> QED
  BY <1>1, <1>2, StartInvariant, PTL DEF StartSpec, GalleryKept
=============================================================================
