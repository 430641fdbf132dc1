------------------------------ MODULE StartUp -------------------------------
(***************************************************************************)
(* infrastructure/sqlite/database.py: the first connect() brings the file  *)
(* an earlier version or an interrupted start left to the current schema,  *)
(* renumbers the images and completes the search index.                    *)
(*                                                                         *)
(* Python's sqlite3 begins a transaction before a data change, never       *)
(* before a change of schema: each CREATE and ALTER is durable at once     *)
(* until the first UPDATE, and nothing after it before the final commit.   *)
(* The process may stop between any two statements.                        *)
(*                                                                         *)
(* Of the columns a migration adds, one of each kind is kept; id stands    *)
(* for those every version had, no column at all for a missing table.  The *)
(* tables users, listings, reservations and trust_profiles, and indexes    *)
(* that constrain nothing, are left out.                                   *)
(***************************************************************************)
EXTENDS Naturals, FiniteSets

CONSTANTS
  Rows,          \* rowids of images: later rows have larger ones
  Listings,
  MaxPosition,   \* bound: positions found in the file
  MaxIndexed     \* bound: rows of the search index one listing is found with

ASSUME RowsAssumption == IsFiniteSet(Rows) /\ Rows = 1..Cardinality(Rows)
ASSUME ListingsAssumption == Listings \subseteq Nat \ {0} /\ IsFiniteSet(Listings)
ASSUME PositionAssumption == MaxPosition \in Nat /\ MaxIndexed \in Nat

VARIABLES
  disk,            \* what a crash leaves
  db,              \* what the connection sees
  inTransaction,   \* conn.in_transaction
  stage,           \* how far connect() is
  todo,            \* the rows fetched and still to be renumbered
  last             \* [listing, position] of the row renumbered last

startVars == <<disk, db, inTransaction, stage, todo, last>>

Null == 0   \* a position never given; in "of", a row that does not exist

ImageColumns == {"id", "position", "processing_status"}
OutboxColumns == {"id", "published", "failure_reason"}
Indexed == {"id", "published"}   \* columns CREATE_EVENT_OUTBOX builds indexes on

Starting == {"script", "columns", "renumber", "outbox", "commit"}

Files ==
  [images : SUBSET ImageColumns, of : [Rows -> Listings \cup {Null}], pos : [Rows -> Nat],
   unique : BOOLEAN, outbox : SUBSET OutboxColumns, search : BOOLEAN,
   published : SUBSET Listings, index : [Listings -> Nat]]

-----------------------------------------------------------------------------
(* The rows of listing_images. *)

Present(d) == {r \in Rows : d.of[r] # Null}

ImagesOf(d, l) == {r \in Rows : d.of[r] = l}

\* No two rows of a listing have the same position; SQLite lets NULL repeat.
Distinct(d) ==
  \A r, s \in Present(d) :
    r # s /\ d.of[r] = d.of[s] /\ d.pos[r] = d.pos[s] => d.pos[r] = Null

\* ORDER BY position (NULL last), rowid
Precedes(d, r, s) ==
  \/ d.pos[r] # Null /\ (d.pos[s] = Null \/ d.pos[r] < d.pos[s])
  \/ d.pos[r] = d.pos[s] /\ r < s

Before_mutant(d, r, s) == Precedes(d, r, s)   \* without the listing
Before_mutant2(d, r, s) ==   \* by rowid
  d.of[r] < d.of[s] \/ (d.of[r] = d.of[s] /\ r < s)
\* ORDER BY listing_id first
Before(d, r, s) ==
  d.of[r] < d.of[s] \/ (d.of[r] = d.of[s] /\ Precedes(d, r, s))

\* The images of each listing in the order of their positions: <<r, s>> if r is shown, then s.
\* Images that have none yet come last, as the renumbering takes them.
Shown(d) ==
  [l \in Listings |-> {p \in ImagesOf(d, l) \X ImagesOf(d, l) :
                         p[1] = p[2] \/ Precedes(d, p[1], p[2])}]

-----------------------------------------------------------------------------
(* Files that connect() may find. *)

\* A file is what some version of the program wrote: rows and index entries are in
\* tables that exist, positions in a column that does.  Saves of a listing that overlapped
\* or were half committed may have left it several rows of the search index, or one of a
\* listing that is not PUBLISHED.
StartInit ==
  /\ disk \in
       {d \in [images : {{}} \cup {c \in SUBSET ImageColumns : "id" \in c},
               of : [Rows -> Listings \cup {Null}], pos : [Rows -> 0..MaxPosition],
               unique : BOOLEAN,
               outbox : {{}} \cup {c \in SUBSET OutboxColumns : "id" \in c},
               search : BOOLEAN, published : SUBSET Listings,
               index : [Listings -> 0..MaxIndexed]] :
          /\ d.images = {} => Present(d) = {}
          /\ \A r, s \in Rows : r < s /\ d.of[s] # Null => d.of[r] # Null
          /\ \A r \in Rows : d.of[r] = Null \/ "position" \notin d.images => d.pos[r] = Null
          /\ d.unique => "position" \in d.images /\ Distinct(d)
          /\ \A l \in Listings : d.index[l] > 0 => d.search}
  /\ db = disk
  /\ inTransaction = FALSE
  /\ stage = "down"
  /\ todo = {} /\ last = [listing |-> Null, position |-> 0]

-----------------------------------------------------------------------------
(* Statements. *)

Go(from, to) == stage = from /\ stage' = to

\* CREATE and ALTER: durable at once unless a transaction is open.
Ddl(d) ==
  /\ db' = d
  /\ disk' = IF inTransaction THEN disk ELSE d
  /\ UNCHANGED inTransaction

\* INSERT and UPDATE: in a transaction.
Dml(d) == db' = d /\ inTransaction' = TRUE /\ UNCHANGED disk

Untouched == UNCHANGED <<disk, db, inTransaction>>
Cursor == <<todo, last>>

Open ==
  /\ Go("down", "script")
  /\ Untouched /\ UNCHANGED Cursor

\* executescript: CREATE ... IF NOT EXISTS, in the order of database.py:36-42.
CreateImages ==
  /\ Go("script", "script")
  /\ db.images = {}
  /\ Ddl([db EXCEPT !.images = ImageColumns])
  /\ UNCHANGED Cursor

CreateSearch ==
  /\ Go("script", "script")
  /\ db.images # {} /\ ~db.search
  /\ Ddl([db EXCEPT !.search = TRUE])
  /\ UNCHANGED Cursor

CreateOutbox ==
  /\ Go("script", "script")
  /\ db.images # {} /\ db.search /\ db.outbox = {}
  /\ Ddl([db EXCEPT !.outbox = OutboxColumns])
  /\ UNCHANGED Cursor

\* The indexes come with the tables, before any migration: one on a column the file
\* does not have yet raises.
FinishScript ==
  /\ Go("script", IF Indexed \subseteq db.outbox THEN "columns" ELSE "failed")
  /\ db.images # {} /\ db.search /\ db.outbox # {}
  /\ Untouched /\ UNCHANGED Cursor

AddColumn ==
  /\ Go("columns", "columns")
  /\ \E c \in ImageColumns \ db.images : 
       /\ c = "position" \/ "position" \in db.images
       /\ Ddl([db EXCEPT !.images = @ \cup {c}])
  /\ UNCHANGED Cursor

SelectRows ==
  /\ Go("columns", "renumber")
  /\ db.images = ImageColumns
  /\ todo' = Present(db)
  /\ last' = [listing |-> Null, position |-> 0]
  /\ Untouched

NextPosition_mutant(l) == last.position + 1   \* never starts again
NextPosition(l) == IF l = last.listing THEN last.position + 1 ELSE 1

\* The next row as the query has ordered them: the rows left are as it has read them.
First(r) == r \in todo /\ \A s \in todo \ {r} : Before(db, r, s)

\* The UPDATE of one row; the unique index of an earlier start may refuse it.
Renumber ==
  \E r \in Rows :
    /\ First(r)
    /\ LET l == db.of[r]
           d == [db EXCEPT !.pos[r] = NextPosition(l)]
       IN /\ Go("renumber", IF db.unique /\ ~Distinct(d) THEN "failed" ELSE "renumber")
          /\ Dml(IF db.unique /\ ~Distinct(d) THEN db ELSE d)
          /\ last' = [listing |-> l, position |-> NextPosition(l)]
    /\ todo' = todo \ {r}

CreateUnique ==
  /\ todo = {}
  /\ Go("renumber", IF Distinct(db) THEN "outbox" ELSE "failed")
  /\ Ddl([db EXCEPT !.unique = Distinct(db)])
  /\ UNCHANGED Cursor

AddOutboxColumn ==
  /\ Go("outbox", "outbox")
  /\ \E c \in OutboxColumns \ db.outbox : Ddl([db EXCEPT !.outbox = @ \cup {c}])
  /\ UNCHANGED Cursor

\* Published listings that are not in the index yet.
Missing_mutant(d) == d.published   \* without NOT EXISTS
Missing(d) == {l \in d.published : d.index[l] = 0}

Bootstrap ==
  /\ Go("outbox", "commit")
  /\ db.outbox = OutboxColumns
  /\ Dml([db EXCEPT !.index = [l \in Listings |-> @[l] + IF l \in Missing(db) THEN 1 ELSE 0]])
  /\ UNCHANGED Cursor

CommitStart ==
  /\ Go("commit", "up")
  /\ disk' = db /\ inTransaction' = FALSE
  /\ UNCHANGED <<db, Cursor>>

\* self.conn is set before the schema is: the next connect() returns it as it is.
ConnectAgain ==
  /\ Go("failed", "unready")
  /\ Untouched /\ UNCHANGED Cursor

\* The process stops, and the open transaction is rolled back.
ProcessStops ==
  /\ stage # "down" /\ stage' = "down"
  /\ db' = disk /\ inTransaction' = FALSE
  /\ todo' = {} /\ last' = [listing |-> Null, position |-> 0]
  /\ UNCHANGED disk

-----------------------------------------------------------------------------
(* Requests that a later start finds the rows of. *)

Request(d) ==
  /\ stage = "up"
  /\ db' = d /\ disk' = d
  /\ UNCHANGED <<inTransaction, stage, Cursor>>

\* A new image takes the next position (application/media/service.py:97).
AddImage(l) ==
  \E r \in Rows \ Present(db) :
    /\ r - 1 \in Present(db) \cup {0} /\ \A s \in Present(db) : s < r
    /\ Request([db EXCEPT !.of[r] = l, !.pos[r] = Cardinality(ImagesOf(db, l)) + 1])

\* The images behind a deleted one move up.
DeleteImage(r) ==
  /\ r \in Present(db)
  /\ Request([db EXCEPT !.of[r] = Null,
              !.pos = [s \in Rows |->
                         IF s = r THEN Null
                         ELSE IF db.of[s] = db.of[r] /\ db.pos[s] > db.pos[r]
                              THEN @[s] - 1 ELSE @[s]]])

\* A listing is saved with its row of the index.
PublishListing(l) ==
  /\ l \notin db.published
  /\ Request([db EXCEPT !.published = @ \cup {l}, !.index[l] = 1])

StartNext ==
  \/ Open
  \/ CreateImages \/ CreateSearch \/ CreateOutbox \/ FinishScript
  \/ AddColumn \/ SelectRows \/ Renumber \/ CreateUnique
  \/ AddOutboxColumn \/ Bootstrap \/ CommitStart
  \/ ConnectAgain \/ ProcessStops
  \/ \E l \in Listings : AddImage(l) \/ PublishListing(l)
  \/ \E r \in Rows : DeleteImage(r)

StartSpec == StartInit /\ [][StartNext]_startVars

-----------------------------------------------------------------------------
(* Properties. *)

\* The file and the connection have their types, and only an open transaction makes
\* them differ.
StartTypeOK ==
  /\ disk \in Files /\ db \in Files
  /\ inTransaction \in BOOLEAN /\ (~inTransaction => db = disk)
  /\ stage \in Starting \cup {"down", "up", "failed", "unready"}
  /\ todo \subseteq Rows
  /\ last \in [listing : Listings \cup {Null}, position : 0..Cardinality(Rows)]

\* The columns, the unique index, positions 1, 2, ... and each PUBLISHED listing in the
\* search index; rows of the index that are double or stale stay.
Current(d) ==
  /\ d.images = ImageColumns /\ d.outbox = OutboxColumns /\ d.search /\ d.unique
  /\ \A l \in Listings :
       /\ {d.pos[r] : r \in ImagesOf(d, l)} = 1..Cardinality(ImagesOf(d, l))
       /\ l \in d.published => d.index[l] > 0

\* Types hold and, whatever file it found and however often an earlier start was
\* interrupted, a connect() that succeeds has made it current, and durably so
\* (database.py:46-49).
UpMeansCurrent == StartTypeOK /\ (stage = "up" => Current(disk))

\* The only file that makes it raise is one whose outbox lacks a column the indexes of
\* CREATE_EVENT_OUTBOX need: renumbering never collides with the unique index of an
\* earlier start (database.py:83-87).
OnlyOldOutboxFails == stage \in {"failed", "unready"} => ~(Indexed \subseteq disk.outbox)

\* No step of a start changes a file that is current: restarting is harmless, and indexes
\* nothing a second time.
RestartWritesNothing == [][stage # "up" /\ Current(disk) => disk' = disk]_startVars

\* Renumbering keeps the order in which the images of a listing are shown.
Promise == INSTANCE Gallery WITH shown <- Shown(disk)
GalleryKept == Promise!Init /\ [][Promise!Next]_(Promise!vars)
=============================================================================
