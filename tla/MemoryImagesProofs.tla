------------------------- MODULE MemoryImagesProofs -------------------------
(***************************************************************************)
(* What the in-memory image repository guarantees for every set of images, *)
(* every number of loops and of requests under way: uploads are kept,      *)
(* deletions stay, positions have no gap and no image is left PROCESSING,  *)
(* each as long as nothing has happened beside a request that may harm it. *)
(***************************************************************************)
EXTENDS MemoryImages, FiniteSetTheorems, SequenceTheorems, TLAPS

N == Cardinality(Images)

SeenRows == UNION {[S -> Rows] : S \in SUBSET Images}

Stages == {"idle", "done", "raised", "change", "list", "scan", "reread", "write"}

Stage == [at : Stages, size : 0..N, seen : SeenRows, order : Seq(Images), next : Nat \ {0}]

-----------------------------------------------------------------------------
(* Images are finitely many. *)

LEMMA ImagesFinite == IsFiniteSet(Images) /\ N \in Nat
BY ImagesAssumption, FS_CardinalityType DEF N

LEMMA SubsetsFinite ==
  ASSUME NEW S \in SUBSET Images
  PROVE  IsFiniteSet(S) /\ Cardinality(S) \in Nat /\ Cardinality(S) <= N
         /\ (\A i \in Images : i \notin S => Cardinality(S) + 1 <= N)
<1>1. IsFiniteSet(S) /\ Cardinality(S) \in Nat /\ Cardinality(S) <= N
  BY ImagesFinite, FS_Subset, FS_CardinalityType DEF N
<1>2. ASSUME NEW i \in Images, i \notin S PROVE Cardinality(S) + 1 <= N
  <2>1. Cardinality(S \cup {i}) = Cardinality(S) + 1
    BY <1>1, <1>2, FS_AddElement
  <2>2. Cardinality(S \cup {i}) <= N
    BY ImagesFinite, FS_Subset DEF N
  <2> QED
    BY <2>1, <2>2
<1> QED
  BY <1>1, <1>2

LEMMA SeenRowsAre ==
  /\ \A f \in SeenRows : DOMAIN f \subseteq Images /\ f \in [DOMAIN f -> Rows]
  /\ \A S \in SUBSET Images : \A f \in [S -> Rows] : f \in SeenRows
BY DEF SeenRows

LEMMA RequestsAre ==
  \A r \in Requests :
    /\ r[1] \in {"store", "delete", "reorder"}
    /\ r[1] \in {"store", "delete"} => r[2] \in Images /\ r = <<r[1], r[2]>>
BY DEF Requests

-----------------------------------------------------------------------------
(* What a request has read, and the order it numbers the images in. *)

\* A request numbers images it has read, each once; before that it has no order, and
\* when it has ended nothing is left of it.
Fits(q) ==
  /\ q \in Stage
  /\ q.at \in {"idle", "done", "raised", "list"} => q = Ended(q.at)
  /\ q.at = "change" => DOMAIN q.seen = {}
  /\ q.at \in {"change", "scan"} => q.order = <<>> /\ q.next = 1
  /\ q.at \in {"reread", "write"} => q.next \in DOMAIN q.order
  /\ \A k, l \in DOMAIN q.order : q.order[k] = q.order[l] => k = l
  /\ \A k \in DOMAIN q.order : k >= q.next \/ q.at = "reread" => q.order[k] \in DOMAIN q.seen
  /\ Len(q.order) <= N

LEMMA EndedFits ==
  ASSUME NEW how \in {"idle", "done", "raised", "list"}
  PROVE  Fits(Ended(how)) /\ Ended(how).at = how /\ DOMAIN Ended(how).seen = {}
<1>1. Ended(how).seen \in SeenRows
  <2>1. [i \in {} |-> NoRow] \in [{} -> Rows]
    OBVIOUS
  <2> QED
    BY <2>1, SeenRowsAre DEF Ended
<1>2. Ended(how) \in Stage
  BY <1>1, ImagesFinite DEF Ended, Stage, Stages
<1> QED
  BY <1>2, ImagesFinite DEF Fits, Ended

Counted(a, n) == [Ended(a) EXCEPT !.size = n]

LEMMA CountedFits ==
  ASSUME NEW n \in 0..N, NEW a \in {"scan", "change"}
  PROVE  LET q == Counted(a, n)
         IN Fits(q) /\ q.at = a /\ q.size = n /\ DOMAIN q.seen = {} /\ q.order = <<>>
<1> DEFINE q == Counted(a, n)
           f == [i \in {} |-> NoRow]
<1>1. q = [at |-> a, size |-> n, seen |-> f, order |-> <<>>, next |-> 1]
  <2>1. PICK e : e = Ended(a)
    OBVIOUS
  <2>2. e = [at |-> a, size |-> 0, seen |-> f, order |-> <<>>, next |-> 1]
    BY <2>1 DEF Ended
  <2> HIDE DEF f
  <2>3. [e EXCEPT !.size = n] = [at |-> a, size |-> n, seen |-> f, order |-> <<>>, next |-> 1]
    BY <2>2
  <2> QED
    BY <2>1, <2>3 DEF Counted
<1>2. f \in SeenRows /\ DOMAIN f = {}
  <2>1. f \in [{} -> Rows]
    OBVIOUS
  <2> QED
    BY <2>1, SeenRowsAre
<1> HIDE DEF q, f
<1>3. q \in Stage
  BY <1>1, <1>2 DEF Stage, Stages
<1>4. Fits(q)
  BY <1>1, <1>2, <1>3, ImagesFinite DEF Fits
<1> QED
  BY <1>1, <1>2, <1>4 DEF q

\* The image visited is read as it is; what was read before stays.
Seen(q, i, x) == [q EXCEPT !.seen = [j \in DOMAIN @ \cup {i} |-> IF j = i THEN x ELSE @[j]]]

LEMMA VisitFits ==
  ASSUME NEW q, Fits(q), q.at = "scan", NEW i \in Images, NEW x \in Rows
  PROVE  /\ Fits(Seen(q, i, x)) /\ Seen(q, i, x).at = "scan" /\ Seen(q, i, x).size = q.size
         /\ DOMAIN Seen(q, i, x).seen = DOMAIN q.seen \cup {i}
         /\ \A j \in DOMAIN q.seen \cup {i} :
              Seen(q, i, x).seen[j] = IF j = i THEN x ELSE q.seen[j]
<1> DEFINE f == [j \in DOMAIN q.seen \cup {i} |-> IF j = i THEN x ELSE q.seen[j]]
           p == Seen(q, i, x)
<1>1. q \in Stage
  BY DEF Fits
<1>2. p = [q EXCEPT !.seen = f]
  BY DEF Seen
<1>3. q.seen \in SeenRows
  BY <1>1 DEF Stage
<1>4. f \in SeenRows
  BY <1>3, SeenRowsAre
<1>5. p \in Stage /\ p.at = q.at /\ p.size = q.size /\ p.seen = f /\ p.order = q.order
      /\ p.next = q.next
  BY <1>1, <1>2, <1>4 DEF Stage
<1>6. q.order = <<>> /\ q.next = 1
  BY DEF Fits
<1> HIDE DEF p
<1>7. Fits(p)
  BY <1>5, <1>6, ImagesFinite DEF Fits
<1> QED
  BY <1>5, <1>7 DEF p

Ordered(q, s, a) == [q EXCEPT !.order = s, !.size = 0, !.at = a]

LEMMA ScannedFits ==
  ASSUME NEW q, Fits(q), q.at = "scan", NEW s \in SetToSeqs(DOMAIN q.seen), s # <<>>,
         NEW a \in {"reread", "write"}
  PROVE  /\ Fits(Ordered(q, s, a)) /\ Ordered(q, s, a).at = a /\ Ordered(q, s, a).next = 1
         /\ Ordered(q, s, a).seen = q.seen /\ Ordered(q, s, a).order = s
<1> DEFINE D == 1..Cardinality(DOMAIN q.seen)
           p == Ordered(q, s, a)
<1>1. q \in Stage /\ q.next = 1
  BY DEF Fits
<1>2. DOMAIN q.seen \in SUBSET Images
  BY <1>1, SeenRowsAre DEF Stage
<1>3. s \in [D -> DOMAIN q.seen] /\ \A k, l \in D : k # l => s[k] # s[l]
  BY DEF SetToSeqs
<1>4. Cardinality(DOMAIN q.seen) \in Nat /\ Cardinality(DOMAIN q.seen) <= N
  BY <1>2, SubsetsFinite
<1>5. s \in Seq(DOMAIN q.seen) /\ Len(s) = Cardinality(DOMAIN q.seen) /\ DOMAIN s = D
  BY <1>3, <1>4
<1>6. s \in Seq(Images)
  BY <1>2, <1>5
<1>7. p \in Stage /\ p.at = a /\ p.next = 1 /\ p.seen = q.seen /\ p.order = s
  <2>1. PICK g : g = [q EXCEPT !.order = s]
    OBVIOUS
  <2>2. PICK h : h = [g EXCEPT !.size = 0]
    OBVIOUS
  <2>3. g \in Stage /\ g.order = s /\ g.seen = q.seen /\ g.next = 1
    BY <1>1, <1>6, <2>1 DEF Stage
  <2>4. h \in Stage /\ h.order = s /\ h.seen = q.seen /\ h.next = 1
    BY <2>2, <2>3, ImagesFinite DEF Stage
  <2>5. p = [h EXCEPT !.at = a]
    BY <2>1, <2>2 DEF Ordered
  <2> QED
    BY <2>4, <2>5 DEF Stage, Stages
<1>8. 1 \in DOMAIN s
  BY <1>5, <1>4
<1> HIDE DEF p
<1>9. Fits(p)
  BY <1>3, <1>4, <1>5, <1>7, <1>8 DEF Fits
<1> QED
  BY <1>7, <1>9 DEF p

LEMMA OrderOf ==
  ASSUME NEW q, Fits(q)
  PROVE  /\ q \in Stage /\ Len(q.order) \in Nat /\ DOMAIN q.order = 1..Len(q.order)
         /\ DOMAIN q.seen \subseteq Images /\ q.seen \in [DOMAIN q.seen -> Rows]
         /\ \A k \in DOMAIN q.order : q.order[k] \in Images
<1>1. q \in Stage
  BY DEF Fits
<1>2. q.seen \in SeenRows /\ q.order \in Seq(Images)
  BY <1>1 DEF Stage
<1> QED
  BY <1>1, <1>2, SeenRowsAre

Again(q, i, x) == [q EXCEPT !.seen[i] = x]

RereadTo(q, x) ==
  LET p == Again(q, q.order[q.next], x)
  IN Advanced(p, [p EXCEPT !.at = "write", !.next = 1])

LEMMA RereadFits ==
  ASSUME NEW q, Fits(q), q.at = "reread", NEW x \in Rows
  PROVE  LET i == q.order[q.next]
             t == RereadTo(q, x)
         IN /\ Fits(t) /\ t.order = q.order /\ t.at \in {"reread", "write"}
            /\ DOMAIN t.seen = DOMAIN q.seen
            /\ \A j \in DOMAIN q.seen : t.seen[j] = IF j = i THEN x ELSE q.seen[j]
            /\ t.at = "write" => t.next = 1
<1> DEFINE i == q.order[q.next]
           t == RereadTo(q, x)
<1>1. PICK f : f = [q.seen EXCEPT ![i] = x]
  OBVIOUS
<1>2. PICK p : p = [q EXCEPT !.seen = f]
  OBVIOUS
<1>3. q \in Stage /\ q.next \in DOMAIN q.order /\ i \in DOMAIN q.seen
  BY DEF Fits
<1>4. DOMAIN f = DOMAIN q.seen /\ (\A j \in DOMAIN f : f[j] = IF j = i THEN x ELSE q.seen[j])
      /\ f \in SeenRows
  BY <1>1, <1>3, OrderOf, SeenRowsAre
<1>5. p \in Stage /\ p.at = "reread" /\ p.order = q.order /\ p.seen = f /\ p.next = q.next
  BY <1>2, <1>3, <1>4 DEF Stage
<1>6. Again(q, i, x) = p
  BY <1>1, <1>2 DEF Again
<1>7. t = Advanced(p, [p EXCEPT !.at = "write", !.next = 1])
  BY <1>6 DEF RereadTo
<1> HIDE DEF i, t
<1>8. DOMAIN q.order = 1..Len(q.order) /\ Len(q.order) \in Nat /\ Len(q.order) <= N
  BY OrderOf DEF Fits
<1>9. \A k \in DOMAIN q.order : q.order[k] \in DOMAIN f
  BY <1>4 DEF Fits
<1>10. CASE q.next = Len(q.order)
  <2>1. PICK g : g = [p EXCEPT !.at = "write"]
    OBVIOUS
  <2>2. g \in Stage /\ g.at = "write" /\ g.order = q.order /\ g.seen = f
    BY <2>1, <1>5 DEF Stage, Stages
  <2>3. t = [g EXCEPT !.next = 1]
    BY <2>1, <1>5, <1>7, <1>10 DEF Advanced
  <2>4. t \in Stage /\ t.at = "write" /\ t.order = q.order /\ t.seen = f /\ t.next = 1
    BY <2>2, <2>3 DEF Stage
  <2>5. Fits(t)
    BY <2>4, <1>8, <1>9, <1>10, <1>3 DEF Fits
  <2> QED
    BY <2>4, <2>5, <1>4 DEF i, t
<1>11. CASE q.next # Len(q.order)
  <2>1. t = [p EXCEPT !.next = @ + 1]
    BY <1>5, <1>7, <1>11 DEF Advanced
  <2>2. t \in Stage /\ t.at = "reread" /\ t.order = q.order /\ t.seen = f /\ t.next = q.next + 1
    BY <2>1, <1>5 DEF Stage
  <2>3. q.next + 1 \in DOMAIN q.order
    BY <1>3, <1>8, <1>11
  <2>4. Fits(t)
    BY <2>2, <2>3, <1>8, <1>9 DEF Fits
  <2> QED
    BY <2>2, <2>4, <1>4 DEF i, t
<1> QED
  BY <1>10, <1>11

WriteTo(q) ==
  Advanced([q EXCEPT !.seen = Restrict(@, DOMAIN @ \ {q.order[q.next]})], Ended("done"))

LEMMA WriteFits ==
  ASSUME NEW q, Fits(q), q.at = "write"
  PROVE  LET i == q.order[q.next]
             t == WriteTo(q)
         IN /\ Fits(t) /\ i \in DOMAIN q.seen /\ q.next \in 1..N
            /\ q.next = Len(q.order) => t = Ended("done")
            /\ q.next # Len(q.order) =>
                 /\ t.at = "write" /\ t.order = q.order /\ t.next = q.next + 1
                 /\ DOMAIN t.seen = DOMAIN q.seen \ {i}
                 /\ \A j \in DOMAIN q.seen \ {i} : t.seen[j] = q.seen[j]
<1> DEFINE i == q.order[q.next]
           t == WriteTo(q)
<1>1. PICK f : f = Restrict(q.seen, DOMAIN q.seen \ {i})
  OBVIOUS
<1>2. PICK p : p = [q EXCEPT !.seen = f]
  OBVIOUS
<1>3. q \in Stage /\ q.next \in DOMAIN q.order /\ i \in DOMAIN q.seen
  BY OrderOf DEF Fits
<1>4. DOMAIN f = DOMAIN q.seen \ {i} /\ (\A j \in DOMAIN f : f[j] = q.seen[j])
      /\ f \in SeenRows
  <2>1. f = [j \in DOMAIN q.seen \ {i} |-> q.seen[j]]
    BY <1>1 DEF Restrict
  <2> QED
    BY <2>1, OrderOf, SeenRowsAre
<1>5. p \in Stage /\ p.at = "write" /\ p.order = q.order /\ p.seen = f /\ p.next = q.next
  BY <1>2, <1>3, <1>4 DEF Stage
<1>6. t = Advanced(p, Ended("done"))
  BY <1>1, <1>2 DEF WriteTo
<1> HIDE DEF i, t
<1>7. DOMAIN q.order = 1..Len(q.order) /\ Len(q.order) \in Nat /\ Len(q.order) <= N
  BY OrderOf DEF Fits
<1>8. q.next \in 1..N
  BY <1>3, <1>7, ImagesFinite
<1>9. CASE q.next = Len(q.order)
  <2>1. t = Ended("done")
    BY <1>5, <1>6, <1>9 DEF Advanced
  <2> QED
    BY <2>1, <1>3, <1>8, <1>9, EndedFits DEF i, t
<1>10. CASE q.next # Len(q.order)
  <2>1. t = [p EXCEPT !.next = @ + 1]
    BY <1>5, <1>6, <1>10 DEF Advanced
  <2>2. t \in Stage /\ t.at = "write" /\ t.order = q.order /\ t.seen = f /\ t.next = q.next + 1
    BY <2>1, <1>5 DEF Stage
  <2>3. q.next + 1 \in DOMAIN q.order
    BY <1>3, <1>7, <1>10
  <2>4. \A k \in DOMAIN q.order : k >= q.next + 1 => q.order[k] \in DOMAIN f
    BY <1>3, <1>4, <1>7 DEF Fits, i
  <2>5. Fits(t)
    BY <2>2, <2>3, <2>4, <1>7 DEF Fits
  <2> QED
    BY <2>2, <2>5, <1>3, <1>4, <1>8, <1>10 DEF i, t
<1> QED
  BY <1>9, <1>10

-----------------------------------------------------------------------------
(* Types, and what is there before an upload. *)

RowsTyped == row \in [Images -> Rows \cup {NoRow}]

ReqTyped == req \in [Requests -> Stage] /\ \A r \in Requests : Fits(req[r])

Hand == [at : {"idle", "working"} \cup Locked, image : Images \cup {NoImage},
         copy : Rows \cup {NoRow}]

\* A loop has an image unless it is idle, and a copy while it holds the lock; a claim
\* puts back PROCESSING, a mark another status.
HandFits(h) ==
  /\ h \in Hand
  /\ h.at = "idle" <=> h.image = NoImage
  /\ h.at \in Locked <=> h.copy # NoRow
  /\ h.at = "mark" => h.copy.status # "PROCESSING"

OneLock ==
  \A v, w \in Loops : loop[v].at \in Locked /\ loop[w].at \in Locked => v = w

LoopTyped ==
  /\ loop \in [Loops -> Hand] /\ \A w \in Loops : HandFits(loop[w])
  /\ OneLock
  /\ met \subseteq {"request", "loop", "change"}

\* An image that store has not put in yet has no row, and nobody has read one.
NotYet ==
  \A i \in Images :
    req[<<"store", i>>].at \in {"idle", "change"} =>
      /\ i \notin Keys /\ \A r \in Requests : i \notin DOMAIN req[r].seen
      /\ \A w \in Loops : loop[w].image # i

\* The position store will give is one of the listing's.
RoomLeft ==
  \A i \in Images : req[<<"store", i>>].at = "change" => req[<<"store", i>>].size + 1 <= N

Typed == RowsTyped /\ ReqTyped /\ LoopTyped /\ NotYet /\ RoomLeft

LEMMA RowsAreRows ==
  /\ NoRow \notin Rows
  /\ \A x \in Rows : \A k \in 1..N : [x EXCEPT !.position = k] \in Rows
  /\ \A x \in Rows : \A s \in {"PENDING", "PROCESSING", "READY", "FAILED"} :
       [x EXCEPT !.status = s] \in Rows
  /\ \A k \in 1..N : [status |-> "PENDING", attempts |-> 0, position |-> k] \in Rows
  /\ \A x \in Rows : x.attempts < MaxAttempts =>
       [[x EXCEPT !.status = "PROCESSING"] EXCEPT !.attempts = @ + 1] \in Rows
<1> USE DEF Rows, NoRow, N
<1>1. NoRow \notin Rows
  OBVIOUS
<1>2. \A x \in Rows : \A k \in 1..N : [x EXCEPT !.position = k] \in Rows
  OBVIOUS
<1>3. \A x \in Rows : \A s \in {"PENDING", "PROCESSING", "READY", "FAILED"} :
        [x EXCEPT !.status = s] \in Rows
  OBVIOUS
<1>4. \A k \in 1..N : [status |-> "PENDING", attempts |-> 0, position |-> k] \in Rows
  BY AttemptsAssumption
<1>5. ASSUME NEW x \in Rows, x.attempts < MaxAttempts
      PROVE  [[x EXCEPT !.status = "PROCESSING"] EXCEPT !.attempts = @ + 1] \in Rows
  <2>1. PICK y : y = [x EXCEPT !.status = "PROCESSING"]
    OBVIOUS
  <2>2. y \in Rows /\ y.attempts = x.attempts
    BY <2>1
  <2>3. [y EXCEPT !.attempts = @ + 1] \in Rows
    BY <1>5, <2>2, AttemptsAssumption
  <2> QED
    BY <2>1, <2>3
<1> QED
  BY <1>1, <1>2, <1>3, <1>4, <1>5

LEMMA TypedInit == Init => Typed
<1> SUFFICES ASSUME Init PROVE Typed
  OBVIOUS
<1> USE DEF Init
<1>1. Fits(Ended("idle")) /\ Ended("idle").at = "idle" /\ DOMAIN Ended("idle").seen = {}
  BY EndedFits DEF Ended
<1>2. \A r \in Requests : req[r] = Ended("idle")
  OBVIOUS
<1>3. RowsTyped /\ LoopTyped
  BY RowsAreRows DEF RowsTyped, LoopTyped, OneLock, HandFits, Hand, Resting, Locked
<1>4. ReqTyped
  BY <1>1, <1>2 DEF ReqTyped, Fits
<1>5. \A i \in Images : <<"store", i>> \in Requests
  BY DEF Requests
<1>6. NotYet /\ RoomLeft
  BY <1>1, <1>2, <1>5, ImagesAssumption DEF NotYet, RoomLeft, Keys, Resting, NoImage
<1> QED
  BY <1>3, <1>4, <1>6 DEF Typed

\* The types hold as the properties state them.
LEMMA TypedIsTypeOK == Typed => TypeOK
<1> SUFFICES ASSUME Typed PROVE TypeOK
  OBVIOUS
<1>1. ASSUME NEW r \in Requests, req[r] \notin Idle
      PROVE  /\ req[r].at \in {"change", "list", "scan", "reread", "write"}
             /\ req[r].size \in 0..Cardinality(Images)
             /\ DOMAIN req[r].seen \subseteq Images
             /\ \A i \in DOMAIN req[r].seen : req[r].seen[i] \in Rows
             /\ \A k \in DOMAIN req[r].order :
                  k >= req[r].next => req[r].order[k] \in DOMAIN req[r].seen
             /\ req[r].at \in {"reread", "write"} => req[r].next \in DOMAIN req[r].order
  <2>1. PICK q : q = req[r]
    OBVIOUS
  <2>2. Fits(q) /\ q \notin Idle
    BY <1>1, <2>1 DEF Typed, ReqTyped
  <2>3. q.at \in Stages /\ q.at \notin {"idle", "done", "raised"}
    BY <2>2 DEF Fits, Idle, Stage
  <2> QED
    BY <2>1, <2>2, <2>3, OrderOf DEF Fits, Stage, Stages, N
<1> QED
  BY <1>1 DEF Typed, RowsTyped, LoopTyped, HandFits, Hand, TypeOK

\* One request moves on; what it may newly have read has a row, and what has a row
\* newly it has read, or stored.
LEMMA OneMoves ==
  ASSUME Typed, NEW r \in Requests, NEW t, Fits(t), req' = [req EXCEPT ![r] = t],
         RowsTyped', LoopTyped', UNCHANGED loop,
         t.at \in {"idle", "change"} => req[r].at = "idle",
         r[1] = "store" /\ t.at = "change" => t.size + 1 <= N,
         \A i \in DOMAIN t.seen : i \in Keys \/ i \in DOMAIN req[r].seen,
         \A i \in Images : i \in Keys' =>
           \/ i \in Keys \/ i \in DOMAIN req[r].seen
           \/ r = <<"store", i>> /\ t.at \notin {"idle", "change"}
  PROVE  Typed'
<1>1. \A q \in Requests : req'[q] = IF q = r THEN t ELSE req[q]
  BY DEF Typed, ReqTyped
<1>2. ReqTyped'
  BY <1>1 DEF Typed, ReqTyped, Fits
<1>3. \A i \in Images : <<"store", i>> \in Requests
  BY DEF Requests
<1>4. \A i \in Images : req'[<<"store", i>>].at \in {"idle", "change"} =>
        req[<<"store", i>>].at \in {"idle", "change"}
  BY <1>1, <1>3
<1>5. NotYet'
  BY <1>1, <1>3, <1>4 DEF Typed, NotYet
<1>6. RoomLeft'
  BY <1>1, <1>3 DEF Typed, RoomLeft
<1> QED
  BY <1>2, <1>5, <1>6 DEF Typed

-----------------------------------------------------------------------------
(* What each step does, and that it keeps the types. *)

\* The others' requests stay as they are.
Alone(r) == \A q \in Requests \ {r} : req'[q] = req[q]

LEMMA FitsNow == ASSUME Typed, NEW r \in Requests PROVE Fits(req[r]) /\ req[r] \in Stage
BY DEF Typed, ReqTyped, Fits

LEMMA MovedTo ==
  ASSUME Typed, NEW r \in Requests, NEW t, req' = [req EXCEPT ![r] = t]
  PROVE  req'[r] = t /\ Alone(r)
BY DEF Typed, ReqTyped, Alone

LEMMA KeysFinite ==
  Typed => /\ Keys \in SUBSET Images /\ IsFiniteSet(Keys)
           /\ Cardinality(Keys) \in 0..N
           /\ \A i \in Images : i \notin Keys => Cardinality(Keys) + 1 <= N
<1>1. Keys \in SUBSET Images
  BY DEF Keys
<1> QED
  BY <1>1, SubsetsFinite, ImagesFinite

LEMMA BeginDoes ==
  ASSUME Typed, NEW r \in Requests, Begin(r)
  PROVE  /\ Typed' /\ Alone(r) /\ UNCHANGED <<row, loop>> /\ Keys' = Keys /\ Meet("request")
         /\ req[r].at = "idle" /\ DOMAIN req'[r].seen = {}
         /\ req'[r].at = IF r[1] = "reorder" THEN "list" ELSE "change"
         /\ r[1] = "delete" => r[2] \in Keys
<1>1. PICK t : t = IF r[1] = "reorder" THEN Ended("list") ELSE Counted("change", Cardinality(Keys))
  OBVIOUS
<1>2. req' = [req EXCEPT ![r] = t] /\ req[r].at = "idle" /\ UNCHANGED <<row, loop>>
      /\ Meet("request") /\ (r[1] = "delete" => r[2] \in Keys)
  BY <1>1 DEF Begin, Go, Counted
<1>3. /\ Fits(t) /\ DOMAIN t.seen = {} /\ t.at = IF r[1] = "reorder" THEN "list" ELSE "change"
      /\ r[1] # "reorder" => t.size = Cardinality(Keys)
  BY <1>1, KeysFinite, CountedFits, EndedFits
<1>4. RowsTyped' /\ LoopTyped' /\ Keys' = Keys
  BY <1>2 DEF Typed, RowsTyped, LoopTyped, OneLock, HandFits, Meet, Keys
<1>5. r[1] = "store" => t.size + 1 <= N
  <2> SUFFICES ASSUME r[1] = "store" PROVE t.size + 1 <= N
    OBVIOUS
  <2>1. r[2] \in Images /\ r = <<"store", r[2]>>
    BY RequestsAre
  <2>2. r[2] \notin Keys
    BY <1>2, <2>1 DEF Typed, NotYet
  <2> QED
    BY <1>3, <2>1, <2>2, KeysFinite
<1>6. Typed'
  BY <1>2, <1>3, <1>4, <1>5, OneMoves
<1> QED
  BY <1>2, <1>3, <1>4, <1>6, MovedTo

\* A request changes the row of one image; what a loop has read of it is then outdated.
Changes(i) ==
  /\ \A j \in Images \ {i} : row'[j] = row[j]
  /\ UNCHANGED loop /\ met \subseteq met' /\ met' \subseteq met \cup {"change"}
  /\ "change" \notin met' =>
       row'[i] = row[i] \/ \A w \in Loops : loop[w].at \in Locked => loop[w].image # i

LEMMA ChangeDoes ==
  ASSUME Typed, NEW i \in Images, NEW x \in Rows \cup {NoRow}, Change(i, x), UNCHANGED loop
  PROVE  Changes(i) /\ row'[i] = x /\ RowsTyped' /\ LoopTyped'
<1>1. row' = [row EXCEPT ![i] = x] /\ met \subseteq met' /\ met' \subseteq met \cup {"change"}
  BY DEF Change
<1>2. row'[i] = x /\ (\A j \in Images \ {i} : row'[j] = row[j]) /\ RowsTyped'
  BY <1>1 DEF Typed, RowsTyped
<1>3. "change" \notin met' =>
        x = row[i] \/ \A w \in Loops : loop[w].at \in Locked => loop[w].image # i
  BY DEF Change
<1>4. LoopTyped'
  BY <1>1 DEF Typed, LoopTyped, OneLock, HandFits
<1> QED
  BY <1>1, <1>2, <1>3, <1>4 DEF Changes

LEMMA InsertDoes ==
  ASSUME Typed, NEW r \in Requests, Insert(r)
  PROVE  /\ Typed' /\ Alone(r) /\ Changes(r[2])
         /\ r[1] = "store" /\ r[2] \in Images \ Keys /\ r = <<"store", r[2]>>
         /\ req[r].at = "change" /\ req'[r].at = "list" /\ DOMAIN req'[r].seen = {}
         /\ row'[r[2]].status = "PENDING"
         /\ Keys' = Keys \cup {r[2]}
<1> DEFINE x == [status |-> "PENDING", attempts |-> 0, position |-> req[r].size + 1]
<1>1. PICK t : t = Ended("list")
  OBVIOUS
<1>2. /\ req' = [req EXCEPT ![r] = t] /\ req[r].at = "change" /\ UNCHANGED loop
      /\ r[1] = "store" /\ Change(r[2], x)
  BY <1>1 DEF Insert, Go
<1>3. r[2] \in Images /\ r = <<"store", r[2]>>
  BY <1>2, RequestsAre
<1>4. r[2] \notin Keys /\ req[r].size + 1 <= N
  BY <1>2, <1>3 DEF Typed, NotYet, RoomLeft
<1>5. x \in Rows /\ x.status = "PENDING"
  <2>1. req[r].size \in Nat
    BY FitsNow, ImagesFinite DEF Stage
  <2>2. PICK k : k = req[r].size + 1
    OBVIOUS
  <2>3. k \in 1..N
    BY <2>1, <2>2, <1>4, ImagesFinite
  <2> QED
    BY <2>2, <2>3, RowsAreRows
<1> HIDE DEF x
<1>6. Changes(r[2]) /\ row'[r[2]] = x /\ RowsTyped' /\ LoopTyped'
  BY <1>2, <1>3, <1>5, ChangeDoes
<1>7. Keys' = Keys \cup {r[2]}
  <2>1. row'[r[2]] # NoRow
    BY <1>5, <1>6, RowsAreRows
  <2>2. \A j \in Images \ {r[2]} : row'[j] = row[j]
    BY <1>6 DEF Changes
  <2> QED
    BY <1>3, <2>1, <2>2 DEF Keys
<1>8. Fits(t) /\ t.at = "list" /\ DOMAIN t.seen = {}
  BY <1>1, EndedFits
<1>9. Typed'
  BY <1>2, <1>3, <1>6, <1>7, <1>8, OneMoves
<1> QED
  BY <1>2, <1>3, <1>4, <1>5, <1>6, <1>7, <1>8, <1>9, MovedTo

LEMMA PopDoes ==
  ASSUME Typed, NEW r \in Requests, Pop(r)
  PROVE  /\ Typed' /\ Alone(r) /\ Changes(r[2])
         /\ r[1] = "delete" /\ r[2] \in Images /\ r = <<"delete", r[2]>>
         /\ req[r].at = "change" /\ DOMAIN req'[r].seen = {}
         /\ req'[r].at = IF r[2] \in Keys THEN "list" ELSE "done"
         /\ Keys' = Keys \ {r[2]}
<1>1. PICK how : how = IF r[2] \in Keys THEN "list" ELSE "done"
  OBVIOUS
<1>2. PICK t : t = Ended(how)
  OBVIOUS
<1>3. /\ req' = [req EXCEPT ![r] = t] /\ req[r].at = "change" /\ UNCHANGED loop
      /\ r[1] = "delete" /\ Change(r[2], NoRow)
  BY <1>1, <1>2 DEF Pop, Go
<1>4. r[2] \in Images /\ r = <<"delete", r[2]>>
  BY <1>3, RequestsAre
<1>5. Changes(r[2]) /\ row'[r[2]] = NoRow /\ RowsTyped' /\ LoopTyped'
  BY <1>3, <1>4, ChangeDoes
<1>6. Keys' = Keys \ {r[2]}
  BY <1>4, <1>5 DEF Keys, Changes
<1>7. Fits(t) /\ t.at = how /\ DOMAIN t.seen = {}
  BY <1>1, <1>2, EndedFits
<1>8. \A i \in Images : i \in Keys' => i \in Keys
  BY <1>6
<1>9. Typed'
  BY <1>1, <1>3, <1>4, <1>5, <1>7, <1>8, OneMoves
<1> QED
  BY <1>1, <1>3, <1>4, <1>5, <1>6, <1>7, <1>9, MovedTo

\* The steps of a request that write no row.
LEMMA ReadsOnly ==
  ASSUME Typed, NEW r \in Requests, NEW t, Fits(t), req' = [req EXCEPT ![r] = t],
         UNCHANGED <<row, loop, met>>, t.at \notin {"idle", "change"},
         \A i \in DOMAIN t.seen : i \in Keys \/ i \in DOMAIN req[r].seen
  PROVE  Typed' /\ Alone(r) /\ Keys' = Keys /\ req'[r] = t
<1>1. RowsTyped' /\ LoopTyped' /\ Keys' = Keys
  BY DEF Typed, RowsTyped, LoopTyped, OneLock, HandFits, Keys
<1>2. Typed'
  BY <1>1, OneMoves
<1> QED
  BY <1>1, <1>2, MovedTo

LEMMA StartScanDoes ==
  ASSUME Typed, NEW r \in Requests, StartScan(r)
  PROVE  /\ Typed' /\ Alone(r) /\ UNCHANGED <<row, loop, met>> /\ Keys' = Keys
         /\ req[r].at = "list" /\ req'[r].at = "scan" /\ DOMAIN req'[r].seen = {}
         /\ req'[r].size = Cardinality(Keys)
<1>1. PICK t : t = Counted("scan", Cardinality(Keys))
  OBVIOUS
<1>2. /\ req' = [req EXCEPT ![r] = t] /\ req[r].at = "list" /\ UNCHANGED <<row, loop, met>>
  BY <1>1 DEF StartScan, Go, Counted
<1>3. Fits(t) /\ t.at = "scan" /\ DOMAIN t.seen = {} /\ t.size = Cardinality(Keys)
  BY <1>1, KeysFinite, CountedFits
<1> QED
  BY <1>2, <1>3, ReadsOnly

LEMMA VisitDoes ==
  ASSUME Typed, NEW r \in Requests, Visit(r)
  PROVE  /\ Typed' /\ Alone(r) /\ UNCHANGED <<row, loop, met>> /\ Keys' = Keys
         /\ req[r].at = "scan" /\ req'[r].at = "scan" /\ req'[r].size = req[r].size
         /\ \E i \in Keys :
              /\ DOMAIN req'[r].seen = DOMAIN req[r].seen \cup {i}
              /\ \A j \in DOMAIN req'[r].seen :
                   req'[r].seen[j] = IF j = i THEN row[i] ELSE req[r].seen[j]
<1>1. PICK i \in Keys \ DOMAIN req[r].seen : req' = [req EXCEPT ![r] = Seen(req[r], i, row[i])]
  BY DEF Visit, Go, Seen
<1>2. req[r].at = "scan" /\ UNCHANGED <<row, loop, met>>
  BY DEF Visit, Go
<1>3. i \in Images /\ row[i] \in Rows
  BY <1>1 DEF Typed, RowsTyped, Keys
<1>4. PICK t : t = Seen(req[r], i, row[i])
  OBVIOUS
<1>5. /\ Fits(t) /\ t.at = "scan" /\ t.size = req[r].size
      /\ DOMAIN t.seen = DOMAIN req[r].seen \cup {i}
      /\ \A j \in DOMAIN t.seen : t.seen[j] = IF j = i THEN row[i] ELSE req[r].seen[j]
  BY <1>2, <1>3, <1>4, FitsNow, VisitFits
<1>6. Typed' /\ Alone(r) /\ Keys' = Keys /\ req'[r] = t
  BY <1>1, <1>2, <1>4, <1>5, ReadsOnly
<1> QED
  BY <1>1, <1>2, <1>5, <1>6

LEMMA GivenUp ==
  ASSUME Typed, NEW r \in Requests, SizeChanged(r) \/ RowGone(r)
  PROVE  /\ Typed' /\ Alone(r) /\ UNCHANGED <<row, loop, met>> /\ Keys' = Keys
         /\ req[r].at \in {"scan", "reread"} /\ req'[r].at = "raised" /\ DOMAIN req'[r].seen = {}
<1>1. req' = [req EXCEPT ![r] = Ended("raised")] /\ UNCHANGED <<row, loop, met>>
      /\ req[r].at \in {"scan", "reread"}
  BY DEF SizeChanged, RowGone, Go
<1>2. PICK t : t = Ended("raised")
  OBVIOUS
<1>3. Fits(t) /\ t.at = "raised" /\ DOMAIN t.seen = {}
  BY <1>2, EndedFits DEF Ended
<1> QED
  BY <1>1, <1>2, <1>3, ReadsOnly

\* An order of the images read has each of them.
LEMMA OrdersAreWhole ==
  ASSUME NEW S \in SUBSET Images, NEW s \in SetToSeqs(S)
  PROVE  /\ DOMAIN s = 1..Cardinality(S) /\ \A i \in S : \E k \in DOMAIN s : s[k] = i
         /\ s = <<>> => S = {}
<1> DEFINE D == 1..Cardinality(S)
<1>1. s \in [D -> S] /\ \A k, l \in D : k # l => s[k] # s[l]
  BY DEF SetToSeqs
<1>2. IsFiniteSet(S) /\ Cardinality(S) \in Nat
  BY SubsetsFinite
<1>3. Cardinality(D) = Cardinality(S)
  <2>1. Cardinality(D) = IF 1 > Cardinality(S) THEN 0 ELSE Cardinality(S) - 1 + 1
    BY <1>2, FS_Interval
  <2> QED
    BY <2>1, <1>2
<1>4. s \in Injection(D, S)
  BY <1>1 DEF Injection, IsInjective
<1>5. s \in Surjection(D, S)
  BY <1>2, <1>3, <1>4, FS_Injection
<1>6. \A i \in S : \E k \in D : s[k] = i
  BY <1>5 DEF Surjection
<1>7. s = <<>> => S = {}
  <2> SUFFICES ASSUME s = <<>> PROVE S = {}
    OBVIOUS
  <2>1. D = {}
    BY <1>1
  <2> QED
    BY <2>1, <1>6
<1> QED
  BY <1>1, <1>6, <1>7

LEMMA ScannedDoes ==
  ASSUME Typed, NEW r \in Requests, Scanned(r)
  PROVE  /\ Typed' /\ Alone(r) /\ UNCHANGED <<row, loop, met>> /\ Keys' = Keys
         /\ req[r].at = "scan" /\ req'[r].at \in {"done", "reread", "write"}
         /\ req'[r].at = "done" => Keys = {} /\ DOMAIN req'[r].seen = {}
         /\ req'[r].at # "done" =>
              /\ req'[r].next = 1 /\ req'[r].seen = req[r].seen
              /\ \A i \in Keys : \E k \in DOMAIN req'[r].order : req'[r].order[k] = i
<1>1. PICK s \in SetToSeqs(DOMAIN req[r].seen) :
        req' = [req EXCEPT ![r] = IF s = <<>> THEN Ended("done")
                                  ELSE Ordered(req[r], s, IF r[1] = "reorder" THEN "reread" ELSE "write")]
  BY DEF Scanned, Go, Ordered
<1>2. req[r].at = "scan" /\ UNCHANGED <<row, loop, met>> /\ Keys \subseteq DOMAIN req[r].seen
  BY DEF Scanned, Go
<1>3. DOMAIN req[r].seen \in SUBSET Images
  BY FitsNow, OrderOf
<1>4. CASE s = <<>>
  <2>1. PICK t : t = Ended("done")
    OBVIOUS
  <2>2. Fits(t) /\ t.at = "done" /\ DOMAIN t.seen = {}
    BY <2>1, EndedFits DEF Ended
  <2>3. req' = [req EXCEPT ![r] = t]
    BY <1>1, <1>4, <2>1
  <2>4. Typed' /\ Alone(r) /\ Keys' = Keys /\ req'[r] = t
    BY <1>2, <2>2, <2>3, ReadsOnly
  <2>5. Keys = {}
    BY <1>2, <1>3, <1>4, OrdersAreWhole
  <2> QED
    BY <1>2, <2>2, <2>4, <2>5
<1>5. CASE s # <<>>
  <2>1. PICK a \in {"reread", "write"} : a = IF r[1] = "reorder" THEN "reread" ELSE "write"
    OBVIOUS
  <2>2. PICK t : t = Ordered(req[r], s, a)
    OBVIOUS
  <2>3. Fits(t) /\ t.at = a /\ t.next = 1 /\ t.seen = req[r].seen /\ t.order = s
    BY <1>2, <1>5, <2>2, FitsNow, ScannedFits
  <2>4. req' = [req EXCEPT ![r] = t]
    BY <1>1, <1>5, <2>1, <2>2
  <2>5. Typed' /\ Alone(r) /\ Keys' = Keys /\ req'[r] = t
    BY <1>2, <2>1, <2>3, <2>4, ReadsOnly
  <2>6. \A i \in Keys : \E k \in DOMAIN t.order : t.order[k] = i
    BY <1>2, <1>3, <2>3, OrdersAreWhole
  <2> QED
    BY <1>2, <2>1, <2>3, <2>5, <2>6
<1> QED
  BY <1>4, <1>5

LEMMA RereadDoes ==
  ASSUME Typed, NEW r \in Requests, Reread(r)
  PROVE  /\ Typed' /\ Alone(r) /\ UNCHANGED <<row, loop, met>> /\ Keys' = Keys
         /\ req[r].at = "reread" /\ req'[r].at \in {"reread", "write"}
         /\ req'[r].order = req[r].order /\ DOMAIN req'[r].seen = DOMAIN req[r].seen
         /\ req'[r].at = "write" => req'[r].next = 1
         /\ \E i \in Keys : \A j \in DOMAIN req'[r].seen :
              req'[r].seen[j] = IF j = i THEN row[i] ELSE req[r].seen[j]
<1>1. PICK i : i = req[r].order[req[r].next]
  OBVIOUS
<1>2. /\ req[r].at = "reread" /\ i \in Keys /\ UNCHANGED <<row, loop, met>>
      /\ req' = [req EXCEPT ![r] = RereadTo(req[r], row[i])]
  BY <1>1 DEF Reread, Go, RereadTo, Again
<1>3. row[i] \in Rows
  BY <1>2 DEF Typed, RowsTyped, Keys
<1>4. PICK t : t = RereadTo(req[r], row[i])
  OBVIOUS
<1>5. /\ Fits(t) /\ t.order = req[r].order /\ t.at \in {"reread", "write"}
      /\ DOMAIN t.seen = DOMAIN req[r].seen
      /\ \A j \in DOMAIN req[r].seen : t.seen[j] = IF j = i THEN row[i] ELSE req[r].seen[j]
      /\ t.at = "write" => t.next = 1
  <2>1. PICK q : q = req[r]
    OBVIOUS
  <2>2. Fits(q) /\ q.at = "reread" /\ i = q.order[q.next] /\ t = RereadTo(q, row[i])
    BY <1>1, <1>2, <1>4, <2>1, FitsNow
  <2>3. PICK x \in Rows : x = row[i]
    BY <1>3
  <2>4. /\ Fits(RereadTo(q, x)) /\ RereadTo(q, x).order = q.order
        /\ RereadTo(q, x).at \in {"reread", "write"} /\ DOMAIN RereadTo(q, x).seen = DOMAIN q.seen
        /\ \A j \in DOMAIN q.seen :
             RereadTo(q, x).seen[j] = IF j = q.order[q.next] THEN x ELSE q.seen[j]
        /\ RereadTo(q, x).at = "write" => RereadTo(q, x).next = 1
    BY <2>2, RereadFits, Zenon
  <2> QED
    BY <2>1, <2>2, <2>3, <2>4
<1>6. Typed' /\ Alone(r) /\ Keys' = Keys /\ req'[r] = t
  BY <1>2, <1>4, <1>5, ReadsOnly
<1> QED
  BY <1>2, <1>5, <1>6

LEMMA WriteDoes ==
  ASSUME Typed, NEW r \in Requests, Write(r)
  PROVE  LET i == req[r].order[req[r].next]
         IN /\ Typed' /\ Alone(r) /\ Changes(i)
            /\ req[r].at = "write" /\ i \in Images /\ i \in DOMAIN req[r].seen
            /\ row'[i] = [req[r].seen[i] EXCEPT !.position = req[r].next]
            /\ Keys' = Keys \cup {i}
            /\ req[r].next = Len(req[r].order) =>
                 req'[r].at = "done" /\ DOMAIN req'[r].seen = {}
            /\ req[r].next # Len(req[r].order) =>
                 /\ req'[r].at = "write" /\ req'[r].order = req[r].order
                 /\ req'[r].next = req[r].next + 1
                 /\ DOMAIN req'[r].seen = DOMAIN req[r].seen \ {i}
                 /\ \A j \in DOMAIN req'[r].seen : req'[r].seen[j] = req[r].seen[j]
<1>1. PICK i : i = req[r].order[req[r].next]
  OBVIOUS
<1>2. PICK t : t = WriteTo(req[r])
  OBVIOUS
<1>3. PICK x : x = [req[r].seen[i] EXCEPT !.position = req[r].next]
  OBVIOUS
<1>4. /\ req[r].at = "write" /\ UNCHANGED loop
      /\ req' = [req EXCEPT ![r] = t] /\ Change(i, x)
  BY <1>1, <1>2, <1>3 DEF Write, Go, WriteTo
<1>5. /\ Fits(t) /\ i \in DOMAIN req[r].seen /\ req[r].next \in 1..N
      /\ req[r].next = Len(req[r].order) => t = Ended("done")
      /\ req[r].next # Len(req[r].order) =>
           /\ t.at = "write" /\ t.order = req[r].order /\ t.next = req[r].next + 1
           /\ DOMAIN t.seen = DOMAIN req[r].seen \ {i}
           /\ \A j \in DOMAIN req[r].seen \ {i} : t.seen[j] = req[r].seen[j]
  BY <1>1, <1>2, <1>4, FitsNow, WriteFits
<1>6. i \in Images /\ x \in Rows
  BY <1>3, <1>5, FitsNow, OrderOf, RowsAreRows
<1>7. Changes(i) /\ row'[i] = x /\ RowsTyped' /\ LoopTyped'
  BY <1>4, <1>6, ChangeDoes
<1>8. Keys' = Keys \cup {i}
  BY <1>6, <1>7, RowsAreRows DEF Keys, Changes
<1>9. Ended("done").at = "done" /\ DOMAIN Ended("done").seen = {}
  BY DEF Ended
<1>10. t.at \in {"done", "write"} /\ DOMAIN t.seen \subseteq DOMAIN req[r].seen
  BY <1>5, <1>9
<1>11. Typed'
  BY <1>4, <1>5, <1>7, <1>8, <1>10, OneMoves
<1>12. req'[r] = t /\ Alone(r)
  BY <1>4, MovedTo
<1> QED
  BY <1>1, <1>3, <1>4, <1>5, <1>6, <1>7, <1>8, <1>9, <1>11, <1>12

-----------------------------------------------------------------------------
(* The steps of a loop. *)

\* It reads the row of the image it claims or marks, or finds it gone ...
LEMMA LoopReads ==
  ASSUME Typed, NEW w \in Loops,
         Claim(w) \/ \E status \in {"READY", "FAILED"} : MarkAs(w, status)
  PROVE  /\ Typed' /\ UNCHANGED <<row, req>> /\ Keys' = Keys /\ Meet("loop") /\ LockFree
         /\ \A v \in Loops \ {w} : loop'[v] = loop[v]
         /\ \/ /\ loop[w].image = NoImage /\ loop'[w].at = "claim"
               /\ loop'[w].image \in Keys
               /\ loop'[w].copy.position = row[loop'[w].image].position
            \/ /\ loop[w].image \in Keys /\ loop'[w].at = "mark"
               /\ loop'[w].image = loop[w].image
               /\ loop'[w].copy.position = row[loop[w].image].position
            \/ loop[w].image \notin Keys /\ loop'[w] = Resting
<1>1. UNCHANGED <<row, req>> /\ Meet("loop") /\ LockFree /\ Keys' = Keys
  BY DEF Claim, MarkAs, Keys
<1>2. \E h : /\ loop' = [loop EXCEPT ![w] = h] /\ HandFits(h)
            /\ \/ /\ loop[w].image = NoImage /\ h.at = "claim" /\ h.image \in Keys
                  /\ h.copy.position = row[h.image].position
               \/ /\ loop[w].image \in Keys /\ h.at = "mark" /\ h.image = loop[w].image
                  /\ h.copy.position = row[h.image].position
               \/ loop[w].image \notin Keys /\ h = Resting
  <2>1. CASE Claim(w)
    <3>1. PICK i \in Keys :
            /\ row[i].attempts < MaxAttempts
            /\ loop' = [loop EXCEPT ![w] =
                          [at |-> "claim", image |-> i,
                           copy |-> [row[i] EXCEPT !.status = "PROCESSING", !.attempts = @ + 1]]]
      BY <2>1 DEF Claim
    <3>2. PICK x : x = [[row[i] EXCEPT !.status = "PROCESSING"] EXCEPT !.attempts = @ + 1]
      OBVIOUS
    <3>3. row[i] \in Rows /\ i \in Images /\ i # NoImage
      BY <3>1, ImagesAssumption DEF Typed, RowsTyped, Keys, NoImage
    <3>4. x \in Rows /\ x.position = row[i].position /\ x # NoRow
      <4>1. x \in Rows
        BY <3>1, <3>2, <3>3, RowsAreRows
      <4>2. x # NoRow
        BY <4>1, RowsAreRows
      <4>3. PICK y \in Rows : y = row[i]
        BY <3>3
      <4>4. [[y EXCEPT !.status = "PROCESSING"] EXCEPT !.attempts = @ + 1].position = y.position
        BY DEF Rows
      <4> QED
        BY <3>2, <4>1, <4>2, <4>3, <4>4
    <3>5. PICK h : h = [at |-> "claim", image |-> i, copy |-> x]
      OBVIOUS
    <3>6. loop' = [loop EXCEPT ![w] = h]
      BY <3>1, <3>2, <3>5
    <3>7. HandFits(h)
      BY <3>3, <3>4, <3>5 DEF HandFits, Hand, Locked
    <3>8. loop[w].image = NoImage
      <4>1. loop[w] = Resting
        BY <2>1 DEF Claim
      <4>2. Resting.image = NoImage
        BY DEF Resting
      <4> QED
        BY <4>1, <4>2
    <3>9. h.at = "claim" /\ h.image \in Keys /\ h.copy.position = row[h.image].position
      BY <3>1, <3>4, <3>5
    <3> QED
      BY <3>6, <3>7, <3>8, <3>9
  <2>2. ASSUME NEW status \in {"READY", "FAILED"}, MarkAs(w, status)
        PROVE  \E h : /\ loop' = [loop EXCEPT ![w] = h] /\ HandFits(h)
                      /\ \/ /\ loop[w].image \in Keys /\ h.at = "mark" /\ h.image = loop[w].image
                            /\ h.copy.position = row[h.image].position
                         \/ loop[w].image \notin Keys /\ h = Resting
    <3>1. PICK g : g = loop[w]
      OBVIOUS
    <3>2. /\ g.at = "working"
          /\ loop' = [loop EXCEPT ![w] =
                IF g.image \in Keys
                THEN [g EXCEPT !.at = "mark", !.copy = [row[g.image] EXCEPT !.status = status]]
                ELSE Resting]
      BY <2>2, <3>1 DEF MarkAs
    <3>3. HandFits(g)
      BY <3>1 DEF Typed, LoopTyped
    <3>4. CASE g.image \notin Keys
      <4>1. HandFits(Resting)
        BY RowsAreRows DEF HandFits, Hand, Resting, Locked
      <4> QED
        BY <3>1, <3>2, <3>4, <4>1
    <3>5. CASE g.image \in Keys
      <4>1. PICK x : x = [row[g.image] EXCEPT !.status = status]
        OBVIOUS
      <4>2. row[g.image] \in Rows
        BY <3>5 DEF Typed, RowsTyped, Keys
      <4>3. x \in Rows /\ x.position = row[g.image].position /\ x # NoRow /\ x.status = status
        <5>1. PICK y \in Rows : y = row[g.image]
          BY <4>2
        <5>2. x.position = y.position /\ x.status = status
          BY <4>1, <5>1 DEF Rows
        <5>3. x \in Rows /\ x # NoRow
          BY <4>1, <5>1, RowsAreRows
        <5> QED
          BY <5>1, <5>2, <5>3
      <4>4. PICK h : h = [g EXCEPT !.at = "mark", !.copy = x]
        OBVIOUS
      <4>5. h \in Hand /\ h.at = "mark" /\ h.image = g.image /\ h.copy = x
        BY <3>3, <4>3, <4>4 DEF HandFits, Hand, Locked
      <4>6. HandFits(h)
        BY <3>2, <3>3, <4>3, <4>5 DEF HandFits, Locked
      <4>7. loop' = [loop EXCEPT ![w] = h]
        BY <3>2, <3>5, <4>1, <4>4
      <4> QED
        BY <3>1, <3>5, <4>3, <4>5, <4>6, <4>7
    <3> QED
      BY <3>4, <3>5
  <2> QED
    BY <2>1, <2>2
<1>3. PICK h : /\ loop' = [loop EXCEPT ![w] = h] /\ HandFits(h)
               /\ \/ /\ loop[w].image = NoImage /\ h.at = "claim" /\ h.image \in Keys
                     /\ h.copy.position = row[h.image].position
                  \/ /\ loop[w].image \in Keys /\ h.at = "mark" /\ h.image = loop[w].image
                     /\ h.copy.position = row[h.image].position
                  \/ loop[w].image \notin Keys /\ h = Resting
  BY <1>2
<1>4. loop'[w] = h /\ \A v \in Loops \ {w} : loop'[v] = loop[v]
  BY <1>3 DEF Typed, LoopTyped
<1>5. LoopTyped'
  <2>1. loop' \in [Loops -> Hand] /\ \A v \in Loops : HandFits(loop'[v])
    BY <1>3, <1>4 DEF Typed, LoopTyped, HandFits
  <2>2. OneLock'
    BY <1>1, <1>4 DEF LockFree, OneLock, Locked
  <2>3. met' \subseteq {"request", "loop", "change"}
    BY <1>1 DEF Meet, Typed, LoopTyped
  <2> QED
    BY <2>1, <2>2, <2>3 DEF LoopTyped, HandFits, Hand
<1>6. NotYet'
  <2> SUFFICES ASSUME NEW i \in Images, req[<<"store", i>>].at \in {"idle", "change"}
               PROVE  \A v \in Loops : loop'[v].image # i
    BY <1>1 DEF Typed, NotYet
  <2>1. i \notin Keys /\ \A v \in Loops : loop[v].image # i
    BY DEF Typed, NotYet
  <2>2. h.image # i
    BY <1>3, <2>1, ImagesAssumption DEF Resting, NoImage
  <2> QED
    BY <1>4, <2>1, <2>2
<1>7. RowsTyped' /\ ReqTyped' /\ RoomLeft'
  BY <1>1 DEF Typed, RowsTyped, ReqTyped, Fits, RoomLeft
<1> QED
  BY <1>1, <1>3, <1>4, <1>5, <1>6, <1>7 DEF Typed

\* ... and puts its copy back.
LEMMA PutBackDoes ==
  ASSUME Typed, NEW w \in Loops, PutBack(w)
  PROVE  /\ Typed' /\ UNCHANGED req /\ Meet("loop") /\ loop[w].at \in Locked
         /\ loop[w].image \in Images /\ row'[loop[w].image] = loop[w].copy
         /\ \A j \in Images \ {loop[w].image} : row'[j] = row[j]
         /\ Keys' = Keys \cup {loop[w].image}
         /\ req[<<"store", loop[w].image>>].at \notin {"idle", "change"}
         /\ \A v \in Loops \ {w} : loop'[v] = loop[v]
         /\ loop'[w].at \notin Locked
         /\ loop[w].at = "claim" => loop'[w].image = loop[w].image
         /\ loop[w].at = "mark" => loop[w].copy.status # "PROCESSING"
<1>1. PICK g : g = loop[w]
  OBVIOUS
<1>2. PICK h : h = IF g.at = "claim" THEN [g EXCEPT !.at = "working", !.copy = NoRow] ELSE Resting
  OBVIOUS
<1>3. /\ g.at \in Locked /\ UNCHANGED req /\ Meet("loop")
      /\ row' = [row EXCEPT ![g.image] = g.copy] /\ loop' = [loop EXCEPT ![w] = h]
  BY <1>1, <1>2 DEF PutBack
<1>4. HandFits(g) /\ g.image \in Images /\ g.copy \in Rows /\ g.copy # NoRow
  <2>1. HandFits(g)
    BY <1>1 DEF Typed, LoopTyped
  <2> QED
    BY <1>3, <2>1 DEF HandFits, Hand, Locked
<1>5. RowsTyped' /\ row'[g.image] = g.copy /\ \A j \in Images \ {g.image} : row'[j] = row[j]
  BY <1>3, <1>4 DEF Typed, RowsTyped
<1>6. Keys' = Keys \cup {g.image}
  BY <1>4, <1>5 DEF Keys
<1>7. /\ HandFits(h) /\ h.at \notin Locked /\ h.image \in {g.image, NoImage}
      /\ g.at = "claim" => h.image = g.image
  <2>1. CASE g.at = "claim"
    <3>1. h.at = "working" /\ h.image = g.image /\ h.copy = NoRow /\ h \in Hand
      BY <1>2, <1>4, <2>1 DEF HandFits, Hand
    <3> QED
      BY <1>4, <2>1, <3>1 DEF HandFits, Locked
  <2>2. CASE g.at # "claim"
    BY <1>2, <2>2, RowsAreRows DEF HandFits, Hand, Resting, Locked
  <2> QED
    BY <2>1, <2>2
<1>8. loop'[w] = h /\ \A v \in Loops \ {w} : loop'[v] = loop[v]
  BY <1>3 DEF Typed, LoopTyped
<1>9. LoopTyped'
  <2>1. loop' \in [Loops -> Hand] /\ \A v \in Loops : HandFits(loop'[v])
    BY <1>3, <1>7, <1>8 DEF Typed, LoopTyped, HandFits
  <2>2. OneLock'
    BY <1>7, <1>8 DEF Typed, LoopTyped, OneLock, Locked
  <2>3. met' \subseteq {"request", "loop", "change"}
    BY <1>3 DEF Meet, Typed, LoopTyped
  <2> QED
    BY <2>1, <2>2, <2>3 DEF LoopTyped, HandFits, Hand
<1>10. req[<<"store", g.image>>].at \notin {"idle", "change"}
  BY <1>1, <1>4 DEF Typed, NotYet
<1>11. NotYet'
  <2> SUFFICES ASSUME NEW i \in Images, req[<<"store", i>>].at \in {"idle", "change"}
               PROVE  /\ i \notin Keys' /\ \A r \in Requests : i \notin DOMAIN req[r].seen
                      /\ \A v \in Loops : loop'[v].image # i
    BY <1>3 DEF NotYet
  <2>1. /\ i \notin Keys /\ \A r \in Requests : i \notin DOMAIN req[r].seen
        /\ \A v \in Loops : loop[v].image # i
    BY DEF Typed, NotYet
  <2>2. h.image # i
    BY <1>1, <1>7, <2>1, ImagesAssumption DEF NoImage
  <2> QED
    BY <1>6, <1>8, <1>10, <2>1, <2>2
<1>12. ReqTyped' /\ RoomLeft'
  BY <1>3 DEF Typed, ReqTyped, Fits, RoomLeft
<1> QED
  BY <1>1, <1>3, <1>4, <1>5, <1>6, <1>7, <1>8, <1>9, <1>10, <1>11, <1>12 DEF Typed, HandFits, Locked

LoopSteps(w) ==
  Claim(w) \/ PutBack(w) \/ \E status \in {"READY", "FAILED"} : MarkAs(w, status)

LEMMA TypedStep == Typed /\ [Next]_vars => Typed'
<1> SUFFICES ASSUME Typed, [Next]_vars PROVE Typed'
  OBVIOUS
<1>1. CASE UNCHANGED vars
  BY <1>1
  DEF vars, Typed, RowsTyped, ReqTyped, Fits, LoopTyped, OneLock, HandFits, NotYet, RoomLeft, Keys
<1>2. ASSUME NEW w \in Loops, LoopSteps(w) PROVE Typed'
  BY <1>2, LoopReads, PutBackDoes DEF LoopSteps
<1>3. ASSUME NEW r \in Requests,
             \/ Begin(r) \/ Insert(r) \/ Pop(r) \/ StartScan(r)
             \/ Visit(r) \/ SizeChanged(r) \/ Scanned(r)
             \/ Reread(r) \/ RowGone(r) \/ Write(r)
      PROVE  Typed'
  BY <1>3, BeginDoes, InsertDoes, PopDoes, StartScanDoes, VisitDoes, GivenUp, ScannedDoes,
     RereadDoes, WriteDoes
<1> QED
  BY <1>1, <1>2, <1>3 DEF Next, LoopSteps

LEMMA TypedInvariant == Spec => []Typed
BY TypedInit, TypedStep, PTL DEF Spec

-----------------------------------------------------------------------------
(* Uploads and deletions. *)

LEMMA StoresAndDeletes ==
  \A i \in Images : <<"store", i>> \in Requests /\ <<"delete", i>> \in Requests
BY DEF Requests

\* A deletion begins when the image is there, so its upload has stored it before.
StoreFirst ==
  \A i \in Images :
    req[<<"delete", i>>].at # "idle" => req[<<"store", i>>].at \notin {"idle", "change"}

LEMMA UploadStep ==
  Typed /\ StoreFirst /\ UploadKept /\ [Next]_vars => StoreFirst' /\ UploadKept'
<1> SUFFICES ASSUME Typed, StoreFirst, UploadKept, [Next]_vars PROVE StoreFirst' /\ UploadKept'
  OBVIOUS
<1> USE StoresAndDeletes
<1>1. CASE UNCHANGED vars
  BY <1>1 DEF vars, StoreFirst, UploadKept, Keys
<1>2. ASSUME NEW w \in Loops, LoopSteps(w)
      PROVE  StoreFirst' /\ UploadKept'
  <2>1. UNCHANGED req /\ Keys \subseteq Keys'
    BY <1>2, LoopReads, PutBackDoes DEF LoopSteps
  <2> QED
    BY <2>1 DEF StoreFirst, UploadKept
<1>3. ASSUME NEW r \in Requests, Begin(r) PROVE StoreFirst' /\ UploadKept'
  <2>1. /\ Alone(r) /\ Keys' = Keys /\ req[r].at = "idle" /\ req'[r].at \in {"list", "change"}
        /\ r[1] # "reorder" => req'[r].at = "change"
        /\ r[1] = "delete" => r[2] \in Keys
    BY <1>3, BeginDoes
  <2>2. \A i \in Images : i \in Keys => req[<<"store", i>>].at \notin {"idle", "change"}
    BY DEF Typed, NotYet
  <2>3. ASSUME NEW i \in Images, req'[<<"delete", i>>].at # "idle"
        PROVE  req'[<<"store", i>>].at \notin {"idle", "change"}
    <3>1. req[<<"store", i>>].at \notin {"idle", "change"}
      BY <2>1, <2>2, <2>3 DEF Alone, StoreFirst
    <3>2. r # <<"store", i>>
      BY <2>1, <3>1
    <3> QED
      BY <2>1, <3>1, <3>2 DEF Alone
  <2>4. UploadKept'
    BY <2>1 DEF Alone, UploadKept
  <2> QED
    BY <2>3, <2>4 DEF StoreFirst
<1>4. ASSUME NEW r \in Requests, Insert(r) PROVE StoreFirst' /\ UploadKept'
  <2>1. /\ Alone(r) /\ r = <<"store", r[2]>> /\ req'[r].at = "list" /\ Keys' = Keys \cup {r[2]}
    BY <1>4, InsertDoes
  <2> QED
    BY <2>1 DEF Alone, StoreFirst, UploadKept
<1>5. ASSUME NEW r \in Requests, Pop(r) PROVE StoreFirst' /\ UploadKept'
  <2>1. /\ Alone(r) /\ r = <<"delete", r[2]>> /\ req[r].at = "change"
        /\ req'[r].at \in {"list", "done"} /\ Keys' = Keys \ {r[2]}
    BY <1>5, PopDoes
  <2> QED
    BY <2>1 DEF Alone, StoreFirst, UploadKept
<1>6. ASSUME NEW r \in Requests,
             \/ StartScan(r) \/ Visit(r) \/ SizeChanged(r) \/ Scanned(r)
             \/ Reread(r) \/ RowGone(r) \/ Write(r)
      PROVE  StoreFirst' /\ UploadKept'
  <2>1. /\ Alone(r) /\ Keys \subseteq Keys' /\ req[r].at \notin {"idle", "change"}
        /\ req'[r].at \notin {"idle", "change"}
    BY <1>6, StartScanDoes, VisitDoes, GivenUp, ScannedDoes, RereadDoes, WriteDoes
  <2> QED
    BY <2>1 DEF Alone, StoreFirst, UploadKept
<1> QED
  BY <1>1, <1>2, <1>3, <1>4, <1>5, <1>6 DEF Next, LoopSteps

-----------------------------------------------------------------------------
(* Requests that have not overlapped. *)

Ended3 == {"idle", "done", "raised"}

LEMMA IdleIs ==
  ASSUME Typed, NEW r \in Requests
  PROVE  /\ req[r] \in Idle <=> req[r].at \in Ended3
         /\ req[r].at \in Ended3 \cup {"change", "list"} => DOMAIN req[r].seen = {}
<1>1. Fits(req[r])
  BY FitsNow
<1>2. \A how \in Ended3 \cup {"list"} : Ended(how).at = how /\ DOMAIN Ended(how).seen = {}
  BY DEF Ended, Ended3
<1> QED
  BY <1>1, <1>2 DEF Fits, Idle, Ended3

\* As long as no request meets another, one at most is under way.
OneRequest ==
  "request" \notin met =>
    \A q, r \in Requests : req[q].at \notin Ended3 /\ req[r].at \notin Ended3 => q = r

LEMMA MetGrows ==
  ASSUME Typed, [Next]_vars PROVE met \subseteq met'
<1>1. \A r \in Requests : Begin(r) => met \subseteq met'
  BY DEF Begin, Meet
<1>2. \A w \in Loops : LoopSteps(w) => met \subseteq met'
  BY DEF LoopSteps, Claim, MarkAs, PutBack, Meet
<1>3. \A r \in Requests : Insert(r) \/ Pop(r) \/ Write(r) => met \subseteq met'
  BY InsertDoes, PopDoes, WriteDoes DEF Changes
<1>4. \A r \in Requests :
        \/ StartScan(r) \/ Visit(r) \/ SizeChanged(r) \/ Scanned(r) \/ Reread(r) \/ RowGone(r)
        => met \subseteq met'
  BY DEF StartScan, Visit, SizeChanged, Scanned, Reread, RowGone
<1> QED
  BY <1>1, <1>2, <1>3, <1>4 DEF Next, LoopSteps, vars

LEMMA OneRequestStep ==
  Typed /\ OneRequest /\ [Next]_vars => OneRequest'
<1> SUFFICES ASSUME Typed, OneRequest, [Next]_vars, "request" \notin met' PROVE OneRequest'
  BY DEF OneRequest
<1>1. "request" \notin met
  BY MetGrows
<1>2. ASSUME NEW r \in Requests, Begin(r) PROVE OneRequest'
  <2>1. Alone(r) /\ Meet("request")
    BY <1>2, BeginDoes
  <2>2. Quiet
    BY <2>1 DEF Meet
  <2>3. \A q \in Requests : req[q].at \in Ended3
    BY <2>2, IdleIs DEF Quiet
  <2> QED
    BY <2>1, <2>3 DEF Alone, OneRequest
<1>3. ASSUME NEW r \in Requests,
             \/ Insert(r) \/ Pop(r)
             \/ StartScan(r) \/ Visit(r) \/ SizeChanged(r) \/ Scanned(r)
             \/ Reread(r) \/ RowGone(r) \/ Write(r)
      PROVE  OneRequest'
  <2>1. Alone(r) /\ req[r].at \notin Ended3
    BY <1>3, InsertDoes, PopDoes, StartScanDoes, VisitDoes, GivenUp, ScannedDoes, RereadDoes,
       WriteDoes DEF Ended3
  <2> QED
    BY <1>1, <2>1 DEF Alone, OneRequest
<1>4. ASSUME NEW w \in Loops, LoopSteps(w)
      PROVE  OneRequest'
  <2>1. UNCHANGED req
    BY <1>4, LoopReads, PutBackDoes DEF LoopSteps
  <2> QED
    BY <1>1, <2>1 DEF OneRequest
<1>5. CASE UNCHANGED vars
  BY <1>5 DEF vars, OneRequest
<1> QED
  BY <1>2, <1>3, <1>4, <1>5 DEF Next, LoopSteps

\* What a request has read is still there, ...
ReadsAreThere ==
  "request" \notin met => \A r \in Requests : DOMAIN req[r].seen \subseteq Keys

\* ... and what one has taken out is not, unless a loop has put it back.
DeletedStays ==
  met \subseteq {"loop"} =>
    \A i \in Images :
      req[<<"delete", i>>].at \in {"list", "scan", "reread", "write", "done"} => i \notin Keys

\* As long as no request has changed a row that a loop has read and not yet put back,
\* the loop's copy is that row but for its status.
CopyHolds ==
  "change" \notin met =>
    \A w \in Loops : loop[w].at \in Locked =>
      /\ loop[w].image \in Keys
      /\ row[loop[w].image].position = loop[w].copy.position

\* A change of a row keeps the copies of the loops that have read another one.
LEMMA CopyChanges ==
  ASSUME Typed, CopyHolds, NEW i \in Images, Changes(i) PROVE CopyHolds'
<1> SUFFICES ASSUME "change" \notin met', NEW w \in Loops, loop'[w].at \in Locked
             PROVE  loop'[w].image \in Keys' /\ row'[loop'[w].image].position = loop'[w].copy.position
  BY DEF CopyHolds, Locked
<1>1. loop'[w] = loop[w] /\ "change" \notin met
  BY DEF Changes
<1>2. PICK j : j = loop[w].image
  OBVIOUS
<1>3. j \in Keys /\ row[j].position = loop[w].copy.position
  BY <1>1, <1>2 DEF CopyHolds
<1>4. row'[j] = row[j]
  BY <1>1, <1>2, <1>3 DEF Changes, Keys
<1> QED
  BY <1>1, <1>2, <1>3, <1>4 DEF Keys, NoRow

LEMMA CopyStep == Typed /\ CopyHolds /\ [Next]_vars => CopyHolds'
<1> SUFFICES ASSUME Typed, CopyHolds, [Next]_vars PROVE CopyHolds'
  OBVIOUS
<1>1. ASSUME NEW r \in Requests, Insert(r) \/ Pop(r) \/ Write(r) PROVE CopyHolds'
  <2>1. \E i \in Images : Changes(i)
    BY <1>1, InsertDoes, PopDoes, WriteDoes
  <2> QED
    BY <2>1, CopyChanges
<1>2. ASSUME UNCHANGED <<row, loop>>, met \subseteq met' PROVE CopyHolds'
  BY <1>2 DEF CopyHolds, Keys, Locked
<1>3. ASSUME NEW r \in Requests,
             \/ Begin(r) \/ StartScan(r) \/ Visit(r) \/ SizeChanged(r) \/ Scanned(r)
             \/ Reread(r) \/ RowGone(r)
      PROVE  CopyHolds'
  <2>1. UNCHANGED <<row, loop>>
    BY <1>3, BeginDoes, StartScanDoes, VisitDoes, GivenUp, ScannedDoes, RereadDoes
  <2> QED
    BY <1>2, <2>1, MetGrows
<1>4. ASSUME NEW w \in Loops, Claim(w) \/ \E status \in {"READY", "FAILED"} : MarkAs(w, status)
      PROVE  CopyHolds'
  <2>1. /\ UNCHANGED row /\ Keys' = Keys
        /\ \A v \in Loops \ {w} : loop'[v].at \notin Locked
        /\ loop'[w].at \in Locked =>
             loop'[w].image \in Keys /\ loop'[w].copy.position = row[loop'[w].image].position
    BY <1>4, LoopReads DEF LockFree, Resting, Locked
  <2> QED
    BY <2>1 DEF CopyHolds, Locked
<1>5. ASSUME NEW w \in Loops, PutBack(w) PROVE CopyHolds'
  <2>1. \A v \in Loops : loop'[v].at \notin Locked
    BY <1>5, PutBackDoes DEF Typed, LoopTyped, OneLock
  <2> QED
    BY <2>1 DEF CopyHolds, Locked
<1>6. CASE UNCHANGED vars
  BY <1>2, <1>6 DEF vars
<1> QED
  BY <1>1, <1>3, <1>4, <1>5, <1>6 DEF Next

\* Then the loops, too, change neither who has a row nor its position.
LEMMA LoopKeepsRows ==
  ASSUME Typed, CopyHolds, "change" \notin met, NEW w \in Loops, LoopSteps(w)
  PROVE  UNCHANGED req /\ Keys' = Keys /\ \A i \in Images : row'[i].position = row[i].position
<1>1. CASE PutBack(w)
  <2>1. PICK i : i = loop[w].image
    OBVIOUS
  <2>2. i \in Keys /\ row[i].position = loop[w].copy.position
    BY <1>1, <2>1, PutBackDoes DEF CopyHolds
  <2> QED
    BY <1>1, <2>1, <2>2, PutBackDoes
<1>2. CASE Claim(w) \/ \E status \in {"READY", "FAILED"} : MarkAs(w, status)
  BY <1>2, LoopReads
<1> QED
  BY <1>1, <1>2 DEF LoopSteps

LEMMA Named ==
  \A i \in Images : <<"store", i>>[1] = "store" /\ <<"store", i>>[2] = i
                    /\ <<"delete", i>>[1] = "delete" /\ <<"delete", i>>[2] = i
OBVIOUS

Serial == OneRequest /\ ReadsAreThere /\ DeletedStays /\ CopyHolds

\* A request that is alone has read what is there.
LEMMA ReadsStep ==
  Typed /\ OneRequest /\ ReadsAreThere /\ [Next]_vars => ReadsAreThere'
<1> SUFFICES ASSUME Typed, OneRequest, ReadsAreThere, [Next]_vars, "request" \notin met'
             PROVE  ReadsAreThere'
  BY DEF ReadsAreThere
<1>1. "request" \notin met
  BY MetGrows
<1>2. /\ \A r \in Requests : DOMAIN req[r].seen \subseteq Keys
      /\ \A q, r \in Requests : req[q].at \notin Ended3 /\ req[r].at \notin Ended3 => q = r
  BY <1>1 DEF ReadsAreThere, OneRequest
<1>3. \A q, r \in Requests : q # r /\ req[r].at \notin Ended3 => DOMAIN req[q].seen = {}
  BY <1>2, IdleIs
<1>4. ASSUME NEW r \in Requests, Pop(r) PROVE ReadsAreThere'
  <2>1. Alone(r) /\ DOMAIN req'[r].seen = {} /\ req[r].at = "change"
    BY <1>4, PopDoes
  <2>2. \A q \in Requests : DOMAIN req'[q].seen = {}
    BY <1>3, <2>1 DEF Alone, Ended3
  <2> QED
    BY <2>2 DEF ReadsAreThere
<1>5. ASSUME NEW r \in Requests,
             \/ Begin(r) \/ Insert(r) \/ StartScan(r) \/ Visit(r) \/ SizeChanged(r)
             \/ Scanned(r) \/ Reread(r) \/ RowGone(r) \/ Write(r)
      PROVE  ReadsAreThere'
  <2>1. /\ Alone(r) /\ Keys \subseteq Keys'
        /\ DOMAIN req'[r].seen \subseteq DOMAIN req[r].seen \cup Keys
    <3>1. CASE Begin(r) \/ Insert(r) \/ StartScan(r) \/ SizeChanged(r) \/ RowGone(r)
      BY <3>1, BeginDoes, InsertDoes, StartScanDoes, GivenUp
    <3>2. CASE Visit(r)
      BY <3>2, VisitDoes
    <3>3. CASE Scanned(r) \/ Reread(r) \/ Write(r)
      BY <3>3, ScannedDoes, RereadDoes, WriteDoes
    <3> QED
      BY <1>5, <3>1, <3>2, <3>3
  <2> QED
    BY <1>2, <2>1 DEF Alone, ReadsAreThere
<1>6. ASSUME NEW w \in Loops, LoopSteps(w) PROVE ReadsAreThere'
  <2>1. UNCHANGED req /\ Keys \subseteq Keys'
    BY <1>6, LoopReads, PutBackDoes DEF LoopSteps
  <2> QED
    BY <1>2, <2>1 DEF ReadsAreThere
<1>7. CASE UNCHANGED vars
  BY <1>2, <1>7 DEF vars, ReadsAreThere, Keys
<1> QED
  BY <1>4, <1>5, <1>6, <1>7 DEF Next, LoopSteps

\* No step but a store brings a row in, and an image is stored before its deletion begins.
LEMMA DeletedStep ==
  Typed /\ StoreFirst /\ Serial /\ [Next]_vars => DeletedStays'
<1> SUFFICES ASSUME Typed, StoreFirst, Serial, [Next]_vars, met' \subseteq {"loop"}
             PROVE  DeletedStays'
  BY DEF DeletedStays
<1> USE StoresAndDeletes DEF Serial
<1>1. met \subseteq {"loop"} /\ "request" \notin met /\ "change" \notin met
  BY MetGrows
<1>2. /\ \A r \in Requests : DOMAIN req[r].seen \subseteq Keys
      /\ \A i \in Images : req[<<"delete", i>>].at \in {"list", "scan", "reread", "write", "done"} =>
                             i \notin Keys
  BY <1>1 DEF ReadsAreThere, DeletedStays
<1>3. ASSUME NEW r \in Requests, Begin(r) PROVE DeletedStays'
  <2>1. Alone(r) /\ Keys' = Keys /\ (r[1] # "reorder" => req'[r].at = "change")
    BY <1>3, BeginDoes
  <2>2. \A i \in Images : req'[<<"delete", i>>].at \in {"list", "scan", "reread", "write", "done"} =>
          req[<<"delete", i>>].at \in {"list", "scan", "reread", "write", "done"}
    BY <2>1, Named DEF Alone
  <2> QED
    BY <1>2, <2>1, <2>2 DEF DeletedStays
<1>4. ASSUME NEW r \in Requests, Insert(r) PROVE DeletedStays'
  <2>1. /\ Alone(r) /\ Keys' = Keys \cup {r[2]}
        /\ r[1] = "store" /\ r = <<"store", r[2]>> /\ req[r].at = "change" /\ r[2] \in Images
    BY <1>4, InsertDoes
  <2>2. req[<<"delete", r[2]>>].at = "idle"
    BY <2>1 DEF StoreFirst
  <2>3. \A i \in Images : <<"delete", i>> # r /\ req'[<<"delete", i>>] = req[<<"delete", i>>]
    BY <2>1, Named DEF Alone
  <2> QED
    BY <1>2, <2>1, <2>2, <2>3 DEF DeletedStays
<1>5. ASSUME NEW r \in Requests, Pop(r) PROVE DeletedStays'
  <2>1. /\ Alone(r) /\ Keys' = Keys \ {r[2]} /\ r = <<"delete", r[2]>> /\ r[2] \in Images
    BY <1>5, PopDoes
  <2>2. \A i \in Images : i # r[2] => req'[<<"delete", i>>] = req[<<"delete", i>>]
    BY <2>1, Named DEF Alone
  <2> QED
    BY <1>2, <2>1, <2>2 DEF DeletedStays
<1>6. ASSUME NEW r \in Requests,
             \/ StartScan(r) \/ Visit(r) \/ SizeChanged(r) \/ Scanned(r)
             \/ Reread(r) \/ RowGone(r) \/ Write(r)
      PROVE  DeletedStays'
  <2>1. Alone(r) /\ Keys' = Keys
    <3>1. CASE Write(r)
      <4>1. PICK i : i = req[r].order[req[r].next]
        OBVIOUS
      <4>2. Alone(r) /\ i \in DOMAIN req[r].seen /\ Keys' = Keys \cup {i}
        BY <3>1, <4>1, WriteDoes
      <4> QED
        BY <1>2, <4>2
    <3> QED
      BY <1>6, <3>1, StartScanDoes, VisitDoes, GivenUp, ScannedDoes, RereadDoes
  <2>2. req[r].at \in {"list", "scan", "reread", "write"}
    BY <1>6, StartScanDoes, VisitDoes, GivenUp, ScannedDoes, RereadDoes, WriteDoes
  <2> QED
    BY <1>2, <2>1, <2>2 DEF Alone, DeletedStays
<1>7. ASSUME NEW w \in Loops, LoopSteps(w) PROVE DeletedStays'
  BY <1>1, <1>2, <1>7, LoopKeepsRows DEF DeletedStays
<1>8. CASE UNCHANGED vars
  BY <1>2, <1>8 DEF vars, DeletedStays, Keys
<1> QED
  BY <1>3, <1>4, <1>5, <1>6, <1>7, <1>8 DEF Next, LoopSteps

LEMMA SerialStep ==
  Typed /\ StoreFirst /\ Serial /\ [Next]_vars => Serial'
BY OneRequestStep, ReadsStep, DeletedStep, CopyStep DEF Serial

RowsInv == Typed /\ StoreFirst /\ UploadKept /\ Serial

LEMMA RowsInit == Init => StoreFirst /\ UploadKept /\ Serial
<1> SUFFICES ASSUME Init PROVE StoreFirst /\ UploadKept /\ Serial
  OBVIOUS
<1>1. \A r \in Requests : req[r].at = "idle" /\ DOMAIN req[r].seen = {}
  BY DEF Init, Ended
<1>2. \A w \in Loops : loop[w].at \notin Locked
  BY DEF Init, Resting, Locked
<1> QED
  BY <1>1, <1>2, StoresAndDeletes
  DEF StoreFirst, UploadKept, Serial, OneRequest, ReadsAreThere, DeletedStays, CopyHolds, Ended3

LEMMA RowsInvariant == Spec => []RowsInv
<1>1. Init => RowsInv
  BY TypedInit, RowsInit DEF RowsInv
<1>2. RowsInv /\ [Next]_vars => RowsInv'
  BY TypedStep, UploadStep, SerialStep DEF RowsInv
<1> QED
  BY <1>1, <1>2, PTL DEF Spec

\* However requests and loops overlap, an upload that was answered is in the listing until
\* its deletion takes it out; an image whose deletion was answered stays deleted, unless
\* requests have overlapped or one has changed a row that a loop had read and not yet
\* put back (memory.py:130-137, 202-219, 222-253, 255-263).
THEOREM RequestsTakeEffect == Spec => []RowsFollowRequests
<1>1. RowsInv => RowsFollowRequests
  <2> SUFFICES ASSUME RowsInv, met \subseteq {"loop"}, NEW i \in Images,
                      req[<<"delete", i>>].at = "done"
               PROVE  row[i] = NoRow
    BY DEF RowsInv, RowsFollowRequests, DeletedIsGone
  <2> QED
    BY DEF RowsInv, Serial, DeletedStays, Keys
<1> QED
  BY <1>1, RowsInvariant, PTL

-----------------------------------------------------------------------------
(* Positions. *)

Contiguous == {row[i].position : i \in Keys} = 1..Cardinality(Keys)

\* A request that is alone keeps to what it has counted; what it numbers is everything,
\* and what it has numbered so far has kept its number.
Numbering ==
  met \subseteq {"loop"} =>
    /\ Quiet => Contiguous
    /\ \A r \in Requests :
         /\ req[r].at = "change" => Contiguous
         /\ req[r].at = "scan" => req[r].size = Cardinality(Keys)
         /\ req[r].at \in {"reread", "write"} =>
              \A i \in Keys : \E k \in DOMAIN req[r].order : req[r].order[k] = i
         /\ req[r].at = "write" =>
              \A k \in DOMAIN req[r].order : k < req[r].next =>
                req[r].order[k] \in Keys /\ row[req[r].order[k]].position = k

\* Rows that have the places of an order as their positions are contiguous.
LEMMA NumberedIsContiguous ==
  ASSUME NEW K, IsFiniteSet(K), NEW x, NEW s, NEW n \in Nat, DOMAIN s = 1..n,
         \A k, l \in 1..n : s[k] = s[l] => k = l,
         \A i \in K : \E k \in 1..n : s[k] = i,
         \A k \in 1..n : s[k] \in K /\ x[s[k]].position = k
  PROVE  {x[i].position : i \in K} = 1..Cardinality(K)
<1> DEFINE f == [k \in 1..n |-> s[k]]
<1>1. f \in Injection(1..n, K) /\ f \in Surjection(1..n, K)
  BY DEF Injection, Surjection, IsInjective
<1>2. Cardinality(1..n) = Cardinality(K)
  BY <1>1, FS_Injection
<1>3. Cardinality(1..n) = n
  <2>1. Cardinality(1..n) = IF 1 > n THEN 0 ELSE n - 1 + 1
    BY FS_Interval
  <2> QED
    BY <2>1
<1>4. {x[i].position : i \in K} = 1..n
  <2>1. \A i \in K : x[i].position \in 1..n
    OBVIOUS
  <2>2. \A k \in 1..n : \E i \in K : k = x[i].position
    OBVIOUS
  <2> QED
    BY <2>1, <2>2
<1> QED
  BY <1>2, <1>3, <1>4

\* Requests other than the one under way say nothing.
LEMMA OthersQuiet ==
  ASSUME Typed, OneRequest, "request" \notin met, NEW r \in Requests, Alone(r),
         req[r].at \notin Ended3
  PROVE  /\ \A q \in Requests \ {r} : req'[q].at \in Ended3
         /\ ~Quiet
         /\ Typed' => (Quiet' <=> req'[r].at \in Ended3)
<1>1. \A q \in Requests \ {r} : req[q].at \in Ended3 /\ req'[q] = req[q]
  BY DEF OneRequest, Alone
<1>2. ~Quiet
  BY IdleIs DEF Quiet
<1>3. ASSUME Typed' PROVE Quiet' <=> req'[r].at \in Ended3
  <2>1. \A q \in Requests : Idle' = Idle /\ (req'[q] \in Idle <=> req'[q].at \in Ended3)
    <3>1. ASSUME NEW q \in Requests PROVE (req'[q] \in Idle <=> req'[q].at \in Ended3)
      <4>1. PICK x : x = req'[q]
        OBVIOUS
      <4>2. Fits(x)
        BY <1>3, <4>1 DEF Typed, ReqTyped, Fits
      <4>3. \A how \in Ended3 : Ended(how).at = how
        BY DEF Ended, Ended3
      <4> QED
        BY <4>1, <4>2, <4>3 DEF Fits, Idle, Ended3
    <3> QED
      BY <3>1 DEF Idle
  <2> QED
    BY <1>1, <2>1 DEF Quiet
<1> QED
  BY <1>1, <1>2, <1>3

NumberingOf(r) ==
  /\ req[r].at = "change" => Contiguous
  /\ req[r].at = "scan" => req[r].size = Cardinality(Keys)
  /\ req[r].at \in {"reread", "write"} =>
       \A i \in Keys : \E k \in DOMAIN req[r].order : req[r].order[k] = i
  /\ req[r].at = "write" =>
       \A k \in DOMAIN req[r].order : k < req[r].next =>
         req[r].order[k] \in Keys /\ row[req[r].order[k]].position = k

LEMMA NumberingOfOne ==
  ASSUME Typed, Typed', OneRequest, met \subseteq {"loop"}, NEW r \in Requests, Alone(r),
         req[r].at \notin Ended3, NumberingOf(r)', req'[r].at \in Ended3 => Contiguous'
  PROVE  Numbering'
<1>1. Quiet' => Contiguous'
  BY OthersQuiet
<1>2. \A q \in Requests : NumberingOf(q)'
  BY OthersQuiet DEF NumberingOf, Ended3
<1> QED
  BY <1>1, <1>2 DEF Numbering, NumberingOf

LEMMA NumberingWrite ==
  ASSUME Typed, Typed', Serial, Numbering, met \subseteq {"loop"}, NEW r \in Requests, Write(r)
  PROVE  Numbering'
<1>1. PICK q : q = req[r]
  OBVIOUS
<1>2. PICK i : i = q.order[q.next]
  OBVIOUS
<1>3. /\ Alone(r) /\ q.at = "write" /\ i \in Images /\ i \in DOMAIN q.seen
      /\ row'[i] = [q.seen[i] EXCEPT !.position = q.next]
      /\ \A j \in Images \ {i} : row'[j] = row[j]
      /\ Keys' = Keys \cup {i}
      /\ q.next = Len(q.order) => req'[r].at = "done"
      /\ q.next # Len(q.order) =>
           req'[r].at = "write" /\ req'[r].order = q.order /\ req'[r].next = q.next + 1
  BY <1>1, <1>2, WriteDoes DEF Changes
<1>4. Fits(q) /\ q.next \in DOMAIN q.order /\ q.next \in Nat
  BY <1>1, <1>3, FitsNow DEF Fits, Stage
<1>5. DOMAIN q.order = 1..Len(q.order) /\ Len(q.order) \in Nat /\ q.seen[i] \in Rows
      /\ \A k \in DOMAIN q.order : q.order[k] \in Images
  BY <1>3, <1>4, OrderOf
<1>6. Keys' = Keys
  BY <1>1, <1>3 DEF Serial, ReadsAreThere
<1>7. row'[i].position = q.next
  BY <1>3, <1>5 DEF Rows
<1>8. /\ \A j \in Keys : \E k \in DOMAIN q.order : q.order[k] = j
      /\ \A k \in DOMAIN q.order : k < q.next => q.order[k] \in Keys /\ row[q.order[k]].position = k
  BY <1>1, <1>3 DEF Numbering
<1>9. \A k \in DOMAIN q.order : k < q.next + 1 =>
        q.order[k] \in Keys' /\ row'[q.order[k]].position = k
  <2> SUFFICES ASSUME NEW k \in DOMAIN q.order, k < q.next + 1
               PROVE  q.order[k] \in Keys' /\ row'[q.order[k]].position = k
    OBVIOUS
  <2>1. CASE k = q.next
    BY <1>2, <1>3, <1>7, <2>1
  <2>2. CASE k # q.next
    <3>1. k < q.next
      BY <1>4, <1>5, <2>2
    <3>2. q.order[k] # i /\ q.order[k] \in Images
      BY <1>2, <1>4, <1>5, <2>2 DEF Fits
    <3> QED
      BY <1>3, <1>6, <1>8, <3>1, <3>2
  <2> QED
    BY <2>1, <2>2
<1>10. CASE q.next = Len(q.order)
  <2>1. PICK n \in Nat : n = Len(q.order)
    BY <1>5
  <2>2. \A k \in 1..n : q.order[k] \in Keys' /\ row'[q.order[k]].position = k
    BY <1>5, <1>9, <1>10, <2>1
  <2>3. \A j \in Keys' : \E k \in 1..n : q.order[k] = j
    BY <1>5, <1>6, <1>8, <2>1
  <2>4. \A k, l \in 1..n : q.order[k] = q.order[l] => k = l
    BY <1>4, <1>5, <2>1 DEF Fits
  <2>5. Contiguous'
    <3>1. PICK s, K, x : s = q.order /\ K = Keys' /\ x = row'
      OBVIOUS
    <3>2. IsFiniteSet(K)
      BY <1>6, <3>1, KeysFinite
    <3>3. DOMAIN s = 1..n
      BY <1>5, <2>1, <3>1
    <3>4. /\ \A k, l \in 1..n : s[k] = s[l] => k = l
          /\ \A j \in K : \E k \in 1..n : s[k] = j
          /\ \A k \in 1..n : s[k] \in K /\ x[s[k]].position = k
      BY <2>2, <2>3, <2>4, <3>1
    <3>5. {x[j].position : j \in K} = 1..Cardinality(K)
      BY <3>2, <3>3, <3>4, NumberedIsContiguous
    <3> QED
      BY <3>1, <3>5 DEF Contiguous
  <2>6. req'[r].at = "done" /\ NumberingOf(r)'
    BY <1>3, <1>10 DEF NumberingOf
  <2> QED
    BY <1>1, <1>3, <2>5, <2>6, NumberingOfOne DEF Serial, Ended3
<1>11. CASE q.next # Len(q.order)
  <2>1. NumberingOf(r)' /\ req'[r].at = "write"
    BY <1>3, <1>6, <1>8, <1>9, <1>11 DEF NumberingOf
  <2> QED
    BY <1>1, <1>3, <2>1, NumberingOfOne DEF Serial, Ended3
<1> QED
  BY <1>10, <1>11

LEMMA NumberingStep ==
  RowsInv /\ RowsInv' /\ Numbering /\ [Next]_vars => Numbering'
<1> SUFFICES ASSUME RowsInv, RowsInv', Numbering, [Next]_vars, met' \subseteq {"loop"}
             PROVE  Numbering'
  BY DEF Numbering
<1>1. met \subseteq {"loop"} /\ "request" \notin met /\ "change" \notin met
  BY MetGrows DEF RowsInv
<1>2. Typed /\ Typed' /\ Serial /\ OneRequest
  BY DEF RowsInv, Serial
<1>3. \A r \in Requests : NumberingOf(r)
  BY <1>1 DEF Numbering, NumberingOf
<1>4. ASSUME NEW r \in Requests, Begin(r) PROVE Numbering'
  <2>1. /\ Alone(r) /\ UNCHANGED row /\ Meet("request") /\ req'[r].at \in {"list", "change"}
    BY <1>2, <1>4, BeginDoes
  <2>2. Quiet
    BY <2>1 DEF Meet
  <2>3. Contiguous' /\ Keys' = Keys
    BY <1>1, <2>1, <2>2 DEF Numbering, Contiguous, Keys
  <2>4. \A q \in Requests \ {r} : req'[q].at \in Ended3
    BY <1>2, <2>1, <2>2, IdleIs DEF Quiet, Alone
  <2>5. \A q \in Requests : NumberingOf(q)'
    BY <2>1, <2>3, <2>4 DEF NumberingOf, Ended3
  <2> QED
    BY <2>3, <2>5 DEF Numbering, NumberingOf
<1>5. ASSUME NEW r \in Requests, Insert(r) PROVE Numbering'
  <2>1. Alone(r) /\ req[r].at = "change" /\ req'[r].at = "list"
    BY <1>2, <1>5, InsertDoes
  <2>2. NumberingOf(r)'
    BY <2>1 DEF NumberingOf
  <2> QED
    BY <1>1, <1>2, <2>1, <2>2, NumberingOfOne DEF Ended3
<1>6. ASSUME NEW r \in Requests, Pop(r) PROVE Numbering'
  <2>1. /\ Alone(r) /\ req[r].at = "change" /\ Keys' = Keys \ {r[2]}
        /\ req'[r].at = IF r[2] \in Keys THEN "list" ELSE "done"
        /\ \A i \in Images \ {r[2]} : row'[i] = row[i]
    BY <1>2, <1>6, PopDoes DEF Changes
  <2>2. CASE r[2] \in Keys
    <3>1. NumberingOf(r)' /\ req'[r].at = "list"
      BY <2>1, <2>2 DEF NumberingOf
    <3> QED
      BY <1>1, <1>2, <2>1, <3>1, NumberingOfOne DEF Ended3
  <2>3. CASE r[2] \notin Keys
    <3>1. Keys' = Keys /\ \A i \in Keys : row'[i] = row[i]
      BY <2>1, <2>3 DEF Keys
    <3>2. Contiguous
      BY <1>3, <2>1 DEF NumberingOf
    <3>3. Contiguous'
      BY <3>1, <3>2 DEF Contiguous
    <3>4. NumberingOf(r)'
      BY <2>1, <2>3 DEF NumberingOf
    <3> QED
      BY <1>1, <1>2, <2>1, <3>3, <3>4, NumberingOfOne DEF Ended3
  <2> QED
    BY <2>2, <2>3
<1>7. ASSUME NEW r \in Requests, StartScan(r) \/ Visit(r) PROVE Numbering'
  <2>1. /\ Alone(r) /\ Keys' = Keys /\ req[r].at \in {"list", "scan"} /\ req'[r].at = "scan"
        /\ req'[r].size = IF req[r].at = "list" THEN Cardinality(Keys) ELSE req[r].size
    BY <1>2, <1>7, StartScanDoes, VisitDoes
  <2>2. NumberingOf(r)'
    BY <1>3, <2>1 DEF NumberingOf
  <2> QED
    BY <1>1, <1>2, <2>1, <2>2, NumberingOfOne DEF Ended3
\* Alone, a request finds the listing as it has counted it and every image it has read.
<1>8. ASSUME NEW r \in Requests, SizeChanged(r) \/ RowGone(r) PROVE FALSE
  <2>1. CASE SizeChanged(r)
    BY <1>3, <2>1 DEF SizeChanged, Go, NumberingOf
  <2>2. CASE RowGone(r)
    <3>1. PICK q : q = req[r]
      OBVIOUS
    <3>2. q.at = "reread" /\ q.order[q.next] \notin Keys
      BY <2>2, <3>1 DEF RowGone, Go
    <3>3. q.order[q.next] \in DOMAIN q.seen
      BY <1>2, <3>1, <3>2, FitsNow DEF Fits
    <3>4. DOMAIN q.seen \subseteq Keys
      BY <1>1, <1>2, <3>1 DEF Serial, ReadsAreThere
    <3> QED
      BY <3>2, <3>3, <3>4
  <2> QED
    BY <1>8, <2>1, <2>2
<1>9. ASSUME NEW r \in Requests, Scanned(r) PROVE Numbering'
  <2>1. /\ Alone(r) /\ Keys' = Keys /\ req[r].at = "scan"
        /\ req'[r].at \in {"done", "reread", "write"}
        /\ req'[r].at = "done" => Keys = {}
        /\ req'[r].at # "done" =>
             /\ req'[r].next = 1
             /\ \A i \in Keys : \E k \in DOMAIN req'[r].order : req'[r].order[k] = i
    BY <1>2, <1>9, ScannedDoes
  <2>2. req'[r].at # "done" => \A k \in DOMAIN req'[r].order : ~(k < 1)
    <3>1. PICK x : x = req'[r]
      OBVIOUS
    <3>2. Fits(x)
      BY <1>2, <3>1 DEF Typed, ReqTyped, Fits
    <3>3. DOMAIN x.order = 1..Len(x.order) /\ Len(x.order) \in Nat
      BY <3>2, OrderOf
    <3> QED
      BY <3>1, <3>3
  <2>3. NumberingOf(r)'
    BY <2>1, <2>2 DEF NumberingOf
  <2>4. Keys = {} => Contiguous'
    <3>1. Cardinality({}) = 0 /\ 1..0 = {}
      BY FS_EmptySet
    <3> QED
      BY <2>1, <3>1 DEF Contiguous
  <2> QED
    BY <1>1, <1>2, <2>1, <2>3, <2>4, NumberingOfOne DEF Ended3
<1>10. ASSUME NEW r \in Requests, Reread(r) PROVE Numbering'
  <2>1. /\ Alone(r) /\ Keys' = Keys /\ req[r].at = "reread" /\ req'[r].at \in {"reread", "write"}
        /\ req'[r].order = req[r].order
        /\ req'[r].at = "write" => req'[r].next = 1
    BY <1>2, <1>10, RereadDoes
  <2>2. \A k \in DOMAIN req'[r].order : ~(k < 1)
    <3>1. PICK x : x = req[r]
      OBVIOUS
    <3>2. DOMAIN x.order = 1..Len(x.order) /\ Len(x.order) \in Nat
      BY <1>2, <3>1, FitsNow, OrderOf
    <3> QED
      BY <2>1, <3>1, <3>2
  <2>3. NumberingOf(r)'
    BY <1>3, <2>1, <2>2 DEF NumberingOf
  <2> QED
    BY <1>1, <1>2, <2>1, <2>3, NumberingOfOne DEF Ended3
<1>11. ASSUME NEW r \in Requests, Write(r) PROVE Numbering'
  BY <1>1, <1>2, <1>11, NumberingWrite
<1>12. ASSUME Keys' = Keys, UNCHANGED req, \A i \in Images : row'[i].position = row[i].position
       PROVE  Numbering'
  <2>1. Keys \subseteq Images
    BY DEF Keys
  <2>2. Contiguous' = Contiguous
    BY <1>12, <2>1 DEF Contiguous
  <2>3. Quiet' = Quiet
    BY <1>12 DEF Quiet, Idle
  <2>4. \A r \in Requests : NumberingOf(r)'
    BY <1>3, <1>12, <2>1, <2>2 DEF NumberingOf
  <2> QED
    BY <1>1, <2>2, <2>3, <2>4 DEF Numbering, NumberingOf
<1>13. ASSUME NEW w \in Loops, LoopSteps(w) PROVE Numbering'
  BY <1>1, <1>2, <1>12, <1>13, LoopKeepsRows DEF Serial
<1>14. CASE UNCHANGED vars
  BY <1>12, <1>14 DEF vars, Keys
<1> QED
  BY <1>4, <1>5, <1>6, <1>7, <1>8, <1>9, <1>10, <1>11, <1>13, <1>14 DEF Next, LoopSteps

\* When no request is under way the positions are 1, 2, ... without a gap, unless requests
\* have overlapped or one has changed a row that a loop had read and not yet put back: a
\* loop may claim, process and mark between any two steps of a request otherwise
\* (domain/listings/repositories.py:89, memory.py:202-253).
THEOREM PositionsHaveNoGap == Spec => []PositionsContiguous
<1>1. Init => Numbering
  <2> SUFFICES ASSUME Init PROVE Numbering
    OBVIOUS
  <2>1. Keys = {} /\ \A r \in Requests : req[r].at = "idle"
    BY DEF Init, Keys, Ended
  <2>2. Contiguous
    <3>1. Cardinality({}) = 0 /\ 1..0 = {}
      BY FS_EmptySet
    <3> QED
      BY <2>1, <3>1 DEF Contiguous
  <2> QED
    BY <2>1, <2>2 DEF Numbering
<1>2. RowsInv /\ Numbering => PositionsContiguous
  BY TypedIsTypeOK DEF RowsInv, Numbering, PositionsContiguous, Contiguous
<1> QED
  BY <1>1, <1>2, RowsInvariant, NumberingStep, PTL DEF Spec

-----------------------------------------------------------------------------
(* Images in the hands of a loop. *)

\* While no loop makes a step beside a request, an image that is PROCESSING, in its row or
\* in what a request has read of it, is one that a loop has claimed.
Claimed(i) == \E w \in Loops : loop[w].image = i

InHand ==
  "loop" \notin met =>
    /\ \A i \in Keys : row[i].status = "PROCESSING" => Claimed(i)
    /\ \A r \in Requests : \A i \in DOMAIN req[r].seen :
         req[r].seen[i].status = "PROCESSING" => Claimed(i)

LEMMA InHandStep == Typed /\ InHand /\ [Next]_vars => InHand'
<1> SUFFICES ASSUME Typed, InHand, [Next]_vars, "loop" \notin met' PROVE InHand'
  BY DEF InHand
<1>1. "loop" \notin met
  BY MetGrows
<1>2. /\ \A i \in Keys : row[i].status = "PROCESSING" => Claimed(i)
      /\ \A r \in Requests : \A i \in DOMAIN req[r].seen :
           req[r].seen[i].status = "PROCESSING" => Claimed(i)
  BY <1>1 DEF InHand
<1>3. Keys \subseteq Images
  BY DEF Keys
<1>4. ASSUME NEW r \in Requests, Begin(r) PROVE InHand'
  <2>1. Alone(r) /\ UNCHANGED <<row, loop>> /\ DOMAIN req'[r].seen = {} /\ Keys' = Keys
    BY <1>4, BeginDoes
  <2> QED
    BY <1>2, <2>1 DEF Alone, InHand, Claimed
<1>5. ASSUME NEW r \in Requests, Insert(r) PROVE InHand'
  <2>1. /\ Alone(r) /\ UNCHANGED loop /\ DOMAIN req'[r].seen = {}
        /\ row'[r[2]].status = "PENDING"
        /\ \A i \in Images \ {r[2]} : row'[i] = row[i]
        /\ Keys' = Keys \cup {r[2]}
    BY <1>5, InsertDoes DEF Changes
  <2> QED
    BY <1>2, <1>3, <2>1 DEF Alone, InHand, Claimed
<1>6. ASSUME NEW r \in Requests, Pop(r) PROVE InHand'
  <2>1. /\ Alone(r) /\ UNCHANGED loop /\ DOMAIN req'[r].seen = {}
        /\ \A i \in Images \ {r[2]} : row'[i] = row[i]
        /\ Keys' = Keys \ {r[2]}
    BY <1>6, PopDoes DEF Changes
  <2> QED
    BY <1>2, <1>3, <2>1 DEF Alone, InHand, Claimed
<1>7. ASSUME NEW r \in Requests, Visit(r) \/ Reread(r) PROVE InHand'
  <2>1. /\ Alone(r) /\ UNCHANGED <<row, loop>> /\ Keys' = Keys
        /\ \E i \in Keys : \A j \in DOMAIN req'[r].seen :
             \/ j = i /\ req'[r].seen[j] = row[i]
             \/ j \in DOMAIN req[r].seen /\ req'[r].seen[j] = req[r].seen[j]
    <3>1. CASE Visit(r)
      BY <3>1, VisitDoes
    <3>2. CASE Reread(r)
      BY <3>2, RereadDoes
    <3> QED
      BY <1>7, <3>1, <3>2
  <2>2. \A j \in DOMAIN req'[r].seen :
          req'[r].seen[j].status = "PROCESSING" => Claimed(j)
    BY <1>2, <2>1
  <2> QED
    BY <1>2, <2>1, <2>2 DEF Alone, InHand, Claimed
<1>8. ASSUME NEW r \in Requests, StartScan(r) \/ SizeChanged(r) \/ RowGone(r) \/ Scanned(r)
      PROVE  InHand'
  <2>1. /\ Alone(r) /\ UNCHANGED <<row, loop>> /\ Keys' = Keys
        /\ DOMAIN req'[r].seen = {} \/ req'[r].seen = req[r].seen
    BY <1>8, StartScanDoes, GivenUp, ScannedDoes
  <2> QED
    BY <1>2, <2>1 DEF Alone, InHand, Claimed
<1>9. ASSUME NEW r \in Requests, Write(r) PROVE InHand'
  <2>1. PICK i : i = req[r].order[req[r].next]
    OBVIOUS
  <2>2. /\ Alone(r) /\ UNCHANGED loop /\ i \in DOMAIN req[r].seen
        /\ row'[i] = [req[r].seen[i] EXCEPT !.position = req[r].next]
        /\ \A j \in Images \ {i} : row'[j] = row[j]
        /\ Keys' = Keys \cup {i}
        /\ \A j \in DOMAIN req'[r].seen :
             j \in DOMAIN req[r].seen /\ req'[r].seen[j] = req[r].seen[j]
    BY <1>9, <2>1, WriteDoes DEF Changes
  <2>3. row'[i].status = req[r].seen[i].status
    <3>1. req[r].seen[i] \in Rows
      BY <2>2, FitsNow, OrderOf
    <3> QED
      BY <2>2, <3>1 DEF Rows
  <2>4. \A j \in Keys' : row'[j].status = "PROCESSING" => Claimed(j)
    <3>1. row'[i].status = "PROCESSING" => Claimed(i)
      BY <1>2, <2>2, <2>3
    <3>2. \A j \in Keys \ {i} : row'[j] = row[j]
      BY <1>3, <2>2
    <3> QED
      BY <1>2, <2>2, <3>1, <3>2
  <2>5. \A q \in Requests : \A j \in DOMAIN req'[q].seen :
          j \in DOMAIN req[q].seen /\ req'[q].seen[j] = req[q].seen[j]
    BY <2>2 DEF Alone
  <2>6. \A q \in Requests : \A j \in DOMAIN req'[q].seen :
          req'[q].seen[j].status = "PROCESSING" => Claimed(j)
    BY <1>2, <2>5
  <2> QED
    BY <2>2, <2>4, <2>6 DEF InHand, Claimed
\* The loop has met no request, so none has read anything.
<1>10. ASSUME NEW w \in Loops, LoopSteps(w) PROVE InHand'
  <2>1. UNCHANGED req /\ Meet("loop")
    BY <1>10, LoopReads, PutBackDoes DEF LoopSteps
  <2>2. \A r \in Requests : DOMAIN req'[r].seen = {}
    <3>1. Quiet
      BY <2>1 DEF Meet
    <3> QED
      BY <2>1, <3>1, IdleIs DEF Quiet
  <2>3. \A i \in Keys' : row'[i].status = "PROCESSING" => Claimed(i)'
    <3>1. CASE Claim(w) \/ \E status \in {"READY", "FAILED"} : MarkAs(w, status)
      <4>1. /\ UNCHANGED row /\ Keys' = Keys /\ \A v \in Loops \ {w} : loop'[v] = loop[v]
            /\ \/ loop[w].image = NoImage \/ loop'[w].image = loop[w].image
               \/ loop[w].image \notin Keys
        BY <3>1, LoopReads
      <4> QED
        BY <1>2, <1>3, <4>1, ImagesAssumption DEF Claimed, NoImage
    <3>2. CASE PutBack(w)
      <4>1. PICK i : i = loop[w].image
        OBVIOUS
      <4>2. /\ loop[w].at \in Locked /\ row'[i] = loop[w].copy /\ Keys' = Keys \cup {i}
            /\ \A j \in Images \ {i} : row'[j] = row[j]
            /\ \A v \in Loops \ {w} : loop'[v] = loop[v]
            /\ loop[w].at = "claim" => loop'[w].image = i
            /\ loop[w].at = "mark" => row'[i].status # "PROCESSING"
        BY <3>2, <4>1, PutBackDoes
      <4>3. row'[i].status = "PROCESSING" => Claimed(i)'
        BY <4>2 DEF Claimed, Locked
      <4>4. ASSUME NEW j \in Keys \ {i}, row'[j].status = "PROCESSING" PROVE Claimed(j)'
        <5>1. PICK v \in Loops : loop[v].image = j
          BY <1>2, <1>3, <4>2, <4>4 DEF Claimed
        <5> QED
          BY <4>1, <4>2, <5>1 DEF Claimed
      <4> QED
        BY <4>2, <4>3, <4>4
    <3> QED
      BY <1>10, <3>1, <3>2 DEF LoopSteps
  <2> QED
    BY <2>2, <2>3 DEF InHand
<1>11. CASE UNCHANGED vars
  BY <1>2, <1>11 DEF vars, InHand, Keys, Claimed
<1> QED
  BY <1>4, <1>5, <1>6, <1>7, <1>8, <1>9, <1>10, <1>11 DEF Next, LoopSteps

\* When neither a request nor the loop is at work no image is PROCESSING, unless the
\* loop has made a step beside a request: requests that overlap with each other, also
\* between the steps of a claim, put no stale status back for good
\* (tests/test_async_media_api.py:52-57).
THEOREM NoneStaysProcessing == Spec => []NoneLeftProcessing
<1>1. Init => InHand
  BY DEF Init, InHand, Keys, Ended
<1>2. Typed /\ InHand => NoneLeftProcessing
  BY ImagesAssumption DEF InHand, Claimed, NoneLeftProcessing, Keys, NoImage, Resting
<1> QED
  BY <1>1, <1>2, TypedInvariant, InHandStep, PTL DEF Spec
=============================================================================
