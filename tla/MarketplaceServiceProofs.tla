---------------------- MODULE MarketplaceServiceProofs ----------------------
(***************************************************************************)
(* What the service guarantees for every set of reservations: first when   *)
(* it is built over the domain services, for every mixture of workflows    *)
(* and direct calls; then when it is built over repositories, for every    *)
(* number of request threads, failing calls and crashes; then the two      *)
(* together.                                                               *)
(***************************************************************************)
EXTENDS MarketplaceService, FiniteSetTheorems, TLAPS

ReservationStatuses ==
  {"none", "PENDING", "ACCEPTED", "DECLINED", "CANCELLED", "EXPIRED", "COMPLETED"}

\* The stores of the services hold a status for each entity.
Typed ==
  /\ storedUser \in [S!Users -> {"PENDING", "ACTIVE", "SUSPENDED", "DELETED"}]
  /\ storedListing \in {"none", "DRAFT", "PUBLISHED", "RESERVED", "SOLD", "ARCHIVED"}
  /\ storedStatus \in [Reservations -> ReservationStatuses]
  /\ {accepting, holder} \subseteq Reservations \cup {NoReservation}
  /\ accepting # NoReservation => storedStatus[accepting] = "ACCEPTED"
  /\ direct \in BOOLEAN

LEMMA TypeInit == S!Init => Typed
BY DEF S!Init, Typed, S!Users, ReservationStatuses, S!NoReservation, NoReservation

LEMMA TypeStep == Typed /\ [S!Next]_(S!vars) => Typed'
<1> SUFFICES ASSUME Typed, [S!Next]_(S!vars) PROVE Typed'
  OBVIOUS
<1> USE ReservationsAssumption DEF Typed, ReservationStatuses, S!NoReservation, NoReservation
<1>1. ASSUME NEW u \in S!Users, S!CallUser(u) PROVE Typed'
  BY <1>1 DEF S!CallUser
<1>2. CASE S!CreateListing \/ S!PublishListing
  BY <1>2 DEF S!CreateListing, S!PublishListing
<1>3. CASE S!CallListing
  BY <1>3 DEF S!CallListing
<1>4. ASSUME NEW r \in Reservations, S!CreateReservation(r) PROVE Typed'
  BY <1>4 DEF S!CreateReservation
<1>5. ASSUME NEW r \in Reservations, S!AcceptReservation(r) PROVE Typed'
  BY <1>5 DEF S!AcceptReservation
<1>6. ASSUME accepting = NoReservation, NEW r \in Reservations, S!CancelReservation(r)
      PROVE  Typed'
  BY <1>6 DEF S!CancelReservation, S!Restored
<1>7. ASSUME accepting = NoReservation, NEW r \in Reservations, S!CallReservation(r)
      PROVE  Typed'
  BY <1>7 DEF S!CallReservation
<1>8. CASE S!ReserveListing \/ S!RollBackAccepted
  BY <1>8 DEF S!ReserveListing, S!RollBackAccepted
<1>9. CASE UNCHANGED S!vars
  BY <1>9 DEF S!vars
<1> QED
  BY <1>1, <1>2, <1>3, <1>4, <1>5, <1>6, <1>7, <1>8, <1>9 DEF S!Next, S!Operation

\* A step of the service is a step of the branch or leaves its stores alone.
LEMMA BranchStep == [ServiceNext]_<<repositories, vars, stores>> => [S!Next]_(S!vars)
BY DEF ServiceNext, stores, S!vars

LEMMA TypeInvariant == ServiceSpec => []Typed
<1>1. ServiceInit => Typed
  BY TypeInit DEF ServiceInit
<1> QED
  BY <1>1, TypeStep, BranchStep, PTL DEF ServiceSpec

-----------------------------------------------------------------------------
(* What has ended stays ended. *)

\* What Final asks of one step.
KeepsEnded ==
  /\ storedListing = "SOLD" => storedListing' \in {"SOLD", "ARCHIVED"}
  /\ storedListing = "ARCHIVED" => UNCHANGED storedListing
  /\ \A r \in Reservations :
       storedStatus[r] \notin {"none", "PENDING", "ACCEPTED"} => storedStatus'[r] = storedStatus[r]
  /\ \A u \in S!Users : storedUser[u] = "DELETED" => storedUser'[u] = "DELETED"

\* Each call of a service starts from a status that is not terminal, and a cancellation
\* restores only a RESERVED listing.
LEMMA EndedStep == Typed /\ [S!Next]_(S!vars) => [KeepsEnded]_(S!vars)
<1> SUFFICES ASSUME Typed, S!Next PROVE KeepsEnded
  OBVIOUS
<1> USE DEF Typed, KeepsEnded
<1>1. ASSUME NEW u \in S!Users, S!CallUser(u) PROVE KeepsEnded
  BY <1>1 DEF S!CallUser, S!UserCalls
<1>2. CASE S!CreateListing \/ S!PublishListing
  BY <1>2 DEF S!CreateListing, S!PublishListing
<1>3. CASE S!CallListing
  BY <1>3 DEF S!CallListing, S!ListingCalls
<1>4. ASSUME NEW r \in Reservations, S!CreateReservation(r) PROVE KeepsEnded
  BY <1>4 DEF S!CreateReservation
<1>5. ASSUME NEW r \in Reservations, S!AcceptReservation(r) PROVE KeepsEnded
  BY <1>5 DEF S!AcceptReservation
<1>6. ASSUME NEW r \in Reservations, S!CancelReservation(r) PROVE KeepsEnded
  BY <1>6 DEF S!CancelReservation, S!Restored
<1>7. ASSUME NEW r \in Reservations, S!CallReservation(r) PROVE KeepsEnded
  BY <1>7 DEF S!CallReservation, S!ReservationCalls
<1>8. CASE S!ReserveListing \/ S!RollBackAccepted
  BY <1>8 DEF S!ReserveListing, S!RollBackAccepted, S!NoReservation, NoReservation
<1> QED
  BY <1>1, <1>2, <1>3, <1>4, <1>5, <1>6, <1>7, <1>8 DEF S!Next, S!Operation

\* A SOLD or ARCHIVED listing, a reservation that has ended and a DELETED user never
\* come back, whatever is called in whatever order (service.py:537; "Terminal
\* reservations cannot be modified", domain/reservations/service.py:43).
THEOREM EndedStaysEnded == ServiceSpec => Final
BY EndedStep, BranchStep, TypeInvariant, PTL
DEF ServiceSpec, Final, S!Final, KeepsEnded

-----------------------------------------------------------------------------
(* An acceptance takes the listing, or is rolled back. *)

\* The listing is taken by the only ACCEPTED reservation that is not half way.
Taken ==
  /\ \A r \in S!Accepted \ {accepting} :
       r = holder /\ storedListing \in {"RESERVED", "SOLD", "ARCHIVED"}
  /\ accepting # NoReservation => S!Accepted = {accepting}

LEMMA TakenInit == S!Init => Taken
BY DEF S!Init, Taken, S!Accepted, S!NoReservation, NoReservation

LEMMA TakenStep == Typed /\ Taken /\ [S!Next]_(S!vars) => Taken'
<1> SUFFICES ASSUME Typed, Taken, [S!Next]_(S!vars) PROVE Taken'
  OBVIOUS
<1> USE ReservationsAssumption DEF Typed, Taken, S!Accepted, S!NoReservation, NoReservation
<1>1. CASE UNCHANGED <<storedListing, storedStatus, accepting, holder>>
  BY <1>1
<1>2. CASE accepting = NoReservation /\ (S!CreateListing \/ S!PublishListing)
  BY <1>2 DEF S!CreateListing, S!PublishListing
<1>3. CASE accepting = NoReservation /\ S!CallListing
  BY <1>3 DEF S!CallListing, S!ListingCalls
<1>4. ASSUME accepting = NoReservation, NEW r \in Reservations, S!CreateReservation(r)
      PROVE  Taken'
  BY <1>4 DEF S!CreateReservation
<1>5. ASSUME accepting = NoReservation, NEW r \in Reservations, S!AcceptReservation(r)
      PROVE  Taken'
  BY <1>5 DEF S!AcceptReservation
<1>6. ASSUME accepting = NoReservation, NEW r \in Reservations, S!CancelReservation(r)
      PROVE  Taken'
  <2>1. S!Accepted' = S!Accepted \ {r}
    BY <1>6 DEF S!CancelReservation
  <2>2. CASE S!Accepted \subseteq {r}
    BY <1>6, <2>1, <2>2 DEF S!CancelReservation
  <2>3. CASE ~(S!Accepted \subseteq {r})
    <3>1. storedListing' = storedListing
      BY <1>6, <2>3 DEF S!CancelReservation, S!Restored
    <3> QED
      BY <1>6, <2>1, <3>1 DEF S!CancelReservation
  <2> QED
    BY <2>2, <2>3
<1>7. ASSUME accepting = NoReservation, NEW r \in Reservations, S!CallReservation(r)
      PROVE  Taken'
  BY <1>7 DEF S!CallReservation
<1>8. CASE S!ReserveListing
  BY <1>8 DEF S!ReserveListing
<1>9. CASE S!RollBackAccepted
  <2>1. S!Accepted' = {}
    BY <1>9 DEF S!RollBackAccepted
  <2> QED
    BY <1>9, <2>1 DEF S!RollBackAccepted
<1> QED
  BY <1>1, <1>2, <1>3, <1>4, <1>5, <1>6, <1>7, <1>8, <1>9
  DEF S!Next, S!Operation, S!CallUser, S!vars

\* However workflows and direct calls alternate, a reservation that is ACCEPTED after an
\* operation is the one the listing was last reserved for, as an acceptance that the
\* listing refuses is rolled back (service.py:431-445).
THEOREM AcceptedHasReserved == ServiceSpec => []AcceptedWasReserved
<1>1. ServiceInit => Typed /\ Taken
  BY TypeInit, TakenInit DEF ServiceInit
<1>2. Typed /\ Taken /\ [S!Next]_(S!vars) => (Typed /\ Taken)'
  BY TypeStep, TakenStep
<1>3. Typed /\ Taken => AcceptedWasReserved
  BY ReservationsAssumption
  DEF Typed, Taken, AcceptedWasReserved, S!AcceptedWasReserved, S!Accepted, S!NoReservation, NoReservation
<1> QED
  BY <1>1, <1>2, <1>3, BranchStep, PTL DEF ServiceSpec

-----------------------------------------------------------------------------
(* Refinement: until a service is called directly, Booking. *)

\* Only workflows have run: the listing is RESERVED exactly while a reservation is ACCEPTED
\* that is not half way, and nothing is reserved before the listing is published.
Undisturbed ==
  ~direct =>
    /\ storedListing \in {"none", "DRAFT", "PUBLISHED", "RESERVED"}
    /\ S!Accepted \ {accepting} # {} <=> storedListing = "RESERVED"
    /\ \A r, q \in S!Accepted : r = q

LEMMA UndisturbedInit == S!Init => Undisturbed
BY DEF S!Init, Undisturbed, S!Accepted

LEMMA UndisturbedStep == Typed /\ Undisturbed /\ [S!Next]_(S!vars) => Undisturbed'
<1> SUFFICES ASSUME Typed, Undisturbed, [S!Next]_(S!vars) PROVE Undisturbed'
  OBVIOUS
<1> USE ReservationsAssumption DEF Typed, Undisturbed, S!Accepted, S!NoReservation, NoReservation
<1>1. ASSUME NEW u \in S!Users, S!CallUser(u) PROVE Undisturbed'
  BY <1>1 DEF S!CallUser
<1>2. CASE S!CreateListing \/ S!PublishListing
  BY <1>2 DEF S!CreateListing, S!PublishListing
<1>3. CASE S!CallListing
  BY <1>3 DEF S!CallListing
<1>4. ASSUME NEW r \in Reservations, S!CreateReservation(r) PROVE Undisturbed'
  <2>1. S!Accepted' = S!Accepted
    BY <1>4 DEF S!CreateReservation
  <2> QED
    BY <1>4, <2>1 DEF S!CreateReservation
<1>5. ASSUME accepting = NoReservation, NEW r \in Reservations, S!AcceptReservation(r)
      PROVE  Undisturbed'
  <2>1. S!Accepted' = {r} /\ S!Accepted = {}
    BY <1>5 DEF S!AcceptReservation
  <2> QED
    BY <1>5, <2>1 DEF S!AcceptReservation
<1>6. ASSUME accepting = NoReservation, NEW r \in Reservations, S!CancelReservation(r)
      PROVE  Undisturbed'
  <2>1. S!Accepted' = S!Accepted \ {r}
    BY <1>6 DEF S!CancelReservation
  <2>2. CASE S!Accepted = {r}
    BY <1>6, <2>1, <2>2 DEF S!CancelReservation, S!Restored
  <2>3. CASE r \notin S!Accepted
    BY <1>6, <2>1, <2>3 DEF S!CancelReservation, S!Restored
  <2>4. ~direct => S!Accepted = {r} \/ r \notin S!Accepted
    OBVIOUS
  <2> QED
    BY <1>6, <2>2, <2>3, <2>4 DEF S!CancelReservation
<1>7. ASSUME NEW r \in Reservations, S!CallReservation(r) PROVE Undisturbed'
  BY <1>7 DEF S!CallReservation
<1>8. CASE S!ReserveListing
  BY <1>8 DEF S!ReserveListing
<1>9. CASE S!RollBackAccepted
  <2>1. S!Accepted' = S!Accepted \ {accepting} /\ accepting' \notin S!Accepted'
    BY <1>9 DEF S!RollBackAccepted
  <2> QED
    BY <1>9, <2>1 DEF S!RollBackAccepted
<1>10. CASE UNCHANGED S!vars
  BY <1>10 DEF S!vars
<1> QED
  BY <1>1, <1>2, <1>3, <1>4, <1>5, <1>6, <1>7, <1>8, <1>9, <1>10 DEF S!Next, S!Operation

\* What Booking sees of the reservations.
ServiceStatus == [r \in Reservations |-> IF r = accepting THEN "PENDING" ELSE storedStatus[r]]

\* Every workflow is the step of Booking of its name.
LEMMA BookingStep ==
  Typed /\ Undisturbed /\ [S!Next]_(S!vars) =>
    [~direct' => [S!Promise!Next]_(S!Promise!vars)]_(S!vars)
<1> SUFFICES ASSUME Typed, Undisturbed, S!Next, ~direct'
             PROVE  [S!Promise!Next]_(S!Promise!vars)
  BY DEF S!vars
<1> USE ReservationsAssumption DEF Typed, S!NoReservation, NoReservation
<1>a. UNCHANGED <<storedListing, ServiceStatus>> => UNCHANGED S!Promise!vars
  BY DEF S!Promise!vars, ServiceStatus
<1>1. ASSUME NEW u \in S!Users, S!CallUser(u) PROVE UNCHANGED S!Promise!vars
  BY <1>1, <1>a DEF S!CallUser, ServiceStatus
<1>2. CASE S!CreateListing
  <2>1. ServiceStatus' = ServiceStatus
    BY <1>2 DEF S!CreateListing, ServiceStatus
  <2>2. S!Promise!Draft
    BY <1>2, <2>1 DEF S!CreateListing, S!Promise!Draft, ServiceStatus
  <2> QED
    BY <2>2 DEF S!Promise!Next
<1>3. CASE S!PublishListing
  <2>1. ServiceStatus' = ServiceStatus
    BY <1>3 DEF S!PublishListing, ServiceStatus
  <2>2. S!Promise!Publish
    BY <1>3, <2>1 DEF S!PublishListing, S!Promise!Publish, ServiceStatus
  <2> QED
    BY <2>2 DEF S!Promise!Next
<1>4. ASSUME accepting = NoReservation, NEW r \in Reservations, S!CreateReservation(r)
      PROVE  S!Promise!Next
  <2>1. ServiceStatus[r] = "none" /\ ServiceStatus' = [ServiceStatus EXCEPT ![r] = "PENDING"]
    BY <1>4 DEF S!CreateReservation, ServiceStatus
  <2>2. S!Promise!Reserve(r)
    BY <1>4, <2>1 DEF S!CreateReservation, S!Promise!Reserve, ServiceStatus
  <2> QED
    BY <2>2 DEF S!Promise!Next
<1>5. ASSUME accepting = NoReservation, NEW r \in Reservations, S!AcceptReservation(r)
      PROVE  UNCHANGED S!Promise!vars
  <2>1. ServiceStatus' = ServiceStatus
    BY <1>5 DEF S!AcceptReservation, ServiceStatus
  <2> QED
    BY <1>5, <1>a, <2>1 DEF S!AcceptReservation
<1>6. ASSUME accepting = NoReservation, NEW r \in Reservations, S!CancelReservation(r)
      PROVE  S!Promise!Next
  <2>1. S!Restored(r) = IF storedStatus[r] = "ACCEPTED" THEN "PUBLISHED" ELSE storedListing
    BY <1>6 DEF S!Restored, Undisturbed, S!Accepted, S!CancelReservation
  <2>2. /\ ServiceStatus[r] = storedStatus[r]
        /\ ServiceStatus' = [ServiceStatus EXCEPT ![r] = "CANCELLED"]
    BY <1>6 DEF S!CancelReservation, ServiceStatus
  <2>3. S!Promise!Cancel(r)
    BY <1>6, <2>1, <2>2 DEF S!CancelReservation, S!Promise!Cancel, ServiceStatus
  <2> QED
    BY <2>3 DEF S!Promise!Next
<1>7. ~S!CallListing /\ \A r \in Reservations : ~S!CallReservation(r)
  BY DEF S!CallListing, S!CallReservation
<1>8. CASE S!ReserveListing
  <2>1. /\ accepting \in Reservations /\ ServiceStatus[accepting] = "PENDING"
        /\ ServiceStatus' = [ServiceStatus EXCEPT ![accepting] = "ACCEPTED"]
    BY <1>8 DEF S!ReserveListing, ServiceStatus
  <2> PICK r \in Reservations : r = accepting
    BY <2>1
  <2>2. S!Promise!Accept(r)
    BY <1>8, <2>1 DEF S!ReserveListing, S!Promise!Accept, ServiceStatus
  <2> QED
    BY <2>2 DEF S!Promise!Next
<1>9. CASE S!RollBackAccepted
  <2>1. ServiceStatus' = ServiceStatus
    BY <1>9 DEF S!RollBackAccepted, ServiceStatus
  <2> QED
    BY <1>9, <1>a, <2>1 DEF S!RollBackAccepted
<1> QED
  BY <1>1, <1>2, <1>3, <1>4, <1>5, <1>6, <1>7, <1>8, <1>9 DEF S!Next, S!Operation

\* Without direct calls the workflows over the services implement Booking.
THEOREM ServicesKeepBooking == ServiceSpec => S!BookingKept
<1>1. ServiceInit => S!Promise!Init
  BY ReservationsAssumption
  DEF ServiceInit, S!Init, S!Promise!Init, S!NoReservation, NoReservation
<1>2. ServiceInit => Typed /\ Undisturbed
  BY TypeInit, UndisturbedInit DEF ServiceInit
<1>3. Typed /\ Undisturbed /\ [S!Next]_(S!vars) => (Typed /\ Undisturbed)'
  BY TypeStep, UndisturbedStep
<1> QED
  BY <1>1, <1>2, <1>3, BookingStep, BranchStep, PTL DEF ServiceSpec, S!BookingKept

-----------------------------------------------------------------------------
(* Over repositories: types, and what has images. *)

ListingOut == listing \notin {"none", "DRAFT"}

\* Requests hold the reservation they are about, and there are none before the listing
\* is published.
Rows ==
  /\ TypeOK
  /\ \A t \in Threads : at[t] \notin {"idle", "gate", "publish"} => res[t] \in Reservations /\ ListingOut
  /\ \A r \in Reservations : status[r] # "none" => ListingOut

LEMMA RowsInit == Init => Rows
<1> SUFFICES ASSUME Init PROVE Rows
  OBVIOUS
<1>1. ready \in 0..MaxReady
  BY BoundAssumption DEF Init
<1>2. TypeOK
  BY <1>1 DEF Init, TypeOK, Steps, Restoring
<1> QED
  BY <1>2 DEF Init, Rows

LEMMA RowsStep == Rows /\ [Next]_vars => Rows'
<1> SUFFICES ASSUME Rows, [Next]_vars PROVE Rows'
  OBVIOUS
<1> USE BoundAssumption
    DEF Rows, TypeOK, ListingOut, Steps, Restoring, Accepting, Go, bounds, rows
<1>0. stale' \in BOOLEAN
  BY DEF Next, vars
<1>1. ASSUME NEW u \in Users, ActivateUser(u) PROVE Rows'
  BY <1>0, <1>1 DEF ActivateUser
<1>2. CASE ImagesChange \/ CreateListing
  BY <1>0, <1>2 DEF ImagesChange, CreateListing
<1>3. ASSUME NEW t \in Threads, PublishListing(t) \/ CountReady(t) \/ SavePublished(t) PROVE Rows'
  BY <1>0, <1>3 DEF PublishListing, CountReady, SavePublished
<1>4. ASSUME NEW t \in Threads, NEW r \in Reservations,
             CreateReservation(t, r) \/ AcceptReservation(t, r) \/ CancelReservation(t, r)
      PROVE  Rows'
  BY <1>0, <1>4 DEF CreateReservation, AcceptReservation, CancelReservation
<1>5. ASSUME NEW t \in Threads, AddReservation(t) PROVE Rows'
  BY <1>0, <1>5 DEF AddReservation
<1>6. ASSUME NEW t \in Threads, ScanAccepted(t) \/ SaveAccepted(t) \/ SaveReserved(t) PROVE Rows'
  BY <1>0, <1>6 DEF ScanAccepted, SaveAccepted, SaveReserved
<1>7. ASSUME NEW t \in Threads, RollBack(t) PROVE Rows'
  BY <1>0, <1>7 DEF RollBack
<1>8. ASSUME NEW t \in Threads, SaveCancelled(t) \/ ScanOthers(t) \/ ReadListing(t) \/ SaveRestored(t)
      PROVE  Rows'
  BY <1>0, <1>8 DEF SaveCancelled, ScanOthers, ReadListing, SaveRestored
<1>9. ASSUME NEW t \in Threads, Raise(t) PROVE Rows'
  BY <1>0, <1>9 DEF Raise, RaisesTo
<1>11. ASSUME NEW t \in Threads, RaiseLate(t) PROVE Rows'
  <2>1. CASE at[t] = "reserve"
    BY <1>0, <1>11, <2>1 DEF RaiseLate, RaisesTo
  <2>2. CASE at[t] = "accept"
    BY <1>0, <1>11, <2>2 DEF RaiseLate, RaisesTo
  <2>3. CASE at[t] = "cancel"
    BY <1>0, <1>11, <2>3 DEF RaiseLate, RaisesTo
  <2> QED
    BY <1>11, <2>1, <2>2, <2>3 DEF RaiseLate
<1>10. CASE Crash \/ UNCHANGED vars
  BY <1>0, <1>10 DEF Crash, vars
<1> QED
  BY <1>1, <1>2, <1>3, <1>4, <1>5, <1>6, <1>7, <1>8, <1>9, <1>10, <1>11 DEF Next, Step

\* Images counted before the save are there unless one was deleted.
Images ==
  ~lost => /\ ListingOut => ready >= Required
           /\ \A t \in Threads : at[t] = "publish" => ready >= Required

LEMMA ImagesInit == Init => Images
BY DEF Init, Images, ListingOut

LEMMA ImagesStep == Rows /\ Images /\ [Next]_vars => Images'
<1> SUFFICES ASSUME Rows, Images, [Next]_vars PROVE Images'
  OBVIOUS
<1> USE DEF Rows, TypeOK, Images, ListingOut, Required, Go, bounds, rows
<1>1. ASSUME NEW u \in Users, ActivateUser(u) PROVE Images'
  BY <1>1 DEF ActivateUser
<1>2. CASE ImagesChange
  <2>1. ~lost' => ~lost /\ (~(ready' < ready) \/ ~Counted)
    BY <1>2, Zenon DEF ImagesChange
  <2>2. ready' \in Nat /\ UNCHANGED <<listing, at>>
    BY <1>2, BoundAssumption DEF ImagesChange
  <2> QED
    BY <2>1, <2>2, BoundAssumption DEF Counted
<1>3. CASE CreateListing
  BY <1>3 DEF CreateListing
<1>4. ASSUME NEW t \in Threads, PublishListing(t) \/ CountReady(t) \/ SavePublished(t)
      PROVE  Images'
  BY <1>4, BoundAssumption DEF PublishListing, CountReady, SavePublished
<1>5. ASSUME NEW t \in Threads, NEW r \in Reservations,
             CreateReservation(t, r) \/ AcceptReservation(t, r) \/ CancelReservation(t, r)
      PROVE  Images'
  BY <1>5 DEF CreateReservation, AcceptReservation, CancelReservation
<1>6. ASSUME NEW t \in Threads,
             AddReservation(t) \/ ScanAccepted(t) \/ SaveAccepted(t) \/ SaveReserved(t) \/ RollBack(t)
      PROVE  Images'
  BY <1>6 DEF AddReservation, ScanAccepted, SaveAccepted, SaveReserved, RollBack
<1>7. ASSUME NEW t \in Threads,
             SaveCancelled(t) \/ ScanOthers(t) \/ ReadListing(t) \/ SaveRestored(t) \/ Raise(t)
      PROVE  Images'
  BY <1>7 DEF SaveCancelled, ScanOthers, ReadListing, SaveRestored, Raise, RaisesTo
<1>8. ASSUME NEW t \in Threads, RaiseLate(t) PROVE Images'
  BY <1>8 DEF RaiseLate, RaisesTo, Accepting, Restoring
<1>9. CASE Crash \/ UNCHANGED vars
  BY <1>9 DEF Crash, vars
<1> QED
  BY <1>1, <1>2, <1>3, <1>4, <1>5, <1>6, <1>7, <1>8, <1>9 DEF Next, Step

\* A step of the service is a step over repositories or leaves them alone.
LEMMA RepositoryStep == [ServiceNext]_<<repositories, vars, stores>> => [Next]_vars
BY DEF ServiceNext

\* Whatever requests overlap, and whether or not calls raise, a listing that was published
\* has two READY images until one is deleted (service.py:214).
THEOREM PublishedListingHasImages == ServiceSpec => []PublishedHasImages
<1>1. ServiceInit => Rows /\ Images
  BY RowsInit, ImagesInit DEF ServiceInit
<1>2. Images => PublishedHasImages
  BY DEF Images, PublishedHasImages, ListingOut
<1> QED
  BY <1>1, <1>2, RowsStep, ImagesStep, RepositoryStep, PTL DEF ServiceSpec

-----------------------------------------------------------------------------
(* Over repositories, whatever requests overlap.                           *)

\* What requests remember, whether or not it still holds: a reservation that is added is
\* not there yet and added by nobody else, every other request is about one that is there.
Locals ==
  /\ \A t \in Threads :
       /\ at[t] = "add" =>
            /\ status[res[t]] = "none"
            /\ \A u \in Threads : at[u] = "add" /\ res[u] = res[t] => u = t
       /\ at[t] \notin {"idle", "gate", "publish", "add"} => status[res[t]] # "none"
       /\ at[t] \in {"scan", "accept"} \cup Accepting => old[t] = "PENDING"
       /\ at[t] = "cancel" => old[t] \in {"PENDING", "ACCEPTED"}
       /\ at[t] = "rollback" => faults >= 1
  /\ late => faults >= 1

LEMMA LocalsInit == Init => Locals
BY DEF Init, Locals, Accepting

LEMMA LocalsStep == Rows /\ Locals /\ [Next]_vars => Locals'
<1> SUFFICES ASSUME Rows, Locals, [Next]_vars PROVE Locals'
  OBVIOUS
<1> USE DEF Rows, TypeOK, Locals, Steps, Restoring, Accepting, Go, bounds, rows
<1>1. CASE (\E u \in Users : ActivateUser(u)) \/ ImagesChange \/ CreateListing \/ UNCHANGED vars
  BY <1>1 DEF ActivateUser, ImagesChange, CreateListing, vars
<1>2. ASSUME NEW t \in Threads, PublishListing(t) \/ CountReady(t) \/ SavePublished(t) PROVE Locals'
  BY <1>2 DEF PublishListing, CountReady, SavePublished
<1>3. ASSUME NEW t \in Threads, NEW r \in Reservations, CreateReservation(t, r) PROVE Locals'
  BY <1>3 DEF CreateReservation
<1>4. ASSUME NEW t \in Threads, NEW r \in Reservations,
             AcceptReservation(t, r) \/ CancelReservation(t, r)
      PROVE  Locals'
  BY <1>4 DEF AcceptReservation, CancelReservation
<1>5. ASSUME NEW t \in Threads, AddReservation(t) PROVE Locals'
  BY <1>5 DEF AddReservation
<1>6. ASSUME NEW t \in Threads, ScanAccepted(t) \/ SaveReserved(t) PROVE Locals'
  BY <1>6 DEF ScanAccepted, SaveReserved
<1>7. ASSUME NEW t \in Threads, SaveAccepted(t) PROVE Locals'
  BY <1>7 DEF SaveAccepted
<1>8. ASSUME NEW t \in Threads, RollBack(t) PROVE Locals'
  BY <1>8 DEF RollBack
<1>9. ASSUME NEW t \in Threads, SaveCancelled(t) PROVE Locals'
  BY <1>9 DEF SaveCancelled
<1>10. ASSUME NEW t \in Threads, ScanOthers(t) \/ ReadListing(t) \/ SaveRestored(t) PROVE Locals'
  BY <1>10 DEF ScanOthers, ReadListing, SaveRestored
<1>11. ASSUME NEW t \in Threads, Raise(t) PROVE Locals'
  BY <1>11 DEF Raise, RaisesTo
<1>12. ASSUME NEW t \in Threads, RaiseLate(t) PROVE Locals'
  <2>1. CASE at[t] = "reserve"
    BY <1>12, <2>1 DEF RaiseLate, RaisesTo
  <2>2. CASE at[t] = "accept"
    BY <1>12, <2>2 DEF RaiseLate, RaisesTo
  <2>3. CASE at[t] = "cancel"
    BY <1>12, <2>3 DEF RaiseLate, RaisesTo
  <2> QED
    BY <1>12, <2>1, <2>2, <2>3 DEF RaiseLate
<1>13. CASE Crash
  BY <1>13 DEF Crash
<1> QED
  BY <1>1, <1>2, <1>3, <1>4, <1>5, <1>6, <1>7, <1>8, <1>9, <1>10, <1>11, <1>12, <1>13 DEF Next, Step

\* Until something that was checked ceases to hold, what every request has checked holds.
AllHold == ~stale => \A t \in Threads : Holds(t)

LEMMA HoldsInit == Init => AllHold
BY DEF Init, AllHold, Holds, Accepting

\* A request keeps up with what it does itself; what others do is what stale tells.
LEMMA HoldsStep == Rows /\ AllHold /\ [Next]_vars => AllHold'
<1> SUFFICES ASSUME Rows, AllHold, [Next]_vars, ~stale', NEW t \in Threads PROVE Holds(t)'
  BY DEF AllHold
<1>1. CASE UNCHANGED vars
  BY <1>1 DEF AllHold, Holds, vars, rows, Accepted
<1>2. CASE at'[t] = at[t] /\ Next
  BY <1>2, Zenon DEF Next, Outdated, AllHold
<1>3. CASE at'[t] # at[t] /\ Next
  <2>1. Step /\ Holds(t)
    BY <1>3 DEF Next, AllHold
  <2> USE DEF Rows, TypeOK, Holds, Accepting, Restoring, Go, bounds, rows
  <2>a. UNCHANGED status => Accepted' = Accepted
    BY DEF Accepted
  <2>b. \A u \in Threads : at' = [at EXCEPT ![u] = at'[u]] => u = t
    BY <1>3
  <2>2. PublishListing(t) \/ CountReady(t) => Holds(t)'
    BY <2>1, <2>a DEF PublishListing, CountReady
  <2>3. \A r \in Reservations : AcceptReservation(t, r) \/ CancelReservation(t, r) => Holds(t)'
    BY <2>1, <2>a DEF AcceptReservation, CancelReservation
  <2>4. ScanAccepted(t) \/ ScanOthers(t) \/ ReadListing(t) => Holds(t)'
    BY <2>1, <2>a DEF ScanAccepted, ScanOthers, ReadListing
  <2>5. SaveAccepted(t) => Holds(t)'
    BY <2>1 DEF SaveAccepted
  <2>6. SaveCancelled(t) => Holds(t)'
    BY <2>1 DEF SaveCancelled
  <2>7. Raise(t) => Holds(t)'
    BY <2>1, <2>a DEF Raise, RaisesTo
  <2>8. RaiseLate(t) => Holds(t)'
    BY <2>1, <2>a DEF RaiseLate, RaisesTo
  <2>9. CASE at'[t] \in {"idle", "add"}
    BY <2>9
  <2>10. CASE at'[t] \notin {"idle", "add"}
    <3>1. ~Crash /\ (\A u \in Users : ~ActivateUser(u)) /\ ~ImagesChange /\ ~CreateListing
      BY <1>3, <2>10 DEF Crash, ActivateUser, ImagesChange, CreateListing
    <3>2. PICK u \in Threads :
            \/ PublishListing(u) \/ CountReady(u)
            \/ \E r \in Reservations : AcceptReservation(u, r) \/ CancelReservation(u, r)
            \/ ScanAccepted(u) \/ SaveAccepted(u) \/ SaveCancelled(u) \/ ScanOthers(u)
            \/ ReadListing(u) \/ Raise(u) \/ RaiseLate(u)
            \/ (at'[u] \in {"idle", "add"} /\ \A v \in Threads : v # u => at'[v] = at[v])
      BY <2>1, <3>1
      DEF Step, SavePublished, CreateReservation, AddReservation, SaveReserved, RollBack, SaveRestored
    <3>3. u = t
      BY <1>3, <3>2
      DEF PublishListing, CountReady, AcceptReservation, CancelReservation, ScanAccepted,
          SaveAccepted, SaveCancelled, ScanOthers, ReadListing, Raise, RaiseLate
    <3> QED
      BY <2>2, <2>3, <2>4, <2>5, <2>6, <2>7, <2>8, <2>10, <3>2, <3>3
  <2> QED
    BY <2>9, <2>10
<1> QED
  BY <1>1, <1>2, <1>3

-----------------------------------------------------------------------------
(* Over repositories: who has the listing. *)

Unique == \A r, q \in Accepted : r = q

\* Half way through an acceptance nobody else is, and its reservation is the ACCEPTED one.
Alone == \A t, u \in Threads : at[t] \in Accepting /\ at[u] \in Accepting => t = u

\* An acceptance that is over has the listing, until a second call raises, the process
\* crashes or the save of an acceptance raised too late.
Held ==
  crashes = 0 /\ faults <= 1 /\ ~late /\ Accepted # {} /\ (\A t \in Threads : at[t] \notin Accepting)
    => listing = "RESERVED"

\* While no call raises, a RESERVED listing has a reservation or is about to be released
\* or taken.
NotForgotten ==
  Calm /\ listing = "RESERVED" /\ (\A t \in Threads : at[t] \notin Restoring \cup Accepting)
    => Accepted # {}

Ownership == ~stale => Unique /\ Alone /\ Held /\ NotForgotten

LEMMA OwnershipInit == Init => Ownership
BY DEF Init, Ownership, Unique, Alone, Held, NotForgotten, Accepted, Accepting

LEMMA OwnershipStep ==
  Rows /\ Locals /\ AllHold /\ Ownership /\ [Next]_vars /\ AllHold' => Ownership'
<1> SUFFICES ASSUME Rows, Locals, AllHold, Ownership, [Next]_vars, AllHold', ~stale'
             PROVE  (Unique /\ Alone /\ Held /\ NotForgotten)'
  BY DEF Ownership
<1>n. /\ ~stale
      /\ Unique /\ Alone /\ Held /\ NotForgotten
      /\ \A t \in Threads : Holds(t) /\ Holds(t)'
  <2>1. ~stale
    BY Zenon DEF Next, vars
  <2>2. \A t \in Threads : Holds(t)'
    BY Zenon DEF AllHold
  <2> QED
    BY <2>1, <2>2, Zenon DEF Ownership, AllHold
<1> USE <1>n DEF Rows, TypeOK, Unique, Alone, Held, NotForgotten, Calm, ListingOut, Steps,
            Restoring, Accepting, Go, bounds, rows
<1>a. UNCHANGED status => Accepted' = Accepted
  BY DEF Accepted
<1>1. CASE (\E u \in Users : ActivateUser(u)) \/ ImagesChange \/ UNCHANGED vars
  BY <1>1, <1>a DEF ActivateUser, ImagesChange, vars
<1>2. CASE CreateListing
  <2>1. Accepted = {}
    BY <1>2 DEF CreateListing, Accepted
  <2> QED
    BY <1>2, <1>a, <2>1 DEF CreateListing
<1>3. ASSUME NEW t \in Threads, PublishListing(t) \/ CountReady(t)
      PROVE  (Unique /\ Alone /\ Held /\ NotForgotten)'
  BY <1>3, <1>a DEF PublishListing, CountReady
<1>4. ASSUME NEW t \in Threads, SavePublished(t) PROVE (Unique /\ Alone /\ Held /\ NotForgotten)'
  BY <1>4, <1>a DEF SavePublished, Holds
<1>5. ASSUME NEW t \in Threads, NEW r \in Reservations,
             CreateReservation(t, r) \/ AcceptReservation(t, r) \/ CancelReservation(t, r)
      PROVE  (Unique /\ Alone /\ Held /\ NotForgotten)'
  BY <1>5, <1>a DEF CreateReservation, AcceptReservation, CancelReservation
<1>6. ASSUME NEW t \in Threads, AddReservation(t) PROVE (Unique /\ Alone /\ Held /\ NotForgotten)'
  <2>1. Accepted' = Accepted
    BY <1>6 DEF AddReservation, Accepted, Locals
  <2> QED
    BY <1>6, <2>1 DEF AddReservation
<1>7. ASSUME NEW t \in Threads, ScanAccepted(t) PROVE (Unique /\ Alone /\ Held /\ NotForgotten)'
  BY <1>7, <1>a DEF ScanAccepted
<1>8. ASSUME NEW t \in Threads, SaveAccepted(t) PROVE (Unique /\ Alone /\ Held /\ NotForgotten)'
  <2>1. Accepted' = {res[t]} /\ \A u \in Threads : at[u] \notin {"reserve", "rollback"}
    BY <1>8 DEF SaveAccepted, Accepted, Holds
  <2> QED
    BY <1>8, <2>1 DEF SaveAccepted
<1>9. ASSUME NEW t \in Threads, SaveReserved(t) PROVE (Unique /\ Alone /\ Held /\ NotForgotten)'
  <2>1. res[t] \in Accepted
    BY <1>9 DEF SaveReserved, Accepted, Holds
  <2> QED
    BY <1>9, <1>a, <2>1 DEF SaveReserved
<1>10. ASSUME NEW t \in Threads, RollBack(t) PROVE (Unique /\ Alone /\ Held /\ NotForgotten)'
  <2>1. Accepted' = Accepted \ {res[t]} /\ res[t] \in Accepted /\ faults >= 1
    BY <1>10 DEF RollBack, Accepted, Holds, Locals
  <2>2. Accepted' = {}
    BY <2>1
  <2> QED
    BY <1>10, <2>1, <2>2 DEF RollBack
<1>11. ASSUME NEW t \in Threads, SaveCancelled(t) PROVE (Unique /\ Alone /\ Held /\ NotForgotten)'
  <2>1. Accepted' = Accepted \ {res[t]} /\ (res[t] \in Accepted => old[t] = "ACCEPTED")
    BY <1>11 DEF SaveCancelled, Accepted, Holds, Locals
  <2> QED
    BY <1>11, <2>1 DEF SaveCancelled
<1>12. ASSUME NEW t \in Threads, ScanOthers(t) PROVE (Unique /\ Alone /\ Held /\ NotForgotten)'
  BY <1>12, <1>a DEF ScanOthers
<1>13. ASSUME NEW t \in Threads, ReadListing(t) \/ SaveRestored(t)
      PROVE  (Unique /\ Alone /\ Held /\ NotForgotten)'
  <2>1. Accepted = {}
    BY <1>13 DEF ReadListing, SaveRestored, Holds
  <2> QED
    BY <1>13, <1>a, <2>1 DEF ReadListing, SaveRestored
<1>14. ASSUME NEW t \in Threads, Raise(t) PROVE (Unique /\ Alone /\ Held /\ NotForgotten)'
  BY <1>14, <1>a DEF Raise, RaisesTo, Locals
<1>15. ASSUME NEW t \in Threads, RaiseLate(t) PROVE (Unique /\ Alone /\ Held /\ NotForgotten)'
  <2>1. CASE at[t] = "reserve"
    BY <1>15, <1>a, <2>1 DEF RaiseLate, RaisesTo
  <2>2. CASE at[t] = "accept"
    <3>1. Accepted' = {res[t]}
      BY <1>15, <2>2 DEF RaiseLate, Accepted, Holds
    <3> QED
      BY <1>15, <2>2, <3>1 DEF RaiseLate, RaisesTo
  <2>3. CASE at[t] = "cancel"
    <3>1. Accepted' = Accepted \ {res[t]}
      BY <1>15, <2>3 DEF RaiseLate, Accepted
    <3> QED
      BY <1>15, <2>3, <3>1 DEF RaiseLate, RaisesTo
  <2> QED
    BY <1>15, <2>1, <2>2, <2>3 DEF RaiseLate
<1>16. CASE Crash
  BY <1>16, <1>a DEF Crash
<1> QED
  BY <1>1, <1>2, <1>3, <1>4, <1>5, <1>6, <1>7, <1>8, <1>9, <1>10, <1>11, <1>12, <1>13, <1>14,
     <1>15, <1>16 DEF Next, Step

\* What holds over repositories whatever overlaps.
OverlapInv == Rows /\ Locals /\ AllHold /\ Ownership

LEMMA OverlapInvariant == ServiceSpec => []OverlapInv
<1>1. ServiceInit => OverlapInv
  BY RowsInit, LocalsInit, HoldsInit, OwnershipInit DEF ServiceInit, OverlapInv
<1>2. OverlapInv /\ [Next]_vars => OverlapInv'
  BY RowsStep, LocalsStep, HoldsStep, OwnershipStep DEF OverlapInv
<1> QED
  BY <1>1, <1>2, RepositoryStep, PTL DEF ServiceSpec

LEMMA OneAtMost == Unique => OneAccepted
<1> SUFFICES ASSUME Unique PROVE OneAccepted
  OBVIOUS
<1>1. CASE Accepted = {}
  BY <1>1, FS_EmptySet DEF OneAccepted
<1>2. ASSUME NEW r \in Accepted PROVE OneAccepted
  <2>1. Accepted = {r}
    BY DEF Unique
  <2>2. Cardinality(Accepted) = 1
    BY <2>1, FS_Singleton, Zenon
  <2> QED
    BY <2>2 DEF OneAccepted
<1> QED
  BY <1>1, <1>2

\* Whatever requests overlap, until something a request had checked ceases to hold before
\* its end: a reservation that is ACCEPTED is the only one and, once its acceptance is over,
\* has the listing, though one call raised on the way (service.py:369-393).
THEOREM AcceptanceIsWhole == ServiceSpec => []AcceptedHoldsListing
<1>1. OverlapInv => AcceptedHoldsListing
  BY OneAtMost DEF OverlapInv, Rows, Ownership, Held, AcceptedHoldsListing
<1> QED
  BY <1>1, OverlapInvariant, PTL

-----------------------------------------------------------------------------
(* Refinement: until then, and while no call raises and the process stays  *)
(* up, Booking.                                                            *)

\* What Booking sees.
SeenStatus == [r \in Reservations |-> IF InHand(r) THEN "PENDING" ELSE status[r]]

SeenListing == IF Released THEN "PUBLISHED" ELSE listing

\* An acceptance is one step of Booking, at the save of the listing; a cancellation one, at
\* the save of the reservation.
LEMMA OverlapStep ==
  OverlapInv /\ OverlapInv' /\ [Next]_vars =>
    [Calm' /\ ~stale' => [Promise!Next]_(Promise!vars)]_vars
<1> SUFFICES ASSUME OverlapInv, OverlapInv', Next, Calm', ~stale'
             PROVE  [Promise!Next]_(Promise!vars)
  BY DEF vars
<1>n. /\ ~stale /\ Rows /\ Locals /\ Rows' /\ Calm
      /\ Unique /\ Alone /\ Held /\ NotForgotten
      /\ Unique' /\ Alone' /\ Held' /\ NotForgotten'
      /\ \A t \in Threads : Holds(t) /\ Holds(t)'
  <2>1. ~stale
    BY Zenon DEF Next
  <2>2. Rows /\ Locals /\ Rows'
    BY DEF OverlapInv
  <2>3. Unique /\ Alone /\ Held /\ NotForgotten /\ \A t \in Threads : Holds(t)
    BY <2>1, Zenon DEF OverlapInv, Ownership, AllHold
  <2>4. Unique' /\ Alone' /\ Held' /\ NotForgotten' /\ \A t \in Threads : Holds(t)'
    BY Zenon DEF OverlapInv, Ownership, AllHold
  <2>5. Calm
    <3>1. UNCHANGED <<faults, crashes>> \/ faults' = faults + 1 \/ crashes' = crashes + 1
      BY DEF Next, Step, ActivateUser, ImagesChange, CreateListing, PublishListing, CountReady,
             SavePublished, CreateReservation, AcceptReservation, CancelReservation, AddReservation,
             ScanAccepted, SaveAccepted, SaveReserved, RollBack, SaveCancelled, ScanOthers,
             ReadListing, SaveRestored, Raise, RaiseLate, Crash, bounds
    <3> QED
      BY <2>2, <3>1 DEF Rows, TypeOK, Calm
  <2> QED
    BY <2>1, <2>2, <2>3, <2>4, <2>5
<1>a. UNCHANGED <<SeenListing, SeenStatus>> => UNCHANGED Promise!vars
  BY DEF Promise!vars, SeenListing, SeenStatus
<1>c. ~Crash /\ \A t \in Threads : ~Raise(t) /\ ~RaiseLate(t)
  BY <1>n DEF Raise, RaiseLate, Crash, Calm, Rows, TypeOK
<1>d. UNCHANGED status => Accepted' = Accepted
  BY DEF Accepted
<1> USE <1>n DEF Rows, TypeOK, ListingOut, Calm, Steps, Restoring, Accepting, Go, bounds, rows
<1>b. UNCHANGED <<listing, status>>
      /\ (\A t \in Threads :
            /\ at'[t] \in Restoring <=> at[t] \in Restoring
            /\ at'[t] \in Accepting <=> at[t] \in Accepting
            /\ at[t] \in Accepting => res'[t] = res[t])
      => UNCHANGED Promise!vars
  <2> SUFFICES ASSUME UNCHANGED <<listing, status>>,
                      \A t \in Threads :
                        /\ at'[t] \in Restoring <=> at[t] \in Restoring
                        /\ at'[t] \in Accepting <=> at[t] \in Accepting
                        /\ at[t] \in Accepting => res'[t] = res[t]
               PROVE  UNCHANGED Promise!vars
    OBVIOUS
  <2>1. \A r : InHand(r)' <=> InHand(r)
    BY DEF InHand
  <2>2. Released' <=> Released
    BY <2>1, <1>d DEF Released
  <2> QED
    BY <1>a, <2>1, <2>2 DEF SeenListing, SeenStatus
\* A reservation in hand is the only ACCEPTED one.
<1>h. \A t \in Threads : at[t] \in Accepting => Accepted = {res[t]} /\ Released
  BY DEF Holds, Unique, Accepted, Released, InHand
<1>i. \A r : InHand(r) => r \in Accepted
  BY DEF InHand, Holds, Accepted
<1>1. CASE (\E u \in Users : ActivateUser(u)) \/ ImagesChange
  BY <1>1, <1>b DEF ActivateUser, ImagesChange
<1>2. CASE CreateListing
  <2>1. \A t \in Threads : at[t] \in {"idle", "gate", "publish"}
    BY <1>2 DEF CreateListing
  <2>2. ~Released /\ ~Released' /\ \A r : ~InHand(r) /\ ~InHand(r)'
    BY <1>2, <2>1 DEF CreateListing, Released, InHand
  <2>3. SeenStatus' = SeenStatus /\ SeenListing = "none" /\ SeenListing' = "DRAFT"
    BY <1>2, <2>2 DEF CreateListing, SeenStatus, SeenListing
  <2> QED
    BY <2>3 DEF Promise!Next, Promise!Draft, SeenStatus, SeenListing
<1>3. ASSUME NEW t \in Threads, PublishListing(t) \/ CountReady(t)
      PROVE  UNCHANGED Promise!vars
  BY <1>3, <1>b DEF PublishListing, CountReady
<1>4. ASSUME NEW t \in Threads, SavePublished(t) PROVE [Promise!Next]_(Promise!vars)
  <2>1. CASE listing = "PUBLISHED"
    BY <1>4, <1>b, <2>1 DEF SavePublished
  <2>2. CASE listing = "DRAFT"
    <3>1. \A u \in Threads : at[u] \in {"idle", "gate", "publish"}
      BY <2>2
    <3>2. ~Released /\ ~Released' /\ \A r : ~InHand(r) /\ ~InHand(r)'
      BY <1>4, <3>1 DEF SavePublished, Released, InHand
    <3>3. SeenStatus' = SeenStatus /\ SeenListing = "DRAFT" /\ SeenListing' = "PUBLISHED"
      BY <1>4, <2>2, <3>2 DEF SavePublished, SeenStatus, SeenListing
    <3> QED
      BY <3>3 DEF Promise!Next, Promise!Publish, SeenStatus, SeenListing
  <2> QED
    BY <1>4, <2>1, <2>2 DEF SavePublished, Holds
<1>5. ASSUME NEW t \in Threads, NEW r \in Reservations,
             CreateReservation(t, r) \/ AcceptReservation(t, r) \/ CancelReservation(t, r)
      PROVE  UNCHANGED Promise!vars
  BY <1>5, <1>b DEF CreateReservation, AcceptReservation, CancelReservation
<1>6. ASSUME NEW t \in Threads, AddReservation(t) PROVE Promise!Next
  <2> PICK r \in Reservations : r = res[t]
    BY <1>6 DEF AddReservation
  <2>1. status[r] = "none" /\ status' = [status EXCEPT ![r] = "PENDING"] /\ Accepted' = Accepted
    BY <1>6 DEF AddReservation, Locals, Accepted
  <2>2. (\A q : InHand(q)' <=> InHand(q)) /\ ~InHand(r)
    BY <1>6, <2>1, <1>i DEF AddReservation, InHand, Accepted
  <2>3. Released' <=> Released
    BY <1>6, <2>1, <2>2 DEF AddReservation, Released
  <2>4. SeenStatus[r] = "none" /\ SeenStatus' = [SeenStatus EXCEPT ![r] = "PENDING"]
    BY <2>1, <2>2 DEF SeenStatus
  <2>5. SeenListing \in {"PUBLISHED", "RESERVED"} /\ SeenListing' = SeenListing
    BY <1>6, <2>3 DEF AddReservation, SeenListing
  <2>6. Promise!Reserve(r)
    BY <2>4, <2>5 DEF Promise!Reserve, SeenStatus, SeenListing
  <2> QED
    BY <2>6 DEF Promise!Next
<1>7. ASSUME NEW t \in Threads, ScanAccepted(t) PROVE UNCHANGED Promise!vars
  BY <1>7, <1>b DEF ScanAccepted
<1>8. ASSUME NEW t \in Threads, SaveAccepted(t) PROVE UNCHANGED Promise!vars
  <2>1. Accepted = {} /\ Accepted' = {res[t]} /\ status[res[t]] = "PENDING"
    BY <1>8 DEF SaveAccepted, Accepted, Holds
  <2>2. (\A r : ~InHand(r)) /\ \A r : InHand(r)' <=> r = res[t]
    BY <1>8, <2>1, <1>i DEF SaveAccepted, InHand
  <2>3. SeenStatus' = SeenStatus
    BY <1>8, <2>1, <2>2 DEF SaveAccepted, SeenStatus
  <2>4. Released'
    BY <1>8, <2>1, <2>2 DEF SaveAccepted, Released
  <2>5. Released \/ listing = "PUBLISHED"
    BY <1>8, <2>1 DEF SaveAccepted, Released, NotForgotten
  <2>6. SeenListing' = SeenListing
    BY <2>4, <2>5 DEF SeenListing
  <2> QED
    BY <1>a, <2>3, <2>6
<1>9. ASSUME NEW t \in Threads, SaveReserved(t) PROVE Promise!Next
  <2> PICK r \in Reservations : r = res[t]
    BY <1>9 DEF SaveReserved
  <2>1. Accepted = {r} /\ Accepted' = {r} /\ Released
    BY <1>9, <1>d, <1>h DEF SaveReserved
  <2>2. (\A q : InHand(q) <=> q = r) /\ \A q : ~InHand(q)'
    BY <1>9, <2>1, <1>i DEF SaveReserved, InHand, Alone
  <2>3. ~Released'
    BY <2>1, <2>2 DEF Released
  <2>4. SeenListing = "PUBLISHED" /\ SeenListing' = "RESERVED"
    BY <1>9, <2>1, <2>3 DEF SaveReserved, SeenListing
  <2>5. SeenStatus[r] = "PENDING" /\ SeenStatus' = [SeenStatus EXCEPT ![r] = "ACCEPTED"]
    <3>1. UNCHANGED status /\ status[r] = "ACCEPTED"
      BY <1>9, <2>1 DEF SaveReserved, Accepted
    <3>2. SeenStatus' = [q \in Reservations |-> status[q]]
      BY <2>2, <3>1 DEF SeenStatus
    <3>3. SeenStatus = [q \in Reservations |-> IF q = r THEN "PENDING" ELSE status[q]]
      BY <2>2 DEF SeenStatus
    <3> QED
      BY <3>1, <3>2, <3>3
  <2>6. Promise!Accept(r)
    BY <2>4, <2>5 DEF Promise!Accept, SeenStatus, SeenListing
  <2> QED
    BY <2>6 DEF Promise!Next
<1>10. ASSUME NEW t \in Threads, RollBack(t) PROVE FALSE
  BY <1>10 DEF RollBack, Locals
<1>11. ASSUME NEW t \in Threads, SaveCancelled(t) PROVE [Promise!Next]_(Promise!vars)
  <2> PICK r \in Reservations : r = res[t]
    BY <1>11 DEF SaveCancelled
  <2>1. status' = [status EXCEPT ![r] = "CANCELLED"] /\ Accepted' = Accepted \ {r}
    BY <1>11 DEF SaveCancelled, Accepted
  <2>2. \A q : InHand(q)' <=> InHand(q)
    BY <1>11 DEF SaveCancelled, InHand
  <2>3. ~InHand(r)
    <3>1. ASSUME NEW u \in Threads, at[u] \in Accepting, res[u] = r PROVE FALSE
      <4>1. at'[u] = at[u] /\ res'[u] = r
        BY <1>11, <3>1 DEF SaveCancelled
      <4>2. status'[r] = "ACCEPTED"
        BY <3>1, <4>1 DEF Holds
      <4> QED
        BY <2>1, <4>2
    <3> QED
      BY <3>1 DEF InHand
  <2>4. SeenStatus[r] = status[r] /\ SeenStatus' = [SeenStatus EXCEPT ![r] = "CANCELLED"]
    <3>1. \A q \in Reservations : status'[q] = IF q = r THEN "CANCELLED" ELSE status[q]
      BY <2>1 DEF Rows, TypeOK
    <3>2. SeenStatus' = [q \in Reservations |-> IF q = r THEN "CANCELLED" ELSE SeenStatus[q]]
      BY <2>2, <2>3, <3>1 DEF SeenStatus
    <3>3. SeenStatus[r] = status[r]
      BY <2>3 DEF SeenStatus
    <3>4. SeenStatus = [q \in Reservations |-> SeenStatus[q]]
      BY DEF SeenStatus
    <3> QED
      BY <3>2, <3>3, <3>4
  <2>5. status[r] \in {old[t], "CANCELLED"} /\ old[t] \in {"PENDING", "ACCEPTED"}
    BY <1>11 DEF SaveCancelled, Holds, Locals
  <2>6. CASE status[r] = "ACCEPTED"
    <3>1. Accepted = {r} /\ Accepted' = {} /\ \A u \in Threads : at[u] \notin Accepting
      BY <2>1, <2>3, <2>6, <1>h DEF Accepted, Unique, InHand
    <3>2. listing = "RESERVED" /\ ~Released
      BY <2>3, <3>1 DEF Held, Released, Locals
    <3>3. Released'
      BY <1>11, <2>5, <2>6, <3>1 DEF SaveCancelled, Released
    <3>4. SeenListing' = "PUBLISHED"
      BY <3>3 DEF SeenListing
    <3>5. Promise!Cancel(r)
      BY <2>4, <2>6, <3>4 DEF Promise!Cancel, SeenStatus, SeenListing
    <3> QED
      BY <3>5 DEF Promise!Next
  <2>7. CASE status[r] # "ACCEPTED"
    <3>1. Accepted' = Accepted
      BY <2>1, <2>7 DEF Accepted
    <3>2. (\E u \in Threads : at[u] \in Restoring \cup Accepting)
          => \E u \in Threads : at'[u] \in Restoring \cup Accepting
      BY <1>11 DEF SaveCancelled
    <3>3. Released => Released'
      BY <2>2, <3>1, <3>2 DEF Released
    <3>4. Released' /\ ~Released => listing = "PUBLISHED"
      BY <1>11, <2>2, <3>1 DEF SaveCancelled, Released, NotForgotten, InHand
    <3>5. SeenListing' = SeenListing
      BY <1>11, <3>3, <3>4 DEF SaveCancelled, SeenListing
    <3>6. CASE status[r] = "PENDING"
      <4>1. Promise!Cancel(r)
        BY <2>4, <3>5, <3>6 DEF Promise!Cancel, SeenStatus, SeenListing
      <4> QED
        BY <4>1 DEF Promise!Next
    <3>7. CASE status[r] = "CANCELLED"
      <4>1. status' = status
        BY <2>1, <3>7
      <4>2. SeenStatus' = SeenStatus
        BY <2>2, <4>1 DEF SeenStatus
      <4> QED
        BY <1>a, <3>5, <4>2
    <3> QED
      BY <2>5, <2>7, <3>6, <3>7
  <2> QED
    BY <2>6, <2>7
<1>12. ASSUME NEW t \in Threads, ScanOthers(t) \/ ReadListing(t) \/ SaveRestored(t)
       PROVE  UNCHANGED Promise!vars
  <2>1. UNCHANGED status /\ Accepted' = Accepted
    BY <1>12, <1>d DEF ScanOthers, ReadListing, SaveRestored
  <2>2. \A q : InHand(q)' <=> InHand(q)
    BY <1>12 DEF ScanOthers, ReadListing, SaveRestored, InHand
  <2>3. SeenStatus' = SeenStatus
    BY <2>1, <2>2 DEF SeenStatus
  <2>4. CASE Accepted = {}
    <3>1. Released /\ (ScanOthers(t) => Released')
      BY <1>12, <2>1, <2>4 DEF ScanOthers, ReadListing, SaveRestored, Released
    <3>2. listing' = "PUBLISHED" \/ Released'
      BY <1>12, <2>1, <2>4, <3>1 DEF ReadListing, SaveRestored, Released
    <3>3. SeenListing' = SeenListing
      BY <3>1, <3>2 DEF SeenListing
    <3> QED
      BY <1>a, <2>3, <3>3
  <2>5. CASE Accepted # {}
    <3>1. ScanOthers(t) /\ UNCHANGED listing
      BY <1>12, <2>5 DEF ScanOthers, ReadListing, SaveRestored, Holds
    <3>2. Released' => Released
      BY <2>1, <2>2, <3>1 DEF ScanOthers, Released
    <3>3. Released => \E u \in Threads : at[u] \in Accepting /\ u # t
      BY <2>5, <3>1 DEF ScanOthers, Released, InHand
    <3>4. Released => Released'
      BY <2>1, <2>2, <3>1, <3>3 DEF ScanOthers, Released
    <3>5. SeenListing' = SeenListing
      BY <3>1, <3>2, <3>4 DEF SeenListing
    <3> QED
      BY <1>a, <2>3, <3>5
  <2> QED
    BY <2>4, <2>5
<1> QED
  BY <1>c, <1>1, <1>2, <1>3, <1>4, <1>5, <1>6, <1>7, <1>8, <1>9, <1>10, <1>11, <1>12 DEF Next, Step

\* Whichever branch was built, the service keeps what Booking promises: over repositories,
\* whatever requests overlap, until a call raises, the process crashes or something a
\* request had checked ceases to hold; over the services until one is called directly.
THEOREM BothBranchesKeepBooking == ServiceSpec => BothKeepBooking
<1>1. ServiceInit => Promise!Init
  BY DEF ServiceInit, Init, Promise!Init, InHand, Released, Accepting, Restoring
<1> QED
  BY <1>1, OverlapInvariant, OverlapStep, RepositoryStep, ServicesKeepBooking, PTL
  DEF ServiceSpec, BothKeepBooking, BookingKept

-----------------------------------------------------------------------------
(* What keeping Booking is worth, for any set of reservations. *)

VARIABLES heldListing, heldStatus   \* of any behaviour that keeps Booking

B == INSTANCE Booking WITH listing <- heldListing, status <- heldStatus

\* The listing is RESERVED exactly while a reservation is accepted, and for one
\* buyer only (service.py:369-371, 486-506).
ReservedForOne ==
  /\ heldListing = "RESERVED" <=> \E r \in Reservations : heldStatus[r] = "ACCEPTED"
  /\ \A r, q \in Reservations : heldStatus[r] = "ACCEPTED" /\ heldStatus[q] = "ACCEPTED" => r = q

\* ReservedForOne is inductive once a status is known for every reservation.
BookingInv == DOMAIN heldStatus = Reservations /\ ReservedForOne

LEMMA BookingInit == B!Init => BookingInv
BY DEF B!Init, BookingInv, ReservedForOne

\* No operation breaks it: an acceptance finds the listing PUBLISHED, so nobody
\* else holds it, and a cancellation returns what only its own reservation held.
LEMMA ReservedStep == BookingInv /\ [B!Next]_(B!vars) => BookingInv'
<1> SUFFICES ASSUME BookingInv, [B!Next]_(B!vars) PROVE BookingInv'
  OBVIOUS
<1> USE DEF BookingInv, ReservedForOne
<1>1. CASE B!Draft \/ B!Publish
  BY <1>1 DEF B!Draft, B!Publish
<1>2. ASSUME NEW r \in Reservations, B!Reserve(r) PROVE BookingInv'
  BY <1>2 DEF B!Reserve
<1>3. ASSUME NEW r \in Reservations, B!Accept(r) PROVE BookingInv'
  <2>1. \A q \in Reservations : heldStatus'[q] = "ACCEPTED" <=> q = r
    BY <1>3 DEF B!Accept
  <2> QED
    BY <1>3, <2>1 DEF B!Accept
<1>4. ASSUME NEW r \in Reservations, B!Cancel(r) PROVE BookingInv'
  <2>1. \A q \in Reservations : heldStatus'[q] = "ACCEPTED" <=> heldStatus[q] = "ACCEPTED" /\ q # r
    BY <1>4 DEF B!Cancel
  <2> QED
    BY <1>4, <2>1 DEF B!Cancel
<1>5. CASE UNCHANGED B!vars
  BY <1>5 DEF B!vars
<1> QED
  BY <1>1, <1>2, <1>3, <1>4, <1>5 DEF B!Next

\* A listing is reserved for exactly one buyer or for nobody.
THEOREM ReservedForOneBuyer == B!Spec => []ReservedForOne
<1>1. BookingInv => ReservedForOne
  BY DEF BookingInv
<1> QED
  BY <1>1, BookingInit, ReservedStep, PTL DEF B!Spec

=============================================================================
