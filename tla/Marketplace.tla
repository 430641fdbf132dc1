----------------------------- MODULE Marketplace -----------------------------
(***************************************************************************)
(* The repository-backed workflows of application/marketplace/service.py   *)
(* for one listing: create and publish it, create, accept and cancel its   *)
(* reservations.  Requests run on the threads of a pool, no lock is held   *)
(* across a workflow, and every repository call is a commit of its own: a  *)
(* workflow is a sequence of steps between which the others may run.       *)
(*                                                                         *)
(* A request that is refused changes nothing, so only the requests whose   *)
(* checks hold when they are made are steps.  Events recorded by           *)
(* _record_event are best effort and change no state here.                 *)
(***************************************************************************)
EXTENDS Naturals, FiniteSets

CONSTANTS
  Threads,        \* request threads
  Reservations,   \* reservation ids
  MaxReady,       \* bound: READY images
  MaxFaults, MaxCrashes   \* bounds: repository calls that raise, crashes

NoReservation == "none"

ASSUME ThreadsAssumption == IsFiniteSet(Threads) /\ Threads # {}
ASSUME ReservationsAssumption ==
  /\ IsFiniteSet(Reservations) /\ Reservations # {}
  /\ NoReservation \notin Reservations
ASSUME BoundAssumption == MaxReady \in Nat /\ MaxFaults \in Nat /\ MaxCrashes \in Nat

VARIABLES
  active,     \* the users that are ACTIVE
  listing,    \* status of the listing
  ready,      \* its READY images
  status,     \* status of each reservation
  at, res, old,   \* each thread: the step it is about to make, its reservation, old_status
  lost,       \* history: a READY image was deleted after it was counted
  late,       \* history: the save of an acceptance raised after its change was visible
  stale,      \* history: what a request had checked ceased to hold before its end
  faults, crashes

rows == <<active, listing, ready, status>>
bounds == <<lost, late, faults, crashes>>   \* what has happened so far
vars == <<rows, at, res, old, bounds, stale>>

Users == {"seller", "buyer"}
Required == 2   \* READY images a listing needs to be published

Restoring == {"others", "look", "restore"}   \* the second half of a cancellation
Accepting == {"reserve", "rollback"}         \* the second half of an acceptance
Steps == {"idle", "gate", "publish", "add", "scan", "accept", "cancel"} \cup Restoring \cup Accepting

\* Rows and locals have their types; a cancellation touches the listing only when the
\* reservation had been ACCEPTED (service.py:489).
TypeOK ==
  /\ active \subseteq Users
  /\ listing \in {"none", "DRAFT", "PUBLISHED", "RESERVED"}
  /\ ready \in 0..MaxReady
  /\ status \in [Reservations -> {"none", "PENDING", "ACCEPTED", "CANCELLED"}]
  /\ at \in [Threads -> Steps]
  /\ res \in [Threads -> Reservations \cup {NoReservation}]
  /\ old \in [Threads -> {"none", "PENDING", "ACCEPTED"}]
  /\ \A t \in Threads : at[t] \in Restoring => old[t] = "ACCEPTED"
  /\ lost \in BOOLEAN /\ late \in BOOLEAN /\ stale \in BOOLEAN
  /\ faults \in Nat /\ crashes \in Nat

Init ==
  /\ active = {} /\ listing = "none" /\ ready = 0
  /\ status = [r \in Reservations |-> "none"]
  /\ at = [t \in Threads |-> "idle"]
  /\ res = [t \in Threads |-> NoReservation]
  /\ old = [t \in Threads |-> "none"]
  /\ lost = FALSE /\ late = FALSE /\ stale = FALSE /\ faults = 0 /\ crashes = 0

-----------------------------------------------------------------------------
(* Users, images and the listing. *)

ActivateUser(u) ==
  /\ u \notin active
  /\ active' = active \cup {u}
  /\ UNCHANGED <<listing, ready, status, at, res, old, bounds>>

\* The images were counted for a request under way or for one that published.
Counted == listing \notin {"none", "DRAFT"} \/ \E t \in Threads : at[t] = "publish"

\* The image pipeline marks an image READY, or an image is deleted.
ImagesChange ==
  /\ ready' \in {ready - 1, ready + 1} \cap 0..MaxReady
  /\ lost' = (lost \/ (ready' < ready /\ Counted))
  /\ UNCHANGED <<active, listing, status, at, res, old, late, faults, crashes>>

CreateListing ==
  /\ "seller" \in active
  /\ listing = "none"
  /\ listing' = "DRAFT"
  /\ UNCHANGED <<active, ready, status, at, res, old, bounds>>

-----------------------------------------------------------------------------
(* Requests. *)

Go(t, from, to) == at[t] = from /\ at' = [at EXCEPT ![t] = to]

Accepted == {r \in Reservations : status[r] = "ACCEPTED"}

\* publish_listing: ownership and DRAFT ...
PublishListing(t) ==
  /\ "seller" \in active /\ listing = "DRAFT"
  /\ Go(t, "idle", "gate")
  /\ UNCHANGED <<rows, res, old, bounds>>

CountReady_mutant(t) ==   \* one is enough
  /\ Go(t, "gate", IF ready = 0 THEN "idle" ELSE "publish")
  /\ UNCHANGED <<rows, res, old, bounds>>

\* ... then the images, then the save.
CountReady(t) ==
  /\ Go(t, "gate", IF ready < Required THEN "idle" ELSE "publish")
  /\ UNCHANGED <<rows, res, old, bounds>>

SavePublished(t) ==
  /\ Go(t, "publish", "idle")
  /\ listing' = "PUBLISHED"
  /\ UNCHANGED <<active, ready, status, res, old, bounds>>

CreateReservation(t, r) ==
  /\ {"buyer", "seller"} \subseteq active
  /\ listing = "PUBLISHED"
  /\ status[r] = "none" /\ \A u \in Threads : at[u] = "add" => res[u] # r
  /\ Go(t, "idle", "add")
  /\ res' = [res EXCEPT ![t] = r]
  /\ UNCHANGED <<rows, old, bounds>>

AddReservation(t) ==
  /\ Go(t, "add", "idle")
  /\ status' = [status EXCEPT ![res[t]] = "PENDING"]
  /\ UNCHANGED <<active, listing, ready, res, old, bounds>>

\* accept_reservation: PENDING ...
AcceptReservation(t, r) ==
  /\ "seller" \in active /\ status[r] = "PENDING"
  /\ Go(t, "idle", "scan")
  /\ res' = [res EXCEPT ![t] = r]
  /\ old' = [old EXCEPT ![t] = "PENDING"]
  /\ UNCHANGED <<rows, bounds>>

\* ... and no other reservation of the listing ACCEPTED, ...
ScanAccepted(t) ==
  /\ Go(t, "scan", IF Accepted = {} THEN "accept" ELSE "idle")
  /\ UNCHANGED <<rows, res, old, bounds>>

\* ... then the reservation ...
SaveAccepted(t) ==
  /\ Go(t, "accept", "reserve")
  /\ status' = [status EXCEPT ![res[t]] = "ACCEPTED"]
  /\ UNCHANGED <<active, listing, ready, res, old, bounds>>

\* ... and the listing, whatever its status is.
SaveReserved(t) ==
  /\ Go(t, "reserve", "idle")
  /\ listing' = "RESERVED"
  /\ UNCHANGED <<active, ready, status, res, old, bounds>>

RollBack_mutant(t) ==   \* gives up
  /\ Go(t, "rollback", "idle")
  /\ UNCHANGED <<rows, res, old, bounds>>

\* The listing could not be read or saved.
RollBack(t) ==
  /\ Go(t, "rollback", "idle")
  /\ status' = [status EXCEPT ![res[t]] = old[t]]
  /\ UNCHANGED <<active, listing, ready, res, old, bounds>>

\* cancel_reservation: PENDING or ACCEPTED ...
CancelReservation(t, r) ==
  /\ status[r] \in {"PENDING", "ACCEPTED"}
  /\ Go(t, "idle", "cancel")
  /\ res' = [res EXCEPT ![t] = r]
  /\ old' = [old EXCEPT ![t] = status[r]]
  /\ UNCHANGED <<rows, bounds>>

SaveCancelled_mutant(t) ==   \* forgets the listing
  /\ Go(t, "cancel", "idle")
  /\ status' = [status EXCEPT ![res[t]] = "CANCELLED"]
  /\ UNCHANGED <<active, listing, ready, res, old, bounds>>

SaveCancelled(t) ==
  /\ Go(t, "cancel", IF old[t] = "ACCEPTED" THEN "others" ELSE "idle")
  /\ status' = [status EXCEPT ![res[t]] = "CANCELLED"]
  /\ UNCHANGED <<active, listing, ready, res, old, bounds>>

\* ... then, when it was ACCEPTED and no other is, a RESERVED listing is restored.
ScanOthers(t) ==
  /\ Go(t, "others", IF Accepted = {} THEN "look" ELSE "idle")
  /\ UNCHANGED <<rows, res, old, bounds>>

ReadListing(t) ==
  /\ Go(t, "look", IF listing = "RESERVED" THEN "restore" ELSE "idle")
  /\ UNCHANGED <<rows, res, old, bounds>>

SaveRestored(t) ==
  /\ Go(t, "restore", "idle")
  /\ listing' = "PUBLISHED"
  /\ UNCHANGED <<active, ready, status, res, old, bounds>>

\* A repository call raises: acceptance rolls back when it was the listing's;
\* the rest of a cancellation or of a rollback is dropped without an error; any
\* other request fails.
RaisesTo(t) == IF at[t] = "reserve" THEN "rollback" ELSE "idle"

Raise(t) ==
  /\ at[t] # "idle"
  /\ faults < MaxFaults
  /\ faults' = faults + 1
  /\ Go(t, at[t], RaisesTo(t))
  /\ UNCHANGED <<rows, res, old, lost, late, crashes>>

\* The commit of a save raises: its change stays visible on the shared connection.  The
\* other saves end their request then as they do when they succeed.
RaiseLate(t) ==
  /\ at[t] \in {"accept", "reserve", "cancel"}
  /\ faults < MaxFaults
  /\ faults' = faults + 1
  /\ Go(t, at[t], RaisesTo(t))
  /\ IF at[t] = "reserve"
     THEN listing' = "RESERVED" /\ UNCHANGED status
     ELSE /\ status' = [status EXCEPT ![res[t]] = IF at[t] = "accept" THEN "ACCEPTED" ELSE "CANCELLED"]
          /\ UNCHANGED listing
  /\ late' = (late \/ at[t] = "accept")
  /\ UNCHANGED <<active, ready, res, old, lost, crashes>>

\* The rows stay, the requests are lost.
Crash ==
  /\ crashes < MaxCrashes
  /\ crashes' = crashes + 1
  /\ at' = [t \in Threads |-> "idle"]
  /\ UNCHANGED <<rows, res, old, lost, late, faults>>

\* What a request has checked and written so far still holds.
Holds(t) ==
  /\ at[t] \in {"gate", "publish"} => listing \in {"DRAFT", "PUBLISHED"}
  /\ at[t] \in {"scan", "accept"} => status[res[t]] = "PENDING"
  /\ at[t] \in {"accept", "look", "restore"} => Accepted = {}
  /\ at[t] \in Accepting => status[res[t]] = "ACCEPTED"
  /\ at[t] = "cancel" => status[res[t]] \in {old[t], "CANCELLED"}

\* Another step puts an end to it.
Outdated(t) == Holds(t) /\ at'[t] = at[t] /\ ~Holds(t)'

Step ==
  \/ \E u \in Users : ActivateUser(u)
  \/ ImagesChange \/ CreateListing
  \/ \E t \in Threads :
       \/ PublishListing(t) \/ CountReady(t) \/ SavePublished(t)
       \/ \E r \in Reservations :
            CreateReservation(t, r) \/ AcceptReservation(t, r) \/ CancelReservation(t, r)
       \/ AddReservation(t)
       \/ ScanAccepted(t) \/ SaveAccepted(t) \/ SaveReserved(t) \/ RollBack(t)
       \/ SaveCancelled(t) \/ ScanOthers(t) \/ ReadListing(t) \/ SaveRestored(t)
       \/ Raise(t) \/ RaiseLate(t)
  \/ Crash

Next == Step /\ stale' = (stale \/ \E t \in Threads : Outdated(t))

Spec == Init /\ [][Next]_vars

-----------------------------------------------------------------------------
(* Properties. *)

\* Whatever requests and images overlap, a listing that was published has two READY
\* images until one is deleted that was counted: images come and go before, and a request
\* that found too few leaves nothing behind (service.py:214).
PublishedHasImages == ~lost /\ listing \notin {"none", "DRAFT"} => ready >= Required

\* At most one reservation is ACCEPTED: "another reservation already accepted
\* for this listing" (service.py:371; tests/test_marketplace_service.py:64-82).
OneAccepted == Cardinality(Accepted) <= 1

\* Types hold and, whatever overlaps, until something that a request had checked ceases to
\* hold before its end, at most one reservation is ACCEPTED.  When no acceptance is half
\* way, it has the listing: neither one failing save of an acceptance nor a publication or
\* cancellation beside it takes the listing away (service.py:379-393, 489-506).
AcceptedHoldsListing ==
  /\ TypeOK
  /\ ~stale => OneAccepted
  /\ ~stale /\ ~late /\ faults <= 1 /\ crashes = 0
       /\ Accepted # {} /\ (\A t \in Threads : at[t] \notin Accepting)
     => listing = "RESERVED"

Calm == faults = 0 /\ crashes = 0

-----------------------------------------------------------------------------
(* The refinement mapping: an acceptance counts from the save of the listing, *)
(* a cancellation from the save of the reservation.                           *)

InHand(r) == \E t \in Threads : at[t] \in Accepting /\ res[t] = r

\* The listing was given up, or is not taken yet.
Released ==
  /\ \E t \in Threads : at[t] \in Restoring \cup Accepting
  /\ \A r \in Accepted : InHand(r)

Promise == INSTANCE Booking WITH
  status <- [r \in Reservations |-> IF InHand(r) THEN "PENDING" ELSE status[r]],
  listing <- IF Released THEN "PUBLISHED" ELSE listing

\* Whatever requests overlap, they keep what Booking promises until a call raises, the
\* process crashes or something a request had checked ceases to hold before its end.
BookingKept == Promise!Init /\ [][Calm' /\ ~stale' => [Promise!Next]_(Promise!vars)]_vars
=============================================================================
