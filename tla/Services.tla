------------------------------ MODULE Services ------------------------------
(***************************************************************************)
(* The workflows of application/marketplace/service.py when no             *)
(* repositories are given: they keep users, one listing and its            *)
(* reservations in the services of domain/, whose operations a caller may  *)
(* also use directly.  One caller, so an operation is one step; one that   *)
(* is refused changes nothing.  Only an acceptance is three, as it may     *)
(* have to take back what it did.  No media service is given, so           *)
(* publishing asks for no images.                                          *)
(*                                                                         *)
(* The halves of the workflows, publish, reserve and accept, are called    *)
(* through them only; edits that change no status are left out.            *)
(***************************************************************************)
CONSTANTS Reservations

VARIABLES
  user,      \* status of the seller and the buyer
  listing,   \* status of the listing, "none" before it is created
  status,    \* status of each reservation, "none" before it is created
  accepting, \* the reservation whose acceptance is half way
  holder,    \* history: the reservation the listing was last reserved for
  direct     \* history: a domain service was called directly

vars == <<user, listing, status, accepting, holder, direct>>

NoReservation == "none"

Users == {"seller", "buyer"}

\* The calls of each domain service, as the statuses they go from and to.
UserCalls ==   \* activate, suspend, reactivate, delete
  {<<"PENDING", "ACTIVE">>, <<"ACTIVE", "SUSPENDED">>, <<"SUSPENDED", "ACTIVE">>}
    \cup {"PENDING", "ACTIVE", "SUSPENDED"} \X {"DELETED"}

ListingCalls ==   \* mark_sold, archive
  {<<"RESERVED", "SOLD">>} \cup {"DRAFT", "PUBLISHED", "RESERVED", "SOLD"} \X {"ARCHIVED"}

ReservationCalls ==   \* decline, cancel, expire, complete
  {<<"PENDING", "DECLINED">>, <<"ACCEPTED", "COMPLETED">>}
    \cup {"PENDING", "ACCEPTED"} \X {"CANCELLED", "EXPIRED"}

Init ==
  /\ user = [u \in Users |-> "PENDING"]
  /\ listing = "none"
  /\ status = [r \in Reservations |-> "none"]
  /\ accepting = NoReservation /\ holder = NoReservation
  /\ direct = FALSE

-----------------------------------------------------------------------------
(* Workflows. *)

Active(u) == user[u] = "ACTIVE"

Accepted == {r \in Reservations : status[r] = "ACCEPTED"}

CallUser(u) ==
  /\ \E to \in {"ACTIVE", "SUSPENDED", "DELETED"} :
       /\ <<user[u], to>> \in UserCalls
       /\ user' = [user EXCEPT ![u] = to]
  /\ UNCHANGED <<listing, status, accepting, holder, direct>>

CreateListing ==
  /\ Active("seller") /\ listing = "none"
  /\ listing' = "DRAFT"
  /\ UNCHANGED <<user, status, accepting, holder, direct>>

PublishListing ==
  /\ Active("seller") /\ listing = "DRAFT"
  /\ listing' = "PUBLISHED"
  /\ UNCHANGED <<user, status, accepting, holder, direct>>

CreateReservation(r) ==
  /\ Active("buyer") /\ Active("seller")
  /\ listing = "PUBLISHED" /\ status[r] = "none"
  /\ status' = [status EXCEPT ![r] = "PENDING"]
  /\ UNCHANGED <<user, listing, accepting, holder, direct>>

\* The reservation is accepted ...
AcceptReservation(r) ==
  /\ Active("seller") /\ status[r] = "PENDING"
  /\ Accepted = {}
  /\ status' = [status EXCEPT ![r] = "ACCEPTED"]
  /\ accepting' = r
  /\ UNCHANGED <<user, listing, holder, direct>>

\* ... then the listing reserved ...
ReserveListing ==
  /\ accepting # NoReservation /\ listing = "PUBLISHED"
  /\ listing' = "RESERVED"
  /\ holder' = accepting /\ accepting' = NoReservation
  /\ UNCHANGED <<user, status, direct>>

RollBackAccepted_mutant ==   \* reports the refusal only
  /\ accepting # NoReservation /\ listing # "PUBLISHED"
  /\ accepting' = NoReservation
  /\ UNCHANGED <<user, listing, status, holder, direct>>

\* ... or the reservation rolled back, when the listing refuses.
RollBackAccepted ==
  /\ accepting # NoReservation /\ listing # "PUBLISHED"
  /\ status' = [status EXCEPT ![accepting] = "PENDING"]
  /\ accepting' = NoReservation
  /\ UNCHANGED <<user, listing, holder, direct>>

Restored_mutant(r) ==   \* whatever the status of the listing
  IF status[r] = "ACCEPTED" /\ Accepted = {r} THEN "PUBLISHED" ELSE listing
\* The listing after reservation r is cancelled.
Restored(r) ==
  IF status[r] = "ACCEPTED" /\ Accepted = {r} /\ listing = "RESERVED"
  THEN "PUBLISHED" ELSE listing

CancelReservation(r) ==
  /\ status[r] \in {"PENDING", "ACCEPTED"}
  /\ status' = [status EXCEPT ![r] = "CANCELLED"]
  /\ listing' = Restored(r)
  /\ UNCHANGED <<user, accepting, holder, direct>>

-----------------------------------------------------------------------------
(* Direct calls: each service knows its own store only. *)

CallListing ==
  /\ \E to \in {"SOLD", "ARCHIVED"} : <<listing, to>> \in ListingCalls /\ listing' = to
  /\ direct' = TRUE
  /\ UNCHANGED <<user, status, accepting, holder>>

CallReservation(r) ==
  /\ \E to \in {"DECLINED", "CANCELLED", "EXPIRED", "COMPLETED"} :
       /\ <<status[r], to>> \in ReservationCalls
       /\ status' = [status EXCEPT ![r] = to]
  /\ direct' = TRUE
  /\ UNCHANGED <<user, listing, accepting, holder>>

Operation ==
  \/ \E u \in Users : CallUser(u)
  \/ CreateListing \/ PublishListing \/ CallListing
  \/ \E r \in Reservations :
       \/ CreateReservation(r) \/ AcceptReservation(r) \/ CancelReservation(r)
       \/ CallReservation(r)

Next ==
  \/ accepting = NoReservation /\ Operation
  \/ ReserveListing \/ RollBackAccepted

-----------------------------------------------------------------------------
(* Properties. *)

\* Between operations, an ACCEPTED reservation is the one the listing was last reserved
\* for, and the listing is not on the market: also when direct calls have separated the
\* two, by archiving the listing or leaving it RESERVED after an expiry, no acceptance
\* that the listing refused is left (service.py:437-445).
AcceptedWasReserved ==
  accepting = NoReservation =>
    \A r \in Accepted : r = holder /\ listing \in {"RESERVED", "SOLD", "ARCHIVED"}

\* A SOLD or ARCHIVED listing, a reservation that has ended and a DELETED user never
\* come back: a late cancellation does not put a sold item up again (service.py:537).
Final ==
  [][/\ listing = "SOLD" => listing' \in {"SOLD", "ARCHIVED"}
     /\ listing = "ARCHIVED" => UNCHANGED listing
     /\ \A r \in Reservations :
          status[r] \notin {"none", "PENDING", "ACCEPTED"} => status'[r] = status[r]
     /\ \A u \in Users : user[u] = "DELETED" => user'[u] = "DELETED"]_vars

\* An acceptance counts from the listing's reservation.
Promise == INSTANCE Booking WITH
  status <- [r \in Reservations |-> IF r = accepting THEN "PENDING" ELSE status[r]]

\* Without direct calls the services keep what Booking promises.
BookingKept == Promise!Init /\ [][~direct' => [Promise!Next]_(Promise!vars)]_vars
=============================================================================
