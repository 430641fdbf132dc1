------------------------------- MODULE Booking -------------------------------
(***************************************************************************)
(* What the reservations of one listing promise to buyers and the seller   *)
(* (application/marketplace/service.py): at most one reservation is        *)
(* accepted, the listing is RESERVED exactly as long as one is, and a      *)
(* cancelled reservation never comes back.  Every operation is one step.   *)
(*                                                                         *)
(* Marketplace shows when the code, which makes them in several, keeps it. *)
(***************************************************************************)
CONSTANTS Reservations

VARIABLES
  listing,   \* status of the listing, "none" before it is created
  status     \* status of each reservation, "none" before it is created

vars == <<listing, status>>

Init == listing = "none" /\ status = [r \in Reservations |-> "none"]

Draft == listing = "none" /\ listing' = "DRAFT" /\ UNCHANGED status

Publish == listing = "DRAFT" /\ listing' = "PUBLISHED" /\ UNCHANGED status

\* A buyer may have seen the listing just before another one got it.
Reserve(r) ==
  /\ status[r] = "none" /\ listing \in {"PUBLISHED", "RESERVED"}
  /\ status' = [status EXCEPT ![r] = "PENDING"]
  /\ UNCHANGED listing

Accept(r) ==
  /\ status[r] = "PENDING" /\ listing = "PUBLISHED"
  /\ status' = [status EXCEPT ![r] = "ACCEPTED"]
  /\ listing' = "RESERVED"

Cancel(r) ==
  /\ status[r] \in {"PENDING", "ACCEPTED"}
  /\ status' = [status EXCEPT ![r] = "CANCELLED"]
  /\ listing' = IF status[r] = "ACCEPTED" THEN "PUBLISHED" ELSE listing

Next ==
  \/ Draft \/ Publish
  \/ \E r \in Reservations : Reserve(r) \/ Accept(r) \/ Cancel(r)

Spec == Init /\ [][Next]_vars
=============================================================================
