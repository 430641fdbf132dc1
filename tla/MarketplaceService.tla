------------------------- MODULE MarketplaceService -------------------------
(***************************************************************************)
(* MarketplaceService as a whole: built over repositories (Marketplace) or *)
(* over in-memory services (Services), it takes the same branch in every   *)
(* workflow.                                                               *)
(***************************************************************************)
EXTENDS Marketplace

VARIABLES
  repositories,   \* _use_repositories()
  storedUser, storedListing, storedStatus,   \* the stores of the three services
  accepting, holder, direct                  \* as in Services

stores == <<storedUser, storedListing, storedStatus, accepting, holder, direct>>

S == INSTANCE Services WITH
  user <- storedUser, listing <- storedListing, status <- storedStatus

ServiceInit ==
  /\ repositories \in BOOLEAN
  /\ Init /\ S!Init

ServiceNext ==
  /\ UNCHANGED repositories
  /\ \/ repositories /\ Next /\ UNCHANGED stores
     \/ ~repositories /\ S!Next /\ UNCHANGED vars

ServiceSpec == ServiceInit /\ [][ServiceNext]_<<repositories, vars, stores>>

-----------------------------------------------------------------------------
(* Properties of the branch without repositories. *)

\* A reservation that is accepted has the listing, or is rolled back.
AcceptedWasReserved == S!AcceptedWasReserved

\* What was sold, archived, ended or deleted does not come back.
Final == S!Final

\* Until a service is called directly, both branches keep what Booking promises.
BothKeepBooking == BookingKept /\ S!BookingKept
=============================================================================
