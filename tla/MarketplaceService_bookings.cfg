\* Requests of sellers and buyers overlap; calls raise and the process crashes.
SPECIFICATION ServiceSpec
CONSTANTS
  Threads = {t1, t2}
  Reservations = {r1, r2, r3}
  MaxReady = 2
  MaxFaults = 2
  MaxCrashes = 1
INVARIANTS
  PublishedHasImages
  AcceptedHoldsListing
  AcceptedWasReserved
PROPERTIES
  BothKeepBooking
  Final
CHECK_DEADLOCK FALSE
