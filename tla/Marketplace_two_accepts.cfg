\* Two acceptances at the same time.
SPECIFICATION Spec
CONSTANTS
  Threads = {t1, t2}
  Reservations = {r1, r2}
  MaxReady = 2
  MaxFaults = 0
  MaxCrashes = 0
INVARIANTS
  OneAccepted
CHECK_DEADLOCK FALSE
