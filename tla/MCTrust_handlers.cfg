\* Two loops that may deliver the same event, a call that raises, a crash.
SPECIFICATION Spec
CONSTANTS
  ann = ann
  bob = bob
  Events <- MCEvents
  Users = {ann, bob}
  Loops = {w1, w2}
  MaxEvents = 2
  MaxFaults = 1
  MaxCrashes = 1
SYMMETRY Symmetry
INVARIANTS
  CountedAsDelivered
  ScoreHistoryUnbroken
CHECK_DEADLOCK FALSE
