\* One image; repository calls raise, claims meet another's transaction, and the process crashes.
SPECIFICATION FairSpec
CONSTANTS
  Images = {i1}
  Sizes = {small, large}
  Original = whole
  Workers = {w1}
  MaxImages = 1
  MaxAttempts = 2
  MaxDeliveries = 3
  MaxCrashes = 1
  MaxFaults = 2
  MaxCollisions = 3
INVARIANTS
  ReadyHasFiles
PROPERTIES
  ReadyIsFinal
  
CHECK_DEADLOCK FALSE
