\* No crash, a repository that answers.
SPECIFICATION ViewSpec
CONSTANTS
  Images = {i1, i2}
  Sizes = {small, large}
  Workers = {w1}
  MaxImages = 2
  MaxAttempts = 2
  MaxDeliveries = 2
  MaxCrashes = 0
  MaxFaults = 0
  MaxCollisions = 1
  Original = whole
  Image = i1
  Size = small
INVARIANTS
  PositionsUnique
  ProcessingIsOwned
  
  OnlyDeletedFails
CHECK_DEADLOCK FALSE
