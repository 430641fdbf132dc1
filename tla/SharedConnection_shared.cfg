\* Operations with the same lock, with another one and with none.
SPECIFICATION Spec
CONSTANTS
  ImageThreads = {i1, i2}
  OutboxThreads = {o1}
  BareThreads = {b1, b2}
  MaxCrashes = 1
INVARIANTS
  LostOnlyToRollback
  FailedLeavesNothing
  IndexFollowsListing
