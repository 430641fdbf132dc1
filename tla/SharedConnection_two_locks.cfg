\* An image and an outbox operation, each under its own lock.
SPECIFICATION Spec
CONSTANTS
  ImageThreads = {i1}
  OutboxThreads = {o1}
  BareThreads = {}
  MaxCrashes = 0
INVARIANTS
  ReturnedIsDurable
