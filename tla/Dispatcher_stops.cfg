\* stop() and start() in the middle of the publishers' work; stop() may give up on a
\* slow handler.
SPECIFICATION FairSpec
CONSTANTS
  Events = {e1, e2, e3}
  Loops = {l1, l2}
  JoinCompletes = FALSE
  MaxStops = 1
INVARIANTS
  HandledOnceInOrder
  NothingLeftNothingCounted
PROPERTIES
  IdleMeansHandled
  EveryPublishedHandled
  WaiterReturns
