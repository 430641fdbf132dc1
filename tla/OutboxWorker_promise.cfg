\* One loop, a store that may raise anywhere, crashes, restarts and requeues.
SPECIFICATION FairSpec
CONSTANTS
  Events = {1, 2}
  HandlerCount = 2
  MaxRetry = 2
  Loops = {l1}
  JoinCompletes = TRUE
  MaxFailures = 2
  MaxCrashes = 1
  MaxRequeues = 1
  MaxStops = 1
INVARIANTS
  TypeOK
  PublishedWereHandled
  AttemptsRespected
  PendingCountsTheBatch
  NoForgottenEvent
PROPERTIES
  PromiseKept
  IdleMeansSettled
  EverySavedSettles
  WaiterReturns
