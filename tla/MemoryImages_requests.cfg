\* Uploads and deletions of two images and a reordering, two requests at once, and the loop.
SPECIFICATION Spec
CONSTANTS
  Images = {1, 2}
  Loops = {w1}
  Threads = 2
  OverlapOnce = TRUE
  MaxReorders = 1
  MaxAttempts = 1
INVARIANTS
  PositionsContiguous
  NoneLeftProcessing
  RowsFollowRequests
CHECK_DEADLOCK FALSE
