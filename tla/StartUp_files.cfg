\* Every file of up to three images of two listings, crashes anywhere.
SPECIFICATION StartSpec
CONSTANTS
  Rows = {1, 2, 3}
  Listings = {1, 2}
  MaxPosition = 2
  MaxIndexed = 2
INVARIANTS
  UpMeansCurrent
  OnlyOldOutboxFails
PROPERTIES
  RestartWritesNothing
  GalleryKept
CHECK_DEADLOCK FALSE
