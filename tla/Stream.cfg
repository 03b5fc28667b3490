CONSTANTS
  BackupOutputs <- ShortBackups
  ListingOutputs <- ShortListings
  Offset = 1
  Limit = 1
  Pipe = 1
  Wire = 1
SPECIFICATION FairSpec
INVARIANTS SuccessIsWhole
PROPERTIES CommandEnds
CHECK_DEADLOCK FALSE
