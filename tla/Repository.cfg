CONSTANTS
  g = g
  h = h
  NoHelper = NoHelper
  Helpers <- Windows
  Components = {"filesystem"}
  Parts <- TwoParts
  MaxRequests = 3
SPECIFICATION FairSpec
INVARIANTS TypeOK OneWriter SnapshotIsOnePlan
PROPERTIES Implements EveryRequestEnds
CHECK_DEADLOCK FALSE
