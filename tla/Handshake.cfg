CONSTANTS
  Pages = 2
  Capacity = 2
SPECIFICATION FairSpec
INVARIANTS TypeOK OneReader TermBeforeSessionStops
PROPERTIES LeavingReaps HelperFollows
CHECK_DEADLOCK FALSE
