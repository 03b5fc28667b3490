CONSTANTS
  g = g
  h = h
  NoHelper = NoHelper
  Helpers <- Windows
  Components = {"filesystem"}
  Parts <- TwoParts
  MaxRequests = 3
SPECIFICATION Spec
PROPERTIES DeletesOnlyLatest
CHECK_DEADLOCK FALSE
