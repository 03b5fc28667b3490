SPECIFICATION FairSpec
CONSTANTS
  Requests = {r1, r2}
  NoReq = NoReq
  MaxChunks = 1
  InCap = 2
  OutCap = 1
  CallbackMayRaise = FALSE
PROPERTIES HelperEnds EveryRequestReturns
CHECK_DEADLOCK FALSE
