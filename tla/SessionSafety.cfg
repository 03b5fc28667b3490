SPECIFICATION Spec
CONSTANTS
  Requests = {r1, r2}
  NoReq = NoReq
  MaxChunks = 2
  InCap = 2
  OutCap = 2
  CallbackMayRaise = TRUE
INVARIANTS TypeOK ResultAuthentic RequestNeverLost
PROPERTY ImplementsRpc
CHECK_DEADLOCK FALSE
