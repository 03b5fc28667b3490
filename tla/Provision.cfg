CONSTANTS
  Helpers = {"a", "b"}
  Preparers = {"p"}
  UserOf <- OneUser
SPECIFICATION Spec
INVARIANTS TypeOK ReadyIsOurs StrandedAtOwnOnly RefusalIsClean
PROPERTIES LoneRefusalHasReason
CHECK_DEADLOCK FALSE
