CONSTANTS
  Requests <- Two
  External = {"backup"}
  Backups = {"backup"}
  MaxWrites = 3
SPECIFICATION Spec
INVARIANTS TypeOK SecretIsOneMoment
PROPERTIES StaleSecretsGo
CHECK_DEADLOCK FALSE
