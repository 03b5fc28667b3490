CONSTANTS
  Paths <- Tree
  Above <- TreeAbove
  Dirs <- TreeDirs
  Names <- Empty
  Named <- NoNamed
  Rules <- NoRules
  BackupRoot <- TreeRoot
  HardRoots <- Empty
  Etc <- TreeRoot
  Metadata <- TreeMetadata
  Admitted <- Tree
  Resolved <- TreeItself
  ReadAs <- TreeAsWritten
  MaxItems = 3
  Touched <- TreeChosen
  Volatile <- TreeChosen
  Legacy <- TreeChosen
  LegacyOff <- TreeOld
  Frozen <- TreeChosen
  MaxSnapshots = 1
  MaxDelays = 1
SPECIFICATION FairSpec
INVARIANTS TypeOK UndisturbedReviewIsExact
PROPERTIES OnlyTheUserChooses RefreshEnds
CHECK_DEADLOCK FALSE
