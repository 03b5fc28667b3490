CONSTANTS
  Paths <- Tree
  Above <- TreeAbove
  Dirs <- TreeDirs
  Names <- TreeNames
  Named <- TreeNamed
  Rules <- TreeRules
  BackupRoot <- TreeRoot
  HardRoots <- TreeHard
  Etc <- TreeEtc
  Metadata <- TreeMetadata
  Admitted <- TreeAdmitted
  Resolved <- TreeResolved
  ReadAs <- TreeReadAs
  MaxItems = 20
  Touched <- TouchedBoot
SPECIFICATION Spec
INVARIANT ExplicitInclusionIsBackedUp
