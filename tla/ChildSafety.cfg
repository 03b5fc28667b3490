SPECIFICATION FairSpec
CONSTANTS
  Pids = {p1, p2}
  NoPid = NoPid
  MaxCommands = 2
  MaxSignals = 1
INVARIANTS TypeOK RunningIsRegistered EndedGroupsAreGone CutShortNeverSucceeds
PROPERTY CancelledActionEnds
