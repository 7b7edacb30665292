CONSTANTS
  Nodes = {1, 2, 3, 4}
  Scenarios <- Crashes
SPECIFICATION FairSpec
INVARIANTS TypeOK NoPanic OneLeader
PROPERTIES ElectedAfterOneCrash
CHECK_DEADLOCK FALSE
