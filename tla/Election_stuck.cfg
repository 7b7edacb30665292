CONSTANTS
  Nodes = {1, 2, 3}
  Scenarios <- Stuck
SPECIFICATION FairSpec
PROPERTY LeaderElected
CHECK_DEADLOCK FALSE
