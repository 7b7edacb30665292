CONSTANTS
  Nodes = {1, 2, 3}
  q1 = q1
  q2 = q2
  Requests <- Charges
  Scenarios <- Failover
SPECIFICATION CSpec
INVARIANT LeaderHoldsAnswered
CHECK_DEADLOCK FALSE
