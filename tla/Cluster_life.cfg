CONSTANTS
  Nodes = {1, 2, 3, 4}
  q1 = q1
  q2 = q2
  Requests <- Charges
  Scenarios <- Life
SPECIFICATION CSpec
INVARIANTS CTypeOK JoinerHasAnswered   
CHECK_DEADLOCK FALSE
