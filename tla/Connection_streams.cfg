CONSTANTS
  Nodes = {1, 2, 3}
  Scenarios <- Streams
SPECIFICATION Spec
INVARIANTS HandlersOwned InOrder Delivery
CHECK_DEADLOCK FALSE
