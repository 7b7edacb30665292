CONSTANTS
  Pumps = {p1, p2}
  MaxCharges = 2
  StationIds = {1, 2, 3}
  FirstReplayId = 10
  NumNodes = 2
  Capacity = 1
  MaxCommands = 3
SPECIFICATION FairSpec
INVARIANTS TypeOK OwnAnswer ChargedOnce NoChargeForgotten BusyPumpIsServed
PROPERTY EveryChargeAnswered
CHECK_DEADLOCK FALSE
