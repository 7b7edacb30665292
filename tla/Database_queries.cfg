CONSTANTS
  a1 = a1
  c1 = c1
  c2 = c2
  Router = router
  Accounts = {a1}
  Cards = {c1, c2}
  Owner <- OneAccount
  Workloads <- QueriesAndSnapshots
  EventCapacity = 8
SPECIFICATION Spec
INVARIANTS QueryIsCurrent BilledOnce SnapshotIsCurrent AnsweredWhenIdle
CHECK_DEADLOCK FALSE
