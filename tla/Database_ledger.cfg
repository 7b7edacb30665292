CONSTANTS
  a1 = a1
  c1 = c1
  c2 = c2
  Router = router
  Accounts = {a1}
  Cards = {c1, c2}
  Owner <- OneAccount
  Workloads <- ChargesAndLimits
  EventCapacity = 2
SPECIFICATION Spec
INVARIANTS TypeOK WithinLimits AccountIsSumOfCards BusyCardIsServed CardOrder
PROPERTY ImplementsLedger
CHECK_DEADLOCK FALSE
