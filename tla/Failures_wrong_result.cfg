CONSTANTS
  Leader = leader
  Replicas = {r1, r2}
  Requests = {q1, q2}
  Keys = {k1}
  Key <- OneKey
  MaxCrashes = 1
SPECIFICATION FSpec
INVARIANT OwnResult
CHECK_DEADLOCK FALSE
