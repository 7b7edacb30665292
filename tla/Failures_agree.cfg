CONSTANTS
  Leader = leader
  Replicas = {r1, r2, r3}
  Requests = {q1, q2, q3}
  Keys = {k1}
  Key <- OneKey
  MaxCrashes = 3
SPECIFICATION FSpec
SYMMETRY Symmetry
INVARIANTS ExecutesInOrder ReplicasAgree
CHECK_DEADLOCK FALSE
