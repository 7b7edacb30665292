CONSTANTS
  Leader = leader
  Replicas = {r1, r2}
  q1 = q1
  q2 = q2
  q3 = q3
  Requests = {q1, q2, q3}
  Keys = {k1, k2}
  Key <- TwoKeys
SPECIFICATION FairSpec
INVARIANTS TypeOK MajorityHolds NoPanic OwnResult AnsweredOnce ExecutesOnce ReplicaOrder
PROPERTIES EveryRequestAnswered ReplicasCatchUp
CHECK_DEADLOCK FALSE
