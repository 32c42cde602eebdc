SPECIFICATION Spec
CONSTANTS
  Replicas = {r1, r2}
  Waits = {w1, w2}
  WriteLens = {20}
  GetAckLen = 37
  MaxWrites = 1
CHECK_DEADLOCK FALSE
INVARIANT
  AcknowledgedByRequired
