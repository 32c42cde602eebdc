SPECIFICATION KeyspaceSpec
CONSTANTS
  Keys = {k1}
  Texts = {x}
  Numbers = {1}
  Lifetimes = {0, 1}
  Instants = {1}
  MaxTime = 3
  MaxLink = 2
  MaxNumber = 2
  Never = Never
  Absent = Absent
CHECK_DEADLOCK FALSE
INVARIANTS
  KeyspaceTypeOK
  ReplicaHoldsKeys
  ReplicaServesLonger
