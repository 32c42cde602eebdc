SPECIFICATION Spec
CONSTANTS
  k1 = k1
  k2 = k2
  Keys = {k1, k2}
  Elements = {e1, e2, e3}
  Calls = {b1, b2, b3}
  Conns = {c1, c2, c3}
  KeyLists <- MCKeyLists
  Timeouts = {0, 1}
  MaxPush = 2
  MaxPending = 1
  StringValue = StringValue
  None = None
SYMMETRY MCSymmetry
INVARIANTS
  TypeOK
  AtMostOnePlace
  NoElementLost
  QueuedIffWaiting
  ReplicaMatchesUnlessServed
PROPERTIES
  NoLostWakeUp
  ImplementsListService
