SPECIFICATION Spec
CONSTANTS
  k1 = k1
  k2 = k2
  Keys = {k1, k2}
  Elements = {e1, e2}
  Calls = {b1, b2}
  Conns = {c1}
  KeyLists <- MCKeyLists
  Timeouts = {0}
  MaxPush = 1
  MaxPending = 1
  StringValue = StringValue
  None = None
INVARIANT
  ReplicaMatches
