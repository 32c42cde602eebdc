SPECIFICATION FairSpec
CONSTANTS
  k1 = k1
  k2 = k2
  Keys = {k1, k2}
  Elements = {e1, e2}
  Calls = {b1, b2, b3}
  Conns = {c1}
  KeyLists <- MCKeyLists
  Timeouts = {0, 1}
  MaxPush = 2
  MaxPending = 2
  StringValue = StringValue
  None = None
PROPERTY
  TimedCallReturns
