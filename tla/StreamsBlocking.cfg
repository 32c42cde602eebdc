SPECIFICATION Spec
CONSTANTS
  s1 = s1
  s2 = s2
  Keys = {s1, s2}
  Requests <- MCRequests
  Xreads <- MCXreads
  Readers = {r1, r2}
  Clock <- MCClock
  MaxEntries = 2
  MaxTotal = 2
  StringValue = StringValue
  Star = Star
  Dollar = Dollar
  None = None
INVARIANTS
  TypeOK
  SameWidthIdsIncrease
  NoReaderLeftBehind
  ListensWhileWaiting
  ReplicaHasStreams
SYMMETRY MCSymmetry
