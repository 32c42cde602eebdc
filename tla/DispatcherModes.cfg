SPECIFICATION Spec
CONSTANTS
  Conns = {c1, c2}
  Channels = {ch1, ch2}
  Commands = {"set", "badset", "incr", "lpop", "subscribe", "nosuch"}
  MaxQueue = 2
  MaxExecuted = 2
CHECK_DEADLOCK FALSE
SYMMETRY MCSymmetry
INVARIANTS
  TypeOK
  SubscriptionsAgree
  TransactionXorSubscribed
  FailureIsItsOwn
  SuccessesAreStreamed
PROPERTY
  FailedTransactionHasNoEffect
