SPECIFICATION FairSpec
CONSTANTS
  Kinds = {"plain", "blocking"}
  Lens = {1, 3}
  Impatient = FALSE
  MaxSent = 4
  MaxParked = 2
CHECK_DEADLOCK FALSE
INVARIANTS
  TypeOK
  InStreamOrder
PROPERTIES
  ImplementsRequestReply
  EveryCommandAnswered
