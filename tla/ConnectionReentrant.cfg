SPECIFICATION Spec
CONSTANTS
  Kinds = {"plain", "blocking"}
  Lens = {1, 3}
  Impatient = TRUE
  MaxSent = 3
  MaxParked = 2
CHECK_DEADLOCK FALSE
INVARIANT
  OneResponse
