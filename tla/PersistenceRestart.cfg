SPECIFICATION Spec
CONSTANTS
  k1 = k1
  k2 = k2
  long = long
  Keys = {k1, k2, long}
  Texts = {text}
  Size <- MCSize
  LengthLimit = 3
  Instants = {1}
  MaxTime = 1
  Never = Never
  Invalid = Invalid
  None = None
SYMMETRY MCSymmetry
INVARIANTS
  TypeOK
  RestartRestores
  CutRestoresPart
PROPERTY
  ImplementsDurableStore
