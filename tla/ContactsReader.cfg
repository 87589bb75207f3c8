SPECIFICATION Spec
CONSTANTS
  Ids = {i1, i2}
  Names = {a, b}
  Numbers = {n1, n2}
  MaxNumbers = 1
  MaxTaps = 2
  MaxEdits = 2
INVARIANTS
  TypeOK
  PairsBelongTogether
  UntouchedIsComplete
PROPERTY
  TapEnds
CHECK_DEADLOCK FALSE
