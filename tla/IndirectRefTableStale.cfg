CONSTANTS
  Objects = {s1, s2}
  Null = Null
  Invalid = Invalid
  Cleared = Cleared
  IndexBits = 2
  Serials = 4
  MaxEntries = 3
  MaxDepth = 2
SPECIFICATION TableSpec
INVARIANTS
  StaleIsInvalid
CHECK_DEADLOCK FALSE
