CONSTANTS
  s1 = s1
  s2 = s2
  s3 = s3
  a1 = a1
  a2 = a2
  Objects = {s1, s2, s3}
  Arrays = {a1, a2}
  ArrayOf <- SharedArrays
  Null = Null
  Invalid = Invalid
  Cleared = Cleared
  IndexBits = 2
  Serials = 1
  MaxEntries = 2
  MaxDepth = 2
  MaxCalls = 2
SPECIFICATION Spec
INVARIANTS
  NotWhileStopped
CHECK_DEADLOCK FALSE
