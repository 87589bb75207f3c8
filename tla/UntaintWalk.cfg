SPECIFICATION WalkSpec
INVARIANTS
  ReachesTag
  KeptOffsets
CHECK_DEADLOCK FALSE
