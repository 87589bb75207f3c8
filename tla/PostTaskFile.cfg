CONSTANTS
  MaxTasks = 2
  Buttons = {"OBFUSCATED_NATIVE_FILESYSTEM"}
  Size = 1
  MaxFds = 1
  MaxKills = 0
SPECIFICATION Spec
INVARIANTS
  SuccessMeansOwnContent
CHECK_DEADLOCK FALSE
