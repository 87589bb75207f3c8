CONSTANTS
  Total = 2
  ResponseCap = 2
  MaxReply = 3
  MaxFds = 1
  MaxCalls = 2
  MaxTasks = 2
  Buttons = {"REGULAR", "OBFUSCATED_NATIVE_NETWORK"}
  Size = 1
  MaxKills = 1
SPECIFICATION FairPostingSpec
INVARIANTS
  TypeOK
  ResourcesAccounted
  WireIsPrefix
  SuccessMeansExchanged
PROPERTIES
  ExhaustionIsFinal
  CallReturns
  PostTaskSpec
CHECK_DEADLOCK FALSE
