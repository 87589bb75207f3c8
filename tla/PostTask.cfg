CONSTANTS
  MaxTasks = 2
  Buttons = {"REGULAR", "OBFUSCATED_JAVA", "OBFUSCATED_NATIVE_NETWORK", "OBFUSCATED_NATIVE_UNTAINT", "OBFUSCATED_NATIVE_FILESYSTEM"}
  Size = 2
  MaxFds = 1
  MaxKills = 1
SPECIFICATION FairSpec
INVARIANTS
  TypeOK
  SuccessComesFirst
  OwnContent
  StringsAccounted
PROPERTIES
  LostMeansSilence
  EveryTapAnswered
CHECK_DEADLOCK FALSE
