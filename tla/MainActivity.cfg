CONSTANTS
  MaxTasks = 3
  NumContacts = 1
  MaxActivities = 2
  Buttons = {"REGULAR"}
  Size = 1
  MaxFds = 1
  MaxKills = 1
  MaxCreations = 2
SPECIFICATION Spec
INVARIANTS
  TypeOK
  ReportedIsPosted
  ContentIsSnapshot
  LaterPostsMore
PROPERTIES
  ServiceSpec
CHECK_DEADLOCK FALSE
