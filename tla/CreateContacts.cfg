CONSTANTS
  MaxTasks = 3
  NumContacts = 2
  MaxActivities = 2
SPECIFICATION FairSpec
INVARIANTS
  TypeOK
  BarTellsCreation
  BookInOrder
  ReportedIsWritten
PROPERTIES
  BarIsHidden
CHECK_DEADLOCK FALSE
