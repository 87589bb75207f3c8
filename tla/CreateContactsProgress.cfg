CONSTANTS
  MaxTasks = 2
  NumContacts = 2
  MaxActivities = 2
SPECIFICATION Spec
INVARIANTS
  ReportedMeansProgress
CHECK_DEADLOCK FALSE
