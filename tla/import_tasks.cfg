SPECIFICATION FairSpec
CONSTANTS
  t1 = t1
  t2 = t2
  n1 = n1
  n2 = n2
  p1 = p1
  p2 = p2
  Task <- MCTwoTasks
  Cognition <- MCOneTask
  Zip <- MCOtherTask
  Notification <- MCTwoNotifications
  Put <- MCTwoPuts
  Job <- MCTwoJobs
  Keyed = TRUE
  Chunks = 2
  MaxFaults = 1
  MaxCrashes = 1
INVARIANTS
  ReportedRowsExist
  KeyedRowsOnce
  ContinuedOnceUnlessRaced
PROPERTIES
  ImportsSettle
CHECK_DEADLOCK FALSE
