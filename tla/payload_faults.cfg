SPECIFICATION FairSpec
CONSTANTS
  p1 = p1
  p2 = p2
  Payload <- MCOne
  ActiveLearning = FALSE
  ReportedProgress = {40, 80}
  MaxFaults = 2
  MaxCrashes = 1
INVARIANTS
  NothingLeftBehind
PROPERTIES
  RunsSettle
CHECK_DEADLOCK FALSE
