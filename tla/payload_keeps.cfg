SPECIFICATION Spec
CONSTANTS
  p1 = p1
  p2 = p2
  Payload <- MCTwo
  ActiveLearning = FALSE
  ReportedProgress = {}
  MaxFaults = 0
  MaxCrashes = 0
PROPERTIES
  FailedRunKeepsResults
CHECK_DEADLOCK FALSE
