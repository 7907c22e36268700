SPECIFICATION Spec
CONSTANTS
  t1 = t1
  t2 = t2
  n1 = n1
  n2 = n2
  p1 = p1
  p2 = p2
  Task <- MCOneTask
  Cognition <- MCOneTask
  Zip <- MCNone
  Notification <- MCTwoNotifications
  Put <- MCTwoPuts
  Job <- MCSingleJob
  Keyed = TRUE
  Chunks = 1
  MaxFaults = 1
  MaxCrashes = 0
INVARIANTS
  PreparationAnswers
CHECK_DEADLOCK FALSE
