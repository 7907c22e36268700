SPECIFICATION Spec
CONSTANTS
  p1 = p1
  p2 = p2
  Payload <- MCTwo
  ActiveLearning = TRUE
  ReportedProgress = {}
  MaxFaults = 0
  MaxCrashes = 0
SYMMETRY MCSymmetry
INVARIANTS
  ResultsOnlyReplaced
  MixedResultsOverlap
  EarlyCancelHonoured
CHECK_DEADLOCK FALSE
