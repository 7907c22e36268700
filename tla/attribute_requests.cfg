SPECIFICATION Spec
CONSTANTS
  a1 = a1
  a2 = a2
  r1 = r1
  r2 = r2
  Attribute <- MCTwo
  Request <- MCTwoRequests
  Text <- MCText
  Name <- MCOwnNames
  MaxFaults = 0
  MaxCrashes = 0
SYMMETRY MCRequestSymmetry
INVARIANTS
  OneRunningUnlessRaced
  CancelHonoured
  RecalculationRestores
CHECK_DEADLOCK FALSE
