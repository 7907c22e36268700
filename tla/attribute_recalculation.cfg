SPECIFICATION FairSpec
CONSTANTS
  a1 = a1
  a2 = a2
  r1 = r1
  r2 = r2
  Attribute <- MCTwo
  Request <- MCOneRequest
  Text <- MCText
  Name <- MCOwnNames
  MaxFaults = 1
  MaxCrashes = 1
INVARIANTS
  UsableHasValues
PROPERTIES
  CalculationsEnd
CHECK_DEADLOCK FALSE
