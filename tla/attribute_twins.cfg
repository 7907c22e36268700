SPECIFICATION Spec
CONSTANTS
  a1 = a1
  a2 = a2
  r1 = r1
  r2 = r2
  Attribute <- MCTwo
  Request <- MCTwoRequests
  Text <- MCText
  Name <- MCSameName
  MaxFaults = 0
  MaxCrashes = 0
PROPERTIES
  NoUsableNamesake
CHECK_DEADLOCK FALSE
