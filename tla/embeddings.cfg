SPECIFICATION MCSpec
CONSTANTS
  e1 = e1
  e2 = e2
  l1 = l1
  l2 = l2
  d1 = d1
  d2 = d2
  d3 = d3
  text = text
  list = list
  Original = Original
  Nothing = Nothing
  Edit <- MCEdits
  Attribute <- MCAttributes
  Text <- MCTexts
  SubKeyed <- MCSubKeyed
  Embeds <- MCEmbeds
  MaxImports = 1
  Embedding <- MCTwo
  External <- MCExternal
  Loop <- MCLoops
  MaxGeneration = 2
  MaxFaults = 1
  MaxCrashes = 1
INVARIANTS
  FinishedHasAgreement
  OneRowEach
  PendingHasWorker
  AnswersAreTrue
  DerivedFollowsData
PROPERTIES
  RecreationEnds
  EditsEnd
CHECK_DEADLOCK FALSE
