SPECIFICATION Spec
CONSTANTS
  OptionSets <- MCOptionSets
  MaxEdits = 1
  MaxFaults = 1
  w1 = w1
  w2 = w2
  Wizards <- MCWizards
  EmptyGroups = {"Question Type"}
  MaxWizardFaults = 1
INVARIANTS
  ReferencesRestored
  
  EntriesFindTheirInputs
  SetupComplete
PROPERTIES
  EmbeddingsServed
  SetupEnds
CHECK_DEADLOCK FALSE
