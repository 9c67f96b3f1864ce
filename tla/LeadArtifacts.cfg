SPECIFICATION Spec
CONSTANTS
  l1 = l1
  l2 = l2
  Loader <- MCLoader
  Trainings <- MCTrainings
  Predictions <- MCPredictions
  WordBits = 4
  FixedBits = 2
  Grain = 2
  MaxLoads = 2
  MaxKills = 1
CHECK_DEADLOCK FALSE
SYMMETRY Sym
INVARIANTS
  PublishedFilesAgree
  AnswersAgree
  HashKeepsOrder
PROPERTIES
  RefusalIsJustified
