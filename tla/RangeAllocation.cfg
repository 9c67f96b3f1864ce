SPECIFICATION TrainingSpec
CONSTANTS
  MaxCentroids = 6
  Masses <- MCMasses
  MaxTotal = 15
  Word = 4
  Spaces <- MCSpaces
  MaxGraphEdges = 3
  MaxNeighbors = 1
  PruneTrigger = 2
  Scale = 6
  MaxGiven = 3
  Trainings <- MCTrainings
INVARIANTS
  ValidationPasses
  SharesAreFair
  HashesFollowOrder
  PathsAgree
  OrderCoversCentroids
PROPERTIES
  OrderImproves
