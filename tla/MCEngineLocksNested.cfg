CONSTANTS
  Goroutines = {g1, g2}
  NoWriter = NoWriter
  Operations = {"GetByType", "Update"}
SPECIFICATION FairSpec
PROPERTY EveryRequestEnds
CHECK_DEADLOCK FALSE
