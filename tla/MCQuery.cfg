CONSTANTS
  IDs = {0, 1, 2, 3, 4, 5, 6}
  Registered = {"order", "customer"}
  Indexed <- IndexedFields
  Workloads <- AllWorkloads
SPECIFICATION DataSpec
INVARIANTS
  TypeOK
  PagesRepeatNothing
  PagesMissNothing
  WalkEnds
  
  JoinKeepsStable
  CreateAnswersOwn
  ReachesTheNamed
PROPERTIES
  PageExact
  
