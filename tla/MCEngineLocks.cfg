CONSTANTS
  Goroutines = {g1, g2, g3}
  NoWriter = NoWriter
  Operations = {"Get", "Query", "Insert", "Update", "Delete", "TruncateEntityType", "TruncateDatabase", "RegisterEntityType", "UpdateEntityType"}
SPECIFICATION FairSpec
INVARIANTS
  TypeOK
  LockDiscipline
PROPERTY EveryRequestEnds
