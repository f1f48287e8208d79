CONSTANTS
  Requests = {r1, r2, r3, r4}
  MaxID = 3
  MaxCrashes = 2
  MaxSnapshots = 1
  ExplicitIDs = {1}
  WithTruncate = TRUE
  Concurrency = 4
SPECIFICATION Spec
SYMMETRY Symmetry
CHECK_DEADLOCK FALSE
INVARIANTS
  TypeOK
  
  GeneratedIDsDistinct
