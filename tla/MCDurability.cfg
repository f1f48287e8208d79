CONSTANTS
  Requests = {1, 2, 3, 4}
  Types = {1}
  IDs = {i1, i2}
  Values = {v1, v2}
  Defs = {d1, d2}
  None = None
  Workload <- AllRequests
  TxnWorkload <- TxnRequests
  MaxTxns = 1
  MaxTxnSize = 2
  Concurrency = 1
  MaxCrashes = 2
  MaxSnapshots = 1
  LiveSnapshots = FALSE
SPECIFICATION Spec
SYMMETRY Symmetry
CHECK_DEADLOCK FALSE
INVARIANTS
  TypeOK
  
  
  
