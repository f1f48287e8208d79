CONSTANTS
  Requests = {1, 2, 3}
  Types = {1}
  IDs = {i1}
  Values = {v1}
  Defs = {d1}
  None = None
  Workload <- AllRequests
  TxnWorkload <- TxnRequests
  MaxTxns = 0
  MaxTxnSize = 0
  Concurrency = 1
  MaxCrashes = 1
  MaxSnapshots = 1
  LiveSnapshots = TRUE
SPECIFICATION Spec
SYMMETRY Symmetry
CHECK_DEADLOCK FALSE
INVARIANT RecoversAnswered
