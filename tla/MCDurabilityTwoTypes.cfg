CONSTANTS
  Requests = {1, 2, 3, 4}
  Types = {1, 2}
  IDs = {i1}
  Values = {v1, v2}
  Defs = {d1}
  None = None
  Workload <- AllRequests
  TxnWorkload <- TxnRequests
  MaxTxns = 0
  MaxTxnSize = 0
  Concurrency = 1
  MaxCrashes = 1
  MaxSnapshots = 0
  LiveSnapshots = FALSE
SPECIFICATION Spec
SYMMETRY Symmetry
CHECK_DEADLOCK FALSE
INVARIANT RecoversAnswered
