CONSTANTS
  Requests = {r1, r2, r3}
  Types = {t1}
  IDs = {i1, i2}
  Values = {v1, v2}
  Nil = Nil
  Absent = Absent
  BadValue = BadValue
  NoID = NoID
  NoObject = NoObject
  Unregistered = Unregistered
  NoRequest = NoRequest
  NoDocument = NoDocument
  Workload <- AllRequests
  Failing = {"insert", "update", "delete", "truncate", "truncatedb"}
  Concurrency = 3
SPECIFICATION AuditSpec
SYMMETRY Symmetry
CHECK_DEADLOCK FALSE
INVARIANTS
  TypeOK
  IndicesExactWithoutRollback
  UniqueWithoutRollback
  RollbackRestoresIndices
  FailedLeaveNoTrace
