CONSTANTS
  Requests = {r1, r2, r3, r4}
  Types = {t1}
  IDs = {i1, i2}
  Values = {v1}
  Nil = Nil
  Absent = Absent
  BadValue = BadValue
  NoID = NoID
  NoObject = NoObject
  Unregistered = Unregistered
  NoRequest = NoRequest
  NoDocument = NoDocument
  Workload <- InsertDelete
  Failing = {"insert"}
  Concurrency = 4
SPECIFICATION AuditSpec
SYMMETRY Symmetry
CHECK_DEADLOCK FALSE
INVARIANT NoDuplicates
