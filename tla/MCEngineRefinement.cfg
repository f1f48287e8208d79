CONSTANTS
  Requests = {r1, r2, r3}
  Types = {t1}
  IDs = {i1, i2}
  Values = {v1, v2}
  Nil = Nil
  Absent = Absent
  BadValue = BadValue
  NoID = NoID
  NoObject = NoObject
  Unregistered = Unregistered
  NoRequest = NoRequest
  Workload <- AllRequests
  Failing = {"truncate", "truncatedb"}
  NoDocument = NoDocument
  Concurrency = 3
SPECIFICATION PersistingSpec

PROPERTY ImplementsDocumentStore
CHECK_DEADLOCK FALSE
