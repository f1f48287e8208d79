CONSTANTS
  Requests = {r1, r2}
  Admins = {a1}
  Types = {t1}
  IDs = {i1, i2}
  Values = {v1}
  Nil = Nil
  Absent = Absent
  BadValue = BadValue
  NoID = NoID
  NoObject = NoObject
  Unregistered = Unregistered
  NoRequest = NoRequest
  NoSchema = NoSchema
  Workload <- Inserts
  SchemaRequests <- ValidUpdates
  Failing = {}
  SchemaFailing = {}
  Concurrency = 3
SPECIFICATION SchemaSpec
SYMMETRY Symmetry
CHECK_DEADLOCK FALSE
INVARIANT NoDuplicates
