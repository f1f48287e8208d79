CONSTANTS
  Requests = {r1, r2}
  Admins = {a1, a2}
  Types = {t1}
  IDs = {i1, i2}
  Values = {v1, v2}
  Nil = Nil
  Absent = Absent
  BadValue = BadValue
  NoID = NoID
  NoObject = NoObject
  Unregistered = Unregistered
  NoRequest = NoRequest
  NoSchema = NoSchema
  Workload <- DataRequests
  SchemaRequests <- AllSchemaRequests
  Failing = {"insert", "update", "delete"}
  SchemaFailing = {"register", "updatetype"}
  Concurrency = 2
SPECIFICATION SchemaSpec
SYMMETRY Symmetry
CHECK_DEADLOCK FALSE
INVARIANTS
  
  SchemaChangeKeepsIndex
  SchemaChangeKeepsUnique
