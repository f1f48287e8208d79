--------------------------- MODULE MCEngineSchema ---------------------------
(* Instances of EngineSchema for TLC. *)
EXTENDS EngineSchema, TLC

DataRequests ==
  [op: {"insert", "update"}, type: Types, id: IDs, val: Values]
    \cup
  [op: {"delete"}, type: Types, id: IDs, val: {Nil}]

Inserts == [op: {"insert"}, type: Types, id: IDs, val: Values]

AllSchemaRequests == SchemaRequest

ValidUpdates ==
  [op: {"updatetype"}, type: Types, def: [unique: BOOLEAN, indexed: {FALSE}],
   valid: {TRUE}]

Symmetry == Permutations(Requests) \cup Permutations(Admins)
              \cup Permutations(Values)
=============================================================================
