---------------------------- MODULE MCEngineAudit ----------------------------
(* Instances of Engine and EngineAudit for TLC. *)
EXTENDS EngineAudit, TLC

(* Every request on entities whose field is valid, null, missing or bad; a
   Delete and a truncation carry no value, a truncation no ID. *)
AllRequests ==
  [op: {"insert"}, type: Types, id: IDs, val: Values \cup {Nil, BadValue}]
    \cup
  [op: {"update"}, type: Types, id: IDs, val: Values \cup {Nil, Absent, BadValue}]
    \cup
  [op: {"delete"}, type: Types, id: IDs, val: {Nil}]
    \cup
  [op: {"truncate"}, type: Types, id: {CHOOSE i \in IDs : TRUE}, val: {Nil}]
    \cup
  [op: {"truncatedb"}, type: {CHOOSE t \in Types : TRUE},
   id: {CHOOSE i \in IDs : TRUE}, val: {Nil}]

InsertDelete ==
  [op: {"insert"}, type: Types, id: IDs, val: Values]
    \cup
  [op: {"delete"}, type: Types, id: IDs, val: {Nil}]

Symmetry == Permutations(Requests) \cup Permutations(Values)
=============================================================================
