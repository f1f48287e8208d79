------------------------- MODULE MCEngineRefinement -------------------------
(* The instance of EngineRefinement for TLC. *)
EXTENDS EngineRefinement

(* Every kind of request, with a valid field, without one, or refused. *)
AllRequests ==
  [op: {"insert", "update"}, type: Types, id: IDs, val: Values \cup {Nil}]
    \cup
  [op: {"update"}, type: Types, id: IDs, val: {Absent, BadValue}]
    \cup
  [op: {"delete"}, type: Types, id: IDs, val: {Nil}]
    \cup
  [op: {"truncate"}, type: Types, id: {CHOOSE i \in IDs : TRUE}, val: {Nil}]
    \cup
  [op: {"truncatedb"}, type: {CHOOSE t \in Types : TRUE},
   id: {CHOOSE i \in IDs : TRUE}, val: {Nil}]
=============================================================================
