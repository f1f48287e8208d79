---------------------------- MODULE MCDurability ----------------------------
(* Instances of Durability for TLC. *)
EXTENDS Durability, TLC

Op(ops, ts, is, vs, ds) == [op: ops, type: ts, id: is, val: vs, def: ds]

DataRequests ==
  Op({"insert", "update"}, Types, IDs, Values, {None})
    \cup Op({"delete"}, Types, IDs, {None}, {None})

TypeRequests ==
  Op({"register", "updatetype"}, Types, {None}, {None}, Defs)

Truncations ==
  Op({"truncate"}, Types, {None}, {None}, {None})
    \cup Op({"truncatedb"}, {None}, {None}, {None}, {None})

AllRequests == DataRequests \cup TypeRequests \cup Truncations

TxnRequests == Op({"insert"}, Types, IDs, Values, {None})

Symmetry ==
  Permutations(IDs) \cup Permutations(Defs) \cup Permutations(Values)
=============================================================================
