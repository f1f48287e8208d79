--------------------------- MODULE MCAutoIncrement ---------------------------
(* Instances of AutoIncrement for TLC. *)
EXTENDS AutoIncrement, TLC

Symmetry == Permutations(Requests)
=============================================================================
