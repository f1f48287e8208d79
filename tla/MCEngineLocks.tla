---------------------------- MODULE MCEngineLocks ----------------------------
(* Instances of EngineLocks for TLC. *)
EXTENDS EngineLocks
=============================================================================
