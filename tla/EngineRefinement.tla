-------------------------- MODULE EngineRefinement --------------------------
(***************************************************************************)
(* The engine implements DocumentStore: forget the indices and the Fields  *)
(* objects, read the documents through them, and call a request that has   *)
(* committed but is not yet answered "effective".                          *)
(***************************************************************************)
EXTENDS Engine

CONSTANT NoDocument

ASSUME NoDocumentAssumption == NoDocument \notin Values \cup {Nil}

Documents ==
  [t \in Types |-> [i \in IDs |->
     IF Exists(t, i) THEN FieldOf(t, i) ELSE NoDocument]]

Progress ==
  [r \in Requests |->
     CASE pc[r] = "commit"  -> "waiting"
       [] pc[r] = "persist" -> "effective"
       [] OTHER -> pc[r]]

Abstract == INSTANCE DocumentStore
  WITH schema <- definitions, contents <- Documents,
       status <- Progress, asked <- req

(* The steps of the engine when every Insert, Update and Delete is persisted. *)
PersistingNext ==
  \E r \in Requests : Prepare(r) \/ Commit(r) \/ Persisted(r) \/ TruncateFails(r)

PersistingSpec == Init /\ [][PersistingNext]_vars

(* Every request on the engine takes effect at one moment between its arrival
   and its answer, and is refused only for a reason that is true at one: the
   stale reads of the first stretch, the indices and the shared Fields objects
   cannot be told apart from a plain table (no persistence call of an Insert,
   Update or Delete failing). *)
ImplementsDocumentStore == Abstract!AbsSpec
=============================================================================
