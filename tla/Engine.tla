------------------------------- MODULE Engine -------------------------------
(***************************************************************************)
(* The in-memory store of SyncopateDB: internal/datastore/datastore_engine *)
(* and datastore_truncate.  Every HTTP request runs in its own goroutine   *)
(* and goes through the same three stretches:                              *)
(*                                                                         *)
(*   prepare  look the entity up and validate, under dse.mu.RLock;         *)
(*   commit   check again and change the maps, under dse.mu.Lock;          *)
(*   persist  call the persistence provider with NO lock held, and take    *)
(*            the lock again to roll back if the call fails.               *)
(*                                                                         *)
(* A stretch under the lock is one step; between two stretches the steps   *)
(* of other requests happen.                                               *)
(*                                                                         *)
(* An entity has one user field; its schema says whether the field is      *)
(* indexed and whether it is unique.  dse.entities maps a key to a struct  *)
(* whose Fields is a Go map, that is a reference: the map object is named  *)
(* after the request that made it (the body of an Insert, the backup copy  *)
(* of an Update or a Delete), and `heap' holds what the objects contain.   *)
(***************************************************************************)
EXTENDS Naturals, FiniteSets

CONSTANTS
  Requests,      \* the goroutines that serve requests, one request each
  Types,         \* entity types
  IDs,           \* entity IDs (the ones ValidateID accepts)
  Values,        \* values of the field that pass validation
  Nil,           \* the field is null or missing in an entity
  Absent,        \* the field is not mentioned by an Update
  BadValue,      \* a value that validation refuses
  NoID,          \* no entry in a unique index
  NoObject,      \* no entity under a key
  Unregistered,  \* no definition under a type name
  NoRequest,     \* the goroutine has not got its request yet
  Workload,      \* the requests clients may send
  Failing,       \* the operations whose persistence call may fail
  Concurrency    \* how many requests may be in flight at a time

Ops == {"insert", "update", "delete", "truncate", "truncatedb"}

Request == [op: Ops, type: Types, id: IDs,
            val: Values \cup {Nil, Absent, BadValue}]

Schema == [unique: BOOLEAN, indexed: BOOLEAN]

ASSUME MarkersDistinct ==
  /\ Nil \notin Values /\ Absent \notin Values /\ BadValue \notin Values
  /\ Nil # Absent /\ Nil # BadValue /\ Absent # BadValue
  /\ NoID \notin IDs /\ NoObject \notin Requests
  /\ Unregistered \notin Schema /\ NoRequest \notin Request

ASSUME WorkloadAssumption == Workload \subseteq Request

ASSUME FailingAssumption == Failing \subseteq Ops

ASSUME ConcurrencyAssumption == Concurrency \in Nat

VARIABLES
  definitions,    \* dse.definitions: type -> schema
  entities,       \* dse.entities: type, ID -> Fields object
  heap,           \* what each Fields object holds
  indices,        \* dse.indices: type, value -> how often each ID is listed
  uniqueIndices,  \* dse.uniqueIndices: type, value -> ID
  pc,             \* where each request is
  req             \* the request each goroutine serves

vars == <<definitions, entities, heap, indices, uniqueIndices, pc, req>>

Active(r) == pc[r] \in {"commit", "persist"}

-----------------------------------------------------------------------------
(* The definition and the entities as the handlers read them. *)

Registered(t) == definitions[t] # Unregistered

Unique(t) == Registered(t) /\ definitions[t].unique

Indexed(t) == Registered(t) /\ definitions[t].indexed

Exists(t, i) == entities[t][i] # NoObject

FieldOf(t, i) == heap[entities[t][i]]

(* validateEntityData: every field of an Insert is known, present when it is
   required and of its type. *)
ValidData(v) == v # BadValue

(* validateUpdateData: only the fields that are mentioned are looked at. *)
ValidUpdate(v) == v # BadValue

(* The value of the field after an Update merged its data into the entity. *)
Merged(v, current) == IF v = Absent THEN current ELSE v

(* validateUniqueness: the type is registered and the value is free, or held
   by the entity `self' itself; an Insert passes no entity.  It is called in
   the first stretch, on the data of the request, and again in the commit. *)
UniquenessHolds(t, v, self) ==
  /\ Registered(t)
  /\ Unique(t) /\ v \in Values => uniqueIndices[t][v] \in {NoID, self}

-----------------------------------------------------------------------------
(* updateIndices and updateUniqueIndices: what they make of the indices of
   one type when entity i with field v is added or removed.  Removal from a
   unique index does not ask whose entry it is. *)

AddIndex(index, t, i, v) ==
  IF Indexed(t) /\ v \in Values THEN [index EXCEPT ![v][i] = @ + 1] ELSE index

(* A mutant: the entry is taken out without looking whether it is there. *)
RemoveIndexBlindly(index, t, i, v) ==
  IF Indexed(t) /\ v \in Values THEN [index EXCEPT ![v][i] = @ - 1] ELSE index

RemoveIndex(index, t, i, v) ==
  IF Indexed(t) /\ v \in Values
    THEN [index EXCEPT ![v][i] = IF @ = 0 THEN 0 ELSE @ - 1]
    ELSE index

AddUnique(index, t, i, v) ==
  IF Unique(t) /\ v \in Values THEN [index EXCEPT ![v] = i] ELSE index

RemoveUnique(index, t, v) ==
  IF Unique(t) /\ v \in Values THEN [index EXCEPT ![v] = NoID] ELSE index

EmptyIndex == [v \in Values |-> [i \in IDs |-> 0]]

EmptyUnique == [v \in Values |-> NoID]

Init ==
  /\ definitions \in [Types -> Schema \cup {Unregistered}]
  /\ entities = [t \in Types |-> [i \in IDs |-> NoObject]]
  /\ heap = [r \in Requests |-> Nil]
  /\ indices = [t \in Types |-> EmptyIndex]
  /\ uniqueIndices = [t \in Types |-> EmptyUnique]
  /\ pc = [r \in Requests |-> "idle"]
  /\ req = [r \in Requests |-> NoRequest]

-----------------------------------------------------------------------------
(* A request arrives: its first stretch reads under RLock and either goes on
   to the commit or returns an error.  `obj' is what the Fields object that
   the request makes holds: the body of an Insert, the backup of the entity
   for an Update or a Delete. *)

Arrive(r, q, admitted, obj) ==
  /\ pc[r] = "idle"
  /\ Cardinality({s \in Requests : Active(s)}) < Concurrency
  /\ q \in Workload
  /\ req' = [req EXCEPT ![r] = q]
  /\ pc' = [pc EXCEPT ![r] = IF admitted THEN "commit" ELSE "rejected"]
  /\ heap' = [heap EXCEPT ![r] = IF admitted THEN obj ELSE @]
  /\ UNCHANGED <<definitions, entities, indices, uniqueIndices>>

InsertPrepare(r, q) ==
  /\ q.op = "insert"
  /\ Arrive(r, q,
            /\ ValidData(q.val)
            /\ UniquenessHolds(q.type, q.val, NoID)
            /\ ~Exists(q.type, q.id),
            IF q.val \in Values THEN q.val ELSE Nil)

UpdatePrepare(r, q) ==
  /\ q.op = "update"
  /\ Arrive(r, q,
            /\ Exists(q.type, q.id)
            /\ ValidUpdate(q.val)
            /\ UniquenessHolds(q.type, q.val, q.id),
            FieldOf(q.type, q.id))

DeletePrepare(r, q) ==
  /\ q.op = "delete"
  /\ Arrive(r, q, Exists(q.type, q.id), FieldOf(q.type, q.id))

TruncatePrepare(r, q) ==
  /\ q.op = "truncate"
  /\ Arrive(r, q, Registered(q.type), heap[r])

TruncateDatabasePrepare(r, q) ==
  /\ q.op = "truncatedb"
  /\ Arrive(r, q, TRUE, heap[r])

-----------------------------------------------------------------------------
(* The commit: the write lock is held, every check is made again. *)

Refuse(r) ==
  /\ pc' = [pc EXCEPT ![r] = "rejected"]
  /\ UNCHANGED <<definitions, entities, heap, indices, uniqueIndices, req>>

(* A mutant: the commit relies on the uniqueness check of the first stretch. *)
InsertCommitTrusting(r) ==
  LET t == req[r].type
      i == req[r].id
      v == heap[r]
  IN  /\ pc[r] = "commit"
      /\ req[r].op = "insert"
      /\ IF Registered(t) /\ ~Exists(t, i)
           THEN /\ entities' = [entities EXCEPT ![t][i] = r]
                /\ indices' = [indices EXCEPT ![t] = AddIndex(@, t, i, v)]
                /\ uniqueIndices' =
                     [uniqueIndices EXCEPT ![t] = AddUnique(@, t, i, v)]
                /\ pc' = [pc EXCEPT ![r] = "persist"]
                /\ UNCHANGED <<definitions, heap, req>>
           ELSE Refuse(r)

InsertCommit(r) ==
  LET t == req[r].type
      i == req[r].id
      v == heap[r]
  IN  /\ pc[r] = "commit"
      /\ req[r].op = "insert"
      /\ IF Registered(t) /\ ~Exists(t, i) /\ UniquenessHolds(t, v, NoID)
           THEN /\ entities' = [entities EXCEPT ![t][i] = r]
                /\ indices' = [indices EXCEPT ![t] = AddIndex(@, t, i, v)]
                /\ uniqueIndices' =
                     [uniqueIndices EXCEPT ![t] = AddUnique(@, t, i, v)]
                /\ pc' = [pc EXCEPT ![r] = "persist"]
                /\ UNCHANGED <<definitions, heap, req>>
           ELSE Refuse(r)

(* A mutant: the index entries of the backup, made before the write lock was
   taken, are removed instead of those of the entity as it is. *)
UpdateCommitStale(r) ==
  LET t   == req[r].type
      i   == req[r].id
      new == Merged(req[r].val, FieldOf(t, i))
  IN  /\ pc[r] = "commit"
      /\ req[r].op = "update"
      /\ IF Exists(t, i) /\ UniquenessHolds(t, new, i)
           THEN /\ heap' = [heap EXCEPT ![entities[t][i]] = new]
                /\ indices' = [indices EXCEPT ![t] =
                     AddIndex(RemoveIndex(@, t, i, heap[r]), t, i, new)]
                /\ uniqueIndices' = [uniqueIndices EXCEPT ![t] =
                     AddUnique(RemoveUnique(@, t, heap[r]), t, i, new)]
                /\ pc' = [pc EXCEPT ![r] = "persist"]
                /\ UNCHANGED <<definitions, entities, req>>
           ELSE Refuse(r)

(* The entity's Fields map is changed in place: whoever holds a reference to
   it (the goroutine of the Insert that made it, for one) sees the change. *)
UpdateCommit(r) ==
  LET t   == req[r].type
      i   == req[r].id
      old == FieldOf(t, i)
      new == Merged(req[r].val, old)
  IN  /\ pc[r] = "commit"
      /\ req[r].op = "update"
      /\ IF Exists(t, i) /\ UniquenessHolds(t, new, i)
           THEN /\ heap' = [heap EXCEPT ![entities[t][i]] = new]
                /\ indices' = [indices EXCEPT ![t] =
                     AddIndex(RemoveIndex(@, t, i, old), t, i, new)]
                /\ uniqueIndices' = [uniqueIndices EXCEPT ![t] =
                     AddUnique(RemoveUnique(@, t, old), t, i, new)]
                /\ pc' = [pc EXCEPT ![r] = "persist"]
                /\ UNCHANGED <<definitions, entities, req>>
           ELSE Refuse(r)

DeleteCommit(r) ==
  LET t == req[r].type
      i == req[r].id
      v == FieldOf(t, i)
  IN  /\ pc[r] = "commit"
      /\ req[r].op = "delete"
      /\ IF Exists(t, i)
           THEN /\ entities' = [entities EXCEPT ![t][i] = NoObject]
                /\ indices' = [indices EXCEPT ![t] = RemoveIndex(@, t, i, v)]
                /\ uniqueIndices' =
                     [uniqueIndices EXCEPT ![t] = RemoveUnique(@, t, v)]
                /\ pc' = [pc EXCEPT ![r] = "persist"]
                /\ UNCHANGED <<definitions, heap, req>>
           ELSE Refuse(r)

(* Every entity of the type is taken out of the indices and of the map;
   nothing is persisted when there was none. *)
TruncateCommit(r) ==
  LET t == req[r].type
      Holders(v) == {i \in IDs : Exists(t, i) /\ FieldOf(t, i) = v}
  IN  /\ pc[r] = "commit"
      /\ req[r].op = "truncate"
      /\ entities' = [entities EXCEPT ![t] = [i \in IDs |-> NoObject]]
      /\ indices' = [indices EXCEPT ![t] =
           [v \in Values |-> [i \in IDs |->
              IF Indexed(t) /\ i \in Holders(v) /\ @[v][i] > 0
                THEN @[v][i] - 1 ELSE @[v][i]]]]
      /\ uniqueIndices' = [uniqueIndices EXCEPT ![t] =
           [v \in Values |->
              IF Unique(t) /\ Holders(v) # {} THEN NoID ELSE @[v]]]
      /\ pc' = [pc EXCEPT ![r] =
           IF \E i \in IDs : Exists(t, i) THEN "persist" ELSE "ok"]
      /\ UNCHANGED <<definitions, heap, req>>

(* All entities go, and all indices are made anew. *)
TruncateDatabaseCommit(r) ==
  /\ pc[r] = "commit"
  /\ req[r].op = "truncatedb"
  /\ IF \E t \in Types : \E i \in IDs : Exists(t, i)
       THEN /\ entities' = [t \in Types |-> [i \in IDs |-> NoObject]]
            /\ indices' = [t \in Types |-> EmptyIndex]
            /\ uniqueIndices' = [t \in Types |-> EmptyUnique]
            /\ pc' = [pc EXCEPT ![r] = "persist"]
            /\ UNCHANGED <<definitions, heap, req>>
       ELSE /\ pc' = [pc EXCEPT ![r] = "ok"]
            /\ UNCHANGED <<definitions, entities, heap, indices,
                           uniqueIndices, req>>

-----------------------------------------------------------------------------
(* The persistence call returns.  When it succeeds the request is answered;
   when it fails the request takes the lock again and rolls back. *)

Persisted(r) ==
  /\ pc[r] = "persist"
  /\ pc' = [pc EXCEPT ![r] = "ok"]
  /\ UNCHANGED <<definitions, entities, heap, indices, uniqueIndices, req>>

PersistFails(r, op) ==
  /\ pc[r] = "persist"
  /\ req[r].op = op
  /\ op \in Failing
  /\ pc' = [pc EXCEPT ![r] = "failed"]
  /\ UNCHANGED <<definitions, heap, req>>

(* The key is removed whatever it now maps to, and the index entries that the
   request's own Fields object, as it now is, stands for. *)
InsertRollback(r) ==
  LET t == req[r].type
      i == req[r].id
      v == heap[r]
  IN  /\ PersistFails(r, "insert")
      /\ entities' = [entities EXCEPT ![t][i] = NoObject]
      /\ indices' = [indices EXCEPT ![t] = RemoveIndex(@, t, i, v)]
      /\ uniqueIndices' = [uniqueIndices EXCEPT ![t] = RemoveUnique(@, t, v)]

(* A mutant: the backup is put back into the map and not into the indices. *)
UpdateRollbackNoIndex(r) ==
  /\ PersistFails(r, "update")
  /\ entities' = [entities EXCEPT ![req[r].type][req[r].id] = r]
  /\ UNCHANGED <<indices, uniqueIndices>>

(* The entity now under the key leaves the indices, and the backup made
   before the commit is put back.  If the key is empty there is nothing to
   take out of the indices. *)
UpdateRollback(r) ==
  LET t   == req[r].type
      i   == req[r].id
      now == IF Exists(t, i) THEN FieldOf(t, i) ELSE Nil
  IN  /\ PersistFails(r, "update")
      /\ entities' = [entities EXCEPT ![t][i] = r]
      /\ indices' = [indices EXCEPT ![t] =
           AddIndex(RemoveIndex(@, t, i, now), t, i, heap[r])]
      /\ uniqueIndices' = [uniqueIndices EXCEPT ![t] =
           AddUnique(RemoveUnique(@, t, now), t, i, heap[r])]

(* A mutant: a failed Delete is reported and not undone. *)
DeleteRollbackForgotten(r) ==
  /\ PersistFails(r, "delete")
  /\ UNCHANGED <<entities, indices, uniqueIndices>>

DeleteRollback(r) ==
  LET t == req[r].type
      i == req[r].id
  IN  /\ PersistFails(r, "delete")
      /\ entities' = [entities EXCEPT ![t][i] = r]
      /\ indices' = [indices EXCEPT ![t] = AddIndex(@, t, i, heap[r])]
      /\ uniqueIndices' =
           [uniqueIndices EXCEPT ![t] = AddUnique(@, t, i, heap[r])]

(* A truncation is not rolled back: the client only gets the error. *)
TruncateFails(r) ==
  /\ \E op \in {"truncate", "truncatedb"} : PersistFails(r, op)
  /\ UNCHANGED <<entities, indices, uniqueIndices>>

-----------------------------------------------------------------------------
Prepare(r) ==
  \E q \in Workload :
    \/ InsertPrepare(r, q)
    \/ UpdatePrepare(r, q)
    \/ DeletePrepare(r, q)
    \/ TruncatePrepare(r, q)
    \/ TruncateDatabasePrepare(r, q)

Commit(r) ==
  \/ InsertCommit(r)
  \/ UpdateCommit(r)
  \/ DeleteCommit(r)
  \/ TruncateCommit(r)
  \/ TruncateDatabaseCommit(r)

Rollback(r) ==
  \/ InsertRollback(r)
  \/ UpdateRollback(r)
  \/ DeleteRollback(r)
  \/ TruncateFails(r)

Next == \E r \in Requests : Prepare(r) \/ Commit(r) \/ Persisted(r) \/ Rollback(r)

Spec == Init /\ [][Next]_vars

-----------------------------------------------------------------------------
(* The sets the variables range over: every stretch of every handler leaves
   the maps of the engine well-formed. *)
TypeOK ==
  /\ definitions \in [Types -> Schema \cup {Unregistered}]
  /\ entities \in [Types -> [IDs -> Requests \cup {NoObject}]]
  /\ heap \in [Requests -> Values \cup {Nil}]
  /\ indices \in [Types -> [Values -> [IDs -> Nat]]]
  /\ uniqueIndices \in [Types -> [Values -> IDs \cup {NoID}]]
  /\ pc \in [Requests ->
       {"idle", "commit", "persist", "ok", "rejected", "failed"}]
  /\ req \in [Requests -> Request \cup {NoRequest}]

(* Only a goroutine that got a request is past its start, and an Update that
   comes to its commit has validated its data. *)
Served ==
  \A r \in Requests :
    /\ pc[r] # "idle" => req[r] \in Request
    /\ pc[r] = "commit" /\ req[r].op = "update" => req[r].val # BadValue

(* The Fields map that an entity refers to was made by a request for that very
   entity, which is past its first stretch: an Update that changes the map in
   place changes this entity and no other. *)
FieldsNotShared ==
  \A t \in Types, i \in IDs : Exists(t, i) =>
    LET r == entities[t][i]
    IN  pc[r] # "idle" /\ req[r].type = t /\ req[r].id = i

(* No entity has been put back or taken out by a rollback yet. *)
NoRollbackYet ==
  \A r \in Requests :
    pc[r] = "failed" => req[r].op \in {"truncate", "truncatedb"}

(* Entity i of type t is there and its field holds v. *)
Holds(t, i, v) == Exists(t, i) /\ FieldOf(t, i) = v

(* What validateUniqueness relies on: the unique index of a type says of each
   value exactly which entity has it. *)
UniqueIndexExact ==
  \A t \in Types : Unique(t) =>
    \A v \in Values, i \in IDs : uniqueIndices[t][v] = i <=> Holds(t, i, v)

(* What Query relies on when it answers an equality filter from the index:
   each entity is listed once under its value and nowhere else. *)
IndexExact ==
  \A t \in Types : Indexed(t) =>
    \A v \in Values, i \in IDs :
      indices[t][v][i] = IF Holds(t, i, v) THEN 1 ELSE 0

(* README: "A unique constraint ensures that no two entities of the same type
   can have the same value for that field." *)
NoDuplicates ==
  \A t \in Types : Unique(t) =>
    \A v \in Values, i, j \in IDs : Holds(t, i, v) /\ Holds(t, j, v) => i = j

(* As long as no persistence call of an Insert, Update or Delete has failed,
   the checks under the write lock keep both kinds of index exact under every
   interleaving of requests. *)
IndicesExactWithoutRollback ==
  NoRollbackYet => UniqueIndexExact /\ IndexExact

(* As long as no such call has failed, concurrent requests cannot get two
   entities with the same unique value into a type. *)
UniqueWithoutRollback == NoRollbackYet => NoDuplicates
=============================================================================
