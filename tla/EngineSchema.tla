---------------------------- MODULE EngineSchema ----------------------------
(***************************************************************************)
(* RegisterEntityType and UpdateEntityType (datastore_engine.go,           *)
(* datastore_schema.go) composed with the data requests of Engine.         *)
(*                                                                         *)
(* UpdateEntityType has four stretches: it reads the definition (RLock);   *)
(* for a field that becomes unique it looks for duplicates (RLock); it     *)
(* re-indexes the entities, changes the definition and rebuilds the        *)
(* indices (Lock); it persists the definition with no lock held and, when  *)
(* that fails, puts the definition it read at the start back.              *)
(***************************************************************************)
EXTENDS Engine

CONSTANTS
  Admins,         \* the goroutines that serve schema requests, one each
  SchemaRequests, \* the schema requests clients may send
  SchemaFailing,  \* the schema operations whose persistence call may fail
  NoSchema        \* nothing read yet

SchemaOps == {"register", "updatetype"}

(* `valid': ValidateEntityTypeFields and createMigrationPlan accept it. *)
SchemaRequest == [op: SchemaOps, type: Types, def: Schema, valid: BOOLEAN]

ASSUME SchemaAssumption ==
  /\ SchemaRequests \subseteq SchemaRequest
  /\ SchemaFailing \subseteq SchemaOps
  /\ NoSchema \notin Schema \cup {Unregistered} \cup SchemaRequest

VARIABLES
  adminPc,      \* where each schema request is
  adminReq,     \* what it asks for
  originalDef,  \* the definition it read at the start
  overlapped    \* history: two requests have been in flight at a time

adminVars == <<adminPc, adminReq, originalDef>>

dataVars == <<entities, heap, pc, req>>

schemaVars == <<vars, adminVars, overlapped>>

AdminActive(a) == adminPc[a] \in {"register", "verify", "apply", "persist"}

InFlight ==
  Cardinality({r \in Requests : Active(r)})
    + Cardinality({a \in Admins : AdminActive(a)})

SchemaInit ==
  /\ Init
  /\ adminPc = [a \in Admins |-> "idle"]
  /\ adminReq = [a \in Admins |-> NoSchema]
  /\ originalDef = [a \in Admins |-> NoSchema]
  /\ overlapped = FALSE

AdminGoes(a, where) == adminPc' = [adminPc EXCEPT ![a] = where]

AdminArrives(a, q, where, orig) ==
  /\ adminPc[a] = "idle"
  /\ InFlight < Concurrency
  /\ adminReq' = [adminReq EXCEPT ![a] = q]
  /\ originalDef' = [originalDef EXCEPT ![a] = orig]
  /\ AdminGoes(a, where)
  /\ UNCHANGED vars

-----------------------------------------------------------------------------
(* ValidateEntityTypeFields *)
ValidFields(q) == q.valid

RegisterCheck(a, q) ==
  /\ q.op = "register"
  /\ AdminArrives(a, q,
       IF ~Registered(q.type) /\ ValidFields(q) THEN "register" ELSE "rejected",
       NoSchema)

RegisterCommit(a) ==
  LET t == adminReq[a].type
  IN  /\ adminPc[a] = "register"
      /\ IF Registered(t)
           THEN AdminGoes(a, "rejected") /\ UNCHANGED vars
           ELSE /\ definitions' = [definitions EXCEPT ![t] = adminReq[a].def]
                /\ indices' = [indices EXCEPT ![t] = EmptyIndex]
                /\ uniqueIndices' = [uniqueIndices EXCEPT ![t] = EmptyUnique]
                /\ AdminGoes(a, "persist")
                /\ UNCHANGED dataVars
      /\ UNCHANGED <<adminReq, originalDef>>

(* The entities that were inserted in the meantime stay. *)
RegisterRollback(a) ==
  LET t == adminReq[a].type
  IN  /\ adminPc[a] = "persist"
      /\ adminReq[a].op = "register" /\ "register" \in SchemaFailing
      /\ definitions' = [definitions EXCEPT ![t] = Unregistered]
      /\ indices' = [indices EXCEPT ![t] = EmptyIndex]
      /\ uniqueIndices' = [uniqueIndices EXCEPT ![t] = EmptyUnique]
      /\ AdminGoes(a, "failed")
      /\ UNCHANGED <<dataVars, adminReq, originalDef>>

-----------------------------------------------------------------------------
(* A mutant: the definition is copied whether or not there is one. *)
UpdateTypeReadUnchecked(a, q) ==
  /\ q.op = "updatetype"
  /\ AdminArrives(a, q, "rejected", definitions[q.type])

UpdateTypeRead(a, q) ==
  /\ q.op = "updatetype"
  /\ AdminArrives(a, q,
       CASE ~Registered(q.type) \/ ~q.valid -> "rejected"
         [] Registered(q.type) /\ q.valid
              /\ q.def.unique /\ ~definitions[q.type].unique -> "verify"
         [] OTHER -> "apply",
       IF Registered(q.type) THEN definitions[q.type] ELSE NoSchema)

(* A mutant: the entities that are there already are not looked at. *)
HoldersOverlooked(t, v) == {}

Holders(t, v) == {i \in IDs : Exists(t, i) /\ FieldOf(t, i) = v}

(* A mutant: duplicates are not looked for. *)
VerifyNothing(a) ==
  /\ adminPc[a] = "verify"
  /\ AdminGoes(a, "apply")
  /\ UNCHANGED <<vars, adminReq, originalDef>>

(* verifyUniqueConstraintCanBeAdded *)
VerifyUnique(a) ==
  /\ adminPc[a] = "verify"
  /\ AdminGoes(a, IF \E v \in Values : Cardinality(Holders(adminReq[a].type, v)) > 1
                    THEN "rejected" ELSE "apply")
  /\ UNCHANGED <<vars, adminReq, originalDef>>

(* The entity that the unique index names for a value that several entities
   may have: the last one met when the map of entities is walked. *)
LastMet(t) ==
  {f \in [Values -> IDs \cup {NoID}] :
     \A v \in Values :
       IF Holders(t, v) = {} THEN f[v] = NoID ELSE f[v] \in Holders(t, v)}

(* executeMigrationPlan takes every entity out of the index and puts it back,
   under the definition in force. *)
Migrated(t) ==
  [v \in Values |-> [i \in IDs |->
     IF Indexed(t) /\ i \in Holders(t, v) /\ indices[t][v][i] = 0
       THEN 1 ELSE indices[t][v][i]]]

MigratedUnique(t, met) ==
  [v \in Values |->
     IF Unique(t) /\ Holders(t, v) # {} THEN met[v] ELSE uniqueIndices[t][v]]

(* updateIndicesForSchemaChange compares the new definition with the one that
   was read at the start: it builds the index anew, drops it, or leaves what
   the migration made of it. *)
IndexAfter(t, old, new) ==
  CASE new.indexed /\ ~old.indexed ->
         [v \in Values |-> [i \in IDs |-> IF i \in Holders(t, v) THEN 1 ELSE 0]]
    [] ~new.indexed /\ old.indexed -> EmptyIndex
    [] OTHER -> Migrated(t)

UniqueAfter(t, old, new, met) ==
  CASE new.unique /\ ~old.unique -> met
    [] ~new.unique /\ old.unique -> EmptyUnique
    [] OTHER -> MigratedUnique(t, met)

UpdateTypeApply(a) ==
  LET t   == adminReq[a].type
      new == adminReq[a].def
      old == originalDef[a]
  IN  /\ adminPc[a] = "apply"
      /\ definitions' = [definitions EXCEPT ![t] = new]
      /\ indices' = [indices EXCEPT ![t] = IndexAfter(t, old, new)]
      /\ \E met \in LastMet(t) :
           uniqueIndices' =
             [uniqueIndices EXCEPT ![t] = UniqueAfter(t, old, new, met)]
      /\ AdminGoes(a, "persist")
      /\ UNCHANGED <<dataVars, adminReq, originalDef>>

(* Only the definition is put back. *)
UpdateTypeRollback(a) ==
  /\ adminPc[a] = "persist"
  /\ adminReq[a].op = "updatetype" /\ "updatetype" \in SchemaFailing
  /\ definitions' = [definitions EXCEPT ![adminReq[a].type] = originalDef[a]]
  /\ AdminGoes(a, "failed")
  /\ UNCHANGED <<dataVars, indices, uniqueIndices, adminReq, originalDef>>

SchemaPersisted(a) ==
  /\ adminPc[a] = "persist"
  /\ AdminGoes(a, "ok")
  /\ UNCHANGED <<vars, adminReq, originalDef>>

-----------------------------------------------------------------------------
Watch == overlapped' = (overlapped \/ InFlight' > 1)

DataOnly == UNCHANGED adminVars /\ Watch

SchemaNext ==
  \/ \E r \in Requests :
       \/ InFlight < Concurrency /\ Prepare(r) /\ DataOnly
       \/ Commit(r) /\ DataOnly
       \/ Persisted(r) /\ DataOnly
       \/ Rollback(r) /\ DataOnly
  \/ \E a \in Admins :
       \/ \E q \in SchemaRequests : RegisterCheck(a, q) /\ Watch
       \/ \E q \in SchemaRequests : UpdateTypeRead(a, q) /\ Watch
       \/ RegisterCommit(a) /\ Watch
       \/ RegisterRollback(a) /\ Watch
       \/ VerifyUnique(a) /\ Watch
       \/ UpdateTypeApply(a) /\ Watch
       \/ UpdateTypeRollback(a) /\ Watch
       \/ SchemaPersisted(a) /\ Watch

SchemaSpec == SchemaInit /\ [][SchemaNext]_schemaVars

(* The variables of the schema requests have their types. *)
SchemaTypeOK ==
  /\ TypeOK
  /\ adminPc \in [Admins -> {"idle", "register", "verify", "apply", "persist",
                             "ok", "rejected", "failed"}]
  /\ adminReq \in [Admins -> SchemaRequest \cup {NoSchema}]
  /\ originalDef \in [Admins -> Schema \cup {NoSchema}]

(* A change that took the index or the unique constraint away could not be
   persisted: the definition came back and the index entries did not. *)
Undone(a) == adminPc[a] = "failed" /\ adminReq[a].op = "updatetype"

IndexLost ==
  \E a \in Admins : Undone(a) /\ originalDef[a].indexed /\ ~adminReq[a].def.indexed

UniqueLost ==
  \E a \in Admins : Undone(a) /\ originalDef[a].unique /\ ~adminReq[a].def.unique

(* The overlaps that are harmless: one schema change among data requests none
   of which is rolled back. *)
OneChange ==
  /\ NoRollbackYet
  /\ \A a, b \in Admins :
       adminPc[a] \notin {"idle", "rejected"} /\ adminPc[b] \notin {"idle", "rejected"}
         => a = b

AddsUnique ==
  \E a \in Admins : /\ adminReq[a] \in SchemaRequest /\ originalDef[a] \in Schema
                    /\ adminReq[a].def.unique /\ ~originalDef[a].unique

(* Registering a type and building, migrating or dropping its index keeps the
   index exact, under data requests that come between the stretches of the
   change too: an equality query goes on seeing every entity.  Not claimed when
   the code gives it up: UpdateEntityType's error path restores the definition
   alone, and two overlapping changes compare with a stale definition. *)
SchemaChangeKeepsIndex ==
  ~IndexLost /\ (overlapped => OneChange) => IndexExact

(* Likewise a schema change leaves the unique index exact and the values of a
   unique field distinct, if the data requests that overlap it do not come
   between the search for duplicates and the change of the definition. *)
SchemaChangeKeepsUnique ==
  ~UniqueLost /\ (overlapped => OneChange /\ ~AddsUnique)
    => UniqueIndexExact /\ NoDuplicates
=============================================================================
