------------------------- MODULE EngineSchemaProofs -------------------------
(***************************************************************************)
(* Schema changes among data requests, for any number of requests,         *)
(* administrators, types, IDs and values: the indices stay exact under the *)
(* conditions that SchemaChangeKeepsIndex and SchemaChangeKeepsUnique name.*)
(*                                                                         *)
(* Two situations have to be carried through every step together.  As long *)
(* as nothing has overlapped, whoever is in flight finds the maps as its   *)
(* own first stretch left them, so that its backup, the definition it read *)
(* and the search for duplicates still stand, and a rollback undoes        *)
(* exactly its own commit.  Once requests overlap, the data requests are   *)
(* covered by the checks under the write lock (EngineProofs), and a schema *)
(* change by the fact that no other one has been applied: the definition   *)
(* it read is then the one in force.                                       *)
(***************************************************************************)
EXTENDS EngineSchema, EngineProofs

(* The change of administrator a is, or has been, in the definitions. *)
Applied(a) == adminPc[a] \in {"persist", "ok", "failed"}

(* What of OneChange lasts: the administrators that have not come to their
   commit may still be refused. *)
OneApplied ==
  /\ NoRollbackYet
  /\ \A a, b \in Admins : Applied(a) /\ Applied(b) => a = b

IndexKept == ~IndexLost /\ (overlapped => OneApplied)

UniqueKept == ~UniqueLost /\ (overlapped => OneApplied /\ ~AddsUnique)

SchemaExact ==
  /\ IndexKept => ExactFor({}, Types)
  /\ UniqueKept => ExactFor(Types, {})

-----------------------------------------------------------------------------
(* The parts of the inductive invariant. *)

ActiveRequests == {r \in Requests : Active(r)}
ActiveAdmins == {a \in Admins : AdminActive(a)}

(* At every moment finitely many are in flight, and two are an overlap. *)
Counted ==
  /\ IsFiniteSet(ActiveRequests) /\ IsFiniteSet(ActiveAdmins)
  /\ InFlight > 1 => overlapped

(* What an administrator on its way asks for, and has read. *)
Asked(a) ==
  /\ adminPc[a] = "idle" => adminReq[a] = NoSchema
  /\ adminPc[a] # "idle" => adminReq[a] \in SchemaRequest
  /\ adminPc[a] = "register" => adminReq[a].op = "register"
  /\ adminPc[a] \in {"verify", "apply"} => adminReq[a].op = "updatetype"
  /\ adminPc[a] \in {"verify", "apply"} \/ (Applied(a) /\ adminReq[a].op = "updatetype")
       => originalDef[a] \in Schema

(* Another change has come in the way of a's. *)
Disturbed(a) == overlapped /\ \E b \in Admins \ {a} : Applied(b)

(* The definition that a has read is the one in force. *)
Fresh(a) ==
  adminPc[a] \in {"verify", "apply"} =>
    definitions[adminReq[a].type] = originalDef[a] \/ Disturbed(a)

(* The definition that a has put into force still is. *)
Current(a) ==
  adminPc[a] = "persist" =>
    definitions[adminReq[a].type] = adminReq[a].def \/ Disturbed(a)

(* What VerifyUnique has found out stands. *)
Verified(a) ==
  adminPc[a] = "apply" /\ adminReq[a].def.unique /\ ~originalDef[a].unique =>
    \/ overlapped
    \/ \A v \in Values, i, j \in IDs :
         Holds(adminReq[a].type, i, v) /\ Holds(adminReq[a].type, j, v) => i = j

(* A type that is being registered has no entities yet. *)
Empty(a) ==
  adminPc[a] = "persist" /\ adminReq[a].op = "register" =>
    overlapped \/ \A i \in IDs : ~Exists(adminReq[a].type, i)

AdminInv ==
  \A a \in Admins : Asked(a) /\ Fresh(a) /\ Current(a) /\ Verified(a) /\ Empty(a)

(* A type without a definition has no entities, but for the ones that a failed
   registration or a late rollback leaves behind. *)
NoOrphans ==
  \/ overlapped /\ (~NoRollbackYet \/ \E b \in Admins : Applied(b))
  \/ \A t \in Types : Registered(t) \/ \A i \in IDs : ~Exists(t, i)

(* A walk over the entities of a type ends. *)
FiniteTypes == \A t \in Types : IsFiniteSet({i \in IDs : Exists(t, i)})

(* The backup of an Update or a Delete is the entity as it is. *)
BackupFresh(r) ==
  req[r].op \in {"update", "delete"} =>
    /\ Exists(req[r].type, req[r].id)
    /\ heap[r] = FieldOf(req[r].type, req[r].id)

(* What undoes the commit of r is at hand: the key of an Insert maps to its own
   entity; nobody has taken the unique value of a backup. *)
Undoable(r) ==
  LET t == req[r].type
      i == req[r].id
  IN  /\ req[r].op = "insert" => entities[t][i] = r
      /\ req[r].op \in {"update", "delete"} =>
           /\ Registered(t)
           /\ Exists(t, i) <=> req[r].op = "update"
           /\ ~UniqueLost /\ Unique(t) /\ heap[r] \in Values =>
                \A j \in IDs \ {i} : ~Holds(t, j, heap[r])

Alone ==
  overlapped \/ \A r \in Requests : /\ pc[r] = "commit" => BackupFresh(r)
                                    /\ pc[r] = "persist" => Undoable(r)

SchemaInv ==
  /\ SchemaTypeOK /\ BaseInv /\ OwnersPast
  /\ Counted
  /\ AdminInv
  /\ NoOrphans
  /\ FiniteTypes
  /\ Alone
  /\ SchemaExact

-----------------------------------------------------------------------------
(* What the handlers of the administrators touch. *)

(* A first stretch changes nothing but the administrator's own record. *)
LEMMA ArriveShape ==
  ASSUME SchemaTypeOK, NEW a \in Admins, NEW q \in SchemaRequests,
         RegisterCheck(a, q) \/ UpdateTypeRead(a, q)
  PROVE  /\ adminPc[a] = "idle" /\ UNCHANGED vars
         /\ adminPc' \in [Admins -> {"idle", "register", "verify", "apply",
                                    "persist", "ok", "rejected", "failed"}]
         /\ adminReq' \in [Admins -> SchemaRequest \cup {NoSchema}]
         /\ originalDef' \in [Admins -> Schema \cup {NoSchema}]
         /\ \A b \in Admins \ {a} :
              /\ adminPc'[b] = adminPc[b] /\ adminReq'[b] = adminReq[b]
              /\ originalDef'[b] = originalDef[b]
         /\ adminReq'[a] = q /\ q \in SchemaRequest
         /\ adminPc'[a] \in {"register", "verify", "apply", "rejected"}
         /\ adminPc'[a] = "register" => q.op = "register"
         /\ adminPc'[a] \in {"verify", "apply"} =>
              /\ q.op = "updatetype" /\ Registered(q.type)
              /\ originalDef'[a] = definitions[q.type] /\ originalDef'[a] \in Schema
         /\ adminPc'[a] = "apply" => ~(q.def.unique /\ ~originalDef'[a].unique)
<1> USE SchemaAssumption
<1>0. q \in SchemaRequest /\ q.type \in Types
  BY DEF SchemaRequest
<1>1. definitions[q.type] \in Schema \cup {Unregistered}
  BY <1>0 DEF SchemaTypeOK, TypeOK
<1>2. CASE RegisterCheck(a, q)
  <2>1. PICK where \in {"register", "rejected"} :
          AdminArrives(a, q, where, NoSchema) /\ q.op = "register"
    BY <1>2 DEF RegisterCheck
  <2> QED BY <1>0, <2>1 DEF AdminArrives, AdminGoes, SchemaTypeOK
<1>3. CASE UpdateTypeRead(a, q)
  <2> DEFINE where == CASE ~Registered(q.type) \/ ~q.valid -> "rejected"
                        [] Registered(q.type) /\ q.valid
                             /\ q.def.unique /\ ~definitions[q.type].unique -> "verify"
                        [] OTHER -> "apply"
             orig == IF Registered(q.type) THEN definitions[q.type] ELSE NoSchema
  <2>1. AdminArrives(a, q, where, orig) /\ q.op = "updatetype"
    BY <1>3 DEF UpdateTypeRead
  <2>2. /\ where \in {"verify", "apply", "rejected"}
        /\ where # "rejected" => Registered(q.type)
        /\ where = "apply" => ~(q.def.unique /\ ~definitions[q.type].unique)
    <3>1. q.valid \in BOOLEAN /\ q.def.unique \in BOOLEAN
      BY <1>0 DEF SchemaRequest, Schema
    <3> QED BY <3>1
  <2>3. /\ orig \in Schema \cup {NoSchema}
        /\ Registered(q.type) => orig = definitions[q.type] /\ orig \in Schema
    BY <1>1 DEF Registered
  <2> HIDE DEF where, orig
  <2> QED BY <1>0, <2>1, <2>2, <2>3 DEF AdminArrives, AdminGoes, SchemaTypeOK
<1> QED BY <1>2, <1>3

(* The later stretches of an administrator. *)
AdminStep(a) ==
  \/ RegisterCommit(a) \/ RegisterRollback(a) \/ VerifyUnique(a)
  \/ UpdateTypeApply(a) \/ UpdateTypeRollback(a) \/ SchemaPersisted(a)

(* They leave the requests and the documents alone. *)
LEMMA AdminShape ==
  ASSUME SchemaTypeOK, NEW a \in Admins, Asked(a), AdminStep(a)
  PROVE  /\ AdminActive(a) /\ UNCHANGED <<dataVars, adminReq, originalDef>>
         /\ adminPc' \in [Admins -> {"idle", "register", "verify", "apply",
                                    "persist", "ok", "rejected", "failed"}]
         /\ \A b \in Admins \ {a} : adminPc'[b] = adminPc[b]
         /\ adminPc'[a] \in {"apply", "persist", "ok", "rejected", "failed"}
         /\ adminPc'[a] = "apply" => adminPc[a] = "verify" /\ UNCHANGED vars
         /\ adminPc'[a] = "rejected" => UNCHANGED vars
         /\ adminPc'[a] \in {"ok", "failed"} => adminPc[a] = "persist"
         /\ adminPc[a] = "persist" => adminPc'[a] \in {"ok", "failed"}
         /\ adminReq[a] \in SchemaRequest /\ adminReq[a].type \in Types
         /\ adminReq[a].def \in Schema
<1>1. AdminActive(a)
  BY DEF AdminStep, RegisterCommit, RegisterRollback, VerifyUnique, UpdateTypeApply,
       UpdateTypeRollback, SchemaPersisted, AdminActive
<1>2. adminReq[a] \in SchemaRequest
  BY <1>1 DEF AdminActive, Asked
<1>3. adminReq[a].type \in Types /\ adminReq[a].def \in Schema
  BY <1>2 DEF SchemaRequest
<1>4. UNCHANGED <<dataVars, adminReq, originalDef>>
  BY DEF AdminStep, RegisterCommit, RegisterRollback, VerifyUnique, UpdateTypeApply,
       UpdateTypeRollback, SchemaPersisted, vars, dataVars
<1>5. \E w \in {"apply", "persist", "ok", "rejected", "failed"} :
        /\ AdminGoes(a, w)
        /\ w = "apply" => adminPc[a] = "verify" /\ UNCHANGED vars
        /\ w = "rejected" => UNCHANGED vars
        /\ w \in {"ok", "failed"} => adminPc[a] = "persist"
        /\ adminPc[a] = "persist" => w \in {"ok", "failed"}
  <2>1. CASE RegisterCommit(a)
    BY <2>1 DEF RegisterCommit
  <2>2. CASE RegisterRollback(a) \/ UpdateTypeRollback(a)
    BY <2>2 DEF RegisterRollback, UpdateTypeRollback
  <2>3. CASE VerifyUnique(a)
    BY <2>3 DEF VerifyUnique
  <2>4. CASE UpdateTypeApply(a)
    BY <2>4 DEF UpdateTypeApply
  <2>5. CASE SchemaPersisted(a)
    BY <2>5 DEF SchemaPersisted
  <2> QED BY <2>1, <2>2, <2>3, <2>4, <2>5 DEF AdminStep
<1> QED BY <1>1, <1>2, <1>3, <1>4, <1>5 DEF AdminGoes, SchemaTypeOK

(* The steps of the data requests. *)
DataStep(r) == Prepare(r) \/ Commit(r) \/ Persisted(r) \/ Rollback(r)

(* They leave the definitions and the administrators alone. *)
LEMMA DataShape ==
  ASSUME TypeOK, Served, NEW r \in Requests, DataStep(r)
  PROVE  /\ UNCHANGED definitions /\ [Next]_vars
         /\ \A s \in Requests \ {r} : pc'[s] = pc[s] /\ req'[s] = req[s]
         /\ pc[r] # "failed" /\ (pc[r] # "idle" => req' = req)
<1>1. [Next]_vars
  BY DEF DataStep, Next
<1>2. CASE Prepare(r)
  BY <1>1, <1>2, PrepareShape
<1>3. CASE Commit(r) \/ Persisted(r) \/ Rollback(r)
  BY <1>1, <1>3, StepShape DEF Active
<1> QED BY <1>2, <1>3 DEF DataStep

(* SchemaNext by kinds of steps. *)
LEMMA SchemaSteps ==
  ASSUME SchemaNext
  PROVE  /\ Watch
         /\ \/ \E r \in Requests : DataStep(r) /\ UNCHANGED adminVars
            \/ \E a \in Admins, q \in SchemaRequests :
                 RegisterCheck(a, q) \/ UpdateTypeRead(a, q)
            \/ \E a \in Admins : AdminStep(a)
BY DEF SchemaNext, DataOnly, DataStep, AdminStep

-----------------------------------------------------------------------------
(* Types, and the facts of EngineProofs that need no exact index. *)

(* What a schema change makes of the indices of its type are indices again. *)
LEMMA ChangedIndexType ==
  ASSUME TypeOK, NEW t \in Types, NEW old, NEW new, NEW met \in LastMet(t)
  PROVE  /\ IndexAfter(t, old, new) \in [Values -> [IDs -> Nat]]
         /\ UniqueAfter(t, old, new, met) \in [Values -> IDs \cup {NoID}]
<1>1. Migrated(t) \in [Values -> [IDs -> Nat]]
  BY DEF Migrated, TypeOK
<1>2. EmptyIndex \in [Values -> [IDs -> Nat]]
      /\ EmptyUnique \in [Values -> IDs \cup {NoID}]
  BY DEF EmptyIndex, EmptyUnique
<1>3. IndexAfter(t, old, new) \in [Values -> [IDs -> Nat]]
  BY <1>1, <1>2 DEF IndexAfter
<1>4. met \in [Values -> IDs \cup {NoID}]
  BY DEF LastMet
<1>5. MigratedUnique(t, met) \in [Values -> IDs \cup {NoID}]
  BY <1>4 DEF MigratedUnique, TypeOK
<1> QED BY <1>2, <1>3, <1>4, <1>5 DEF UniqueAfter

(* What an administrator's stretch does to the three maps of its type. *)
LEMMA AdminMaps ==
  ASSUME SchemaTypeOK, NEW a \in Admins, Asked(a), AdminStep(a),
         NEW t, t = adminReq[a].type
  PROVE  \/ UNCHANGED vars
         \/ \E d \in Schema \cup {Unregistered}, x \in [Values -> [IDs -> Nat]],
               y \in [Values -> IDs \cup {NoID}] :
              /\ definitions' = [definitions EXCEPT ![t] = d]
              /\ indices' = [indices EXCEPT ![t] = x]
              /\ uniqueIndices' = [uniqueIndices EXCEPT ![t] = y]
<1>1. t \in Types /\ adminReq[a].def \in Schema
  BY AdminShape
<1>2. EmptyIndex \in [Values -> [IDs -> Nat]]
      /\ EmptyUnique \in [Values -> IDs \cup {NoID}]
  BY DEF EmptyIndex, EmptyUnique
<1>3. CASE RegisterCommit(a)
  BY <1>1, <1>2, <1>3 DEF RegisterCommit
<1>4. CASE RegisterRollback(a)
  BY <1>1, <1>2, <1>4 DEF RegisterRollback
<1>5. CASE UpdateTypeApply(a)
  <2>1. PICK met \in LastMet(t) :
          /\ definitions' = [definitions EXCEPT ![t] = adminReq[a].def]
          /\ indices' = [indices EXCEPT ![t] =
                           IndexAfter(t, originalDef[a], adminReq[a].def)]
          /\ uniqueIndices' = [uniqueIndices EXCEPT ![t] =
                                 UniqueAfter(t, originalDef[a], adminReq[a].def, met)]
    BY <1>5 DEF UpdateTypeApply
  <2>2. /\ IndexAfter(t, originalDef[a], adminReq[a].def) \in [Values -> [IDs -> Nat]]
        /\ UniqueAfter(t, originalDef[a], adminReq[a].def, met)
             \in [Values -> IDs \cup {NoID}]
    BY <1>1, ChangedIndexType DEF SchemaTypeOK
  <2> QED BY <1>1, <2>1, <2>2
<1>6. CASE UpdateTypeRollback(a)
  <2>1. originalDef[a] \in Schema
    BY <1>6 DEF UpdateTypeRollback, Asked, Applied
  <2> PICK d \in Schema \cup {Unregistered}, x \in [Values -> [IDs -> Nat]],
           y \in [Values -> IDs \cup {NoID}] :
         d = originalDef[a] /\ x = indices[t] /\ y = uniqueIndices[t]
    BY <1>1, <2>1 DEF SchemaTypeOK, TypeOK
  <2>2. /\ definitions' = [definitions EXCEPT ![t] = d]
        /\ UNCHANGED <<indices, uniqueIndices>>
    BY <1>6 DEF UpdateTypeRollback
  <2>3. /\ indices' = [indices EXCEPT ![t] = x]
        /\ uniqueIndices' = [uniqueIndices EXCEPT ![t] = y]
    BY <1>1, <2>2 DEF SchemaTypeOK, TypeOK
  <2>4. definitions' = [definitions EXCEPT ![t] = d]
    BY <2>2
  <2> QED BY <2>3, <2>4, Zenon
<1>7. CASE VerifyUnique(a) \/ SchemaPersisted(a)
  BY <1>7 DEF VerifyUnique, SchemaPersisted
<1> QED BY <1>3, <1>4, <1>5, <1>6, <1>7 DEF AdminStep

(* Every step keeps the types, the requests' records, the Fields maps apart and
   the administrators' records. *)
LEMMA BaseStep ==
  ASSUME SchemaTypeOK, BaseInv, OwnersPast, \A a \in Admins : Asked(a),
         SchemaNext
  PROVE  (SchemaTypeOK /\ BaseInv /\ OwnersPast)' /\ \A a \in Admins : Asked(a)'
<1>1. ASSUME NEW r \in Requests, DataStep(r), UNCHANGED adminVars
      PROVE  (SchemaTypeOK /\ BaseInv /\ OwnersPast)' /\ \A a \in Admins : Asked(a)'
  <2>1. [Next]_vars
    BY <1>1, DataShape DEF BaseInv
  <2>2. TypeOK' /\ Served'
    BY <2>1, TypeStep DEF BaseInv
  <2>3. FieldsNotShared' /\ OwnersPast'
    BY <2>1, NotSharedStep, OwnersPastStep DEF BaseInv
  <2>4. (\A a \in Admins : Asked(a)') /\ SchemaTypeOK'
    BY <1>1, <2>2 DEF adminVars, Asked, Applied, SchemaTypeOK
  <2> QED BY <2>2, <2>3, <2>4 DEF BaseInv
<1>2. ASSUME NEW a \in Admins, NEW q \in SchemaRequests,
             RegisterCheck(a, q) \/ UpdateTypeRead(a, q)
      PROVE  (SchemaTypeOK /\ BaseInv /\ OwnersPast)' /\ \A b \in Admins : Asked(b)'
  <2>1. UNCHANGED vars
    BY <1>2, ArriveShape
  <2>2. (BaseInv /\ OwnersPast)'
    BY <2>1 DEF vars, BaseInv, TypeOK, Served, FieldsNotShared, OwnersPast, Exists
  <2>3. SchemaTypeOK'
    BY <1>2, <2>1, <2>2, ArriveShape DEF SchemaTypeOK, BaseInv
  <2>4. Asked(a)'
    BY <1>2, ArriveShape DEF Asked, Applied
  <2>5. ASSUME NEW b \in Admins \ {a}
        PROVE  Asked(b)'
    BY <1>2, ArriveShape DEF Asked, Applied
  <2> QED BY <2>2, <2>3, <2>4, <2>5
<1>3. ASSUME NEW a \in Admins, AdminStep(a)
      PROVE  (SchemaTypeOK /\ BaseInv /\ OwnersPast)' /\ \A b \in Admins : Asked(b)'
  <2>1. UNCHANGED <<dataVars, adminReq, originalDef>>
    BY <1>3, AdminShape
  <2>2. TypeOK'
    <3> PICK t : t = adminReq[a].type
      OBVIOUS
    <3>1. t \in Types
      BY <1>3, AdminShape
    <3>2. CASE UNCHANGED vars
      BY <3>2 DEF vars, SchemaTypeOK, TypeOK
    <3>3. ASSUME NEW d \in Schema \cup {Unregistered}, NEW x \in [Values -> [IDs -> Nat]],
                 NEW y \in [Values -> IDs \cup {NoID}],
                 definitions' = [definitions EXCEPT ![t] = d],
                 indices' = [indices EXCEPT ![t] = x],
                 uniqueIndices' = [uniqueIndices EXCEPT ![t] = y]
          PROVE  TypeOK'
      BY <2>1, <3>1, <3>3 DEF dataVars, SchemaTypeOK, TypeOK
    <3>4. \/ UNCHANGED vars
          \/ \E d \in Schema \cup {Unregistered}, x \in [Values -> [IDs -> Nat]],
                y \in [Values -> IDs \cup {NoID}] :
               /\ definitions' = [definitions EXCEPT ![t] = d]
               /\ indices' = [indices EXCEPT ![t] = x]
               /\ uniqueIndices' = [uniqueIndices EXCEPT ![t] = y]
      BY <1>3, AdminMaps
    <3> QED BY <3>2, <3>3, <3>4
  <2>3. Served' /\ FieldsNotShared' /\ OwnersPast'
    BY <2>1 DEF dataVars, BaseInv, Served, FieldsNotShared, OwnersPast, Exists
  <2>4. SchemaTypeOK'
    BY <1>3, <2>1, <2>2, AdminShape DEF SchemaTypeOK
  <2>5. Asked(a)'
    BY <1>3, <2>1, AdminShape DEF Asked, Applied, AdminActive
  <2>6. ASSUME NEW b \in Admins \ {a}
        PROVE  Asked(b)'
    BY <1>3, <2>1, AdminShape DEF Asked, Applied
  <2> QED BY <2>2, <2>3, <2>4, <2>5, <2>6 DEF BaseInv
<1> QED BY <1>1, <1>2, <1>3, SchemaSteps

-----------------------------------------------------------------------------
(* Who is in flight, and what is never forgotten. *)

(* As long as nothing has overlapped, whoever is in flight is alone. *)
LEMMA Lonely ==
  ASSUME Counted, ~overlapped
  PROVE  /\ \A r, s \in Requests : Active(r) /\ Active(s) => r = s
         /\ \A a, b \in Admins : AdminActive(a) /\ AdminActive(b) => a = b
         /\ \A r \in Requests, a \in Admins : ~(Active(r) /\ AdminActive(a))
<1>1. /\ Cardinality(ActiveRequests) \in Nat /\ Cardinality(ActiveAdmins) \in Nat
      /\ ~(Cardinality(ActiveRequests) + Cardinality(ActiveAdmins) > 1)
  BY FS_CardinalityType DEF Counted, InFlight, ActiveRequests, ActiveAdmins
<1>2. /\ ~(Cardinality(ActiveRequests) > 1) /\ ~(Cardinality(ActiveAdmins) > 1)
      /\ Cardinality(ActiveRequests) = 0 \/ Cardinality(ActiveAdmins) = 0
  BY <1>1
<1>3. IsFiniteSet(ActiveRequests) /\ IsFiniteSet(ActiveAdmins)
  BY DEF Counted
<1>4. ASSUME NEW r \in Requests, NEW s \in Requests, Active(r), Active(s)
      PROVE  r = s
  <2>1. r \in ActiveRequests /\ s \in ActiveRequests
    BY <1>4 DEF ActiveRequests
  <2> QED BY <1>2, <1>3, <2>1, AtMostOne
<1>5. ASSUME NEW a \in Admins, NEW b \in Admins, AdminActive(a), AdminActive(b)
      PROVE  a = b
  <2>1. a \in ActiveAdmins /\ b \in ActiveAdmins
    BY <1>5 DEF ActiveAdmins
  <2> QED BY <1>2, <1>3, <2>1, AtMostOne
<1>6. ActiveRequests = {} \/ ActiveAdmins = {}
  BY <1>2, <1>3, FS_EmptySet
<1> QED BY <1>4, <1>5, <1>6 DEF ActiveRequests, ActiveAdmins

(* A step sends at most one of them on its way. *)
LEMMA CountedStep ==
  ASSUME SchemaTypeOK, BaseInv, \A a \in Admins : Asked(a), Counted, SchemaNext
  PROVE  Counted'
<1>1. InFlight' > 1 => overlapped'
  BY SchemaSteps DEF Watch
<1>2. /\ \A r : IsFiniteSet(ActiveRequests \cup {r})
      /\ \A a : IsFiniteSet(ActiveAdmins \cup {a})
  BY FS_AddElement DEF Counted
<1>3. ASSUME NEW r \in Requests, DataStep(r), UNCHANGED adminVars
      PROVE  IsFiniteSet(ActiveRequests') /\ IsFiniteSet(ActiveAdmins')
  <2>1. ActiveRequests' \subseteq ActiveRequests \cup {r}
    BY <1>3, DataShape DEF BaseInv, ActiveRequests, Active
  <2>2. ActiveAdmins' = ActiveAdmins
    BY <1>3 DEF ActiveAdmins, AdminActive, adminVars
  <2> QED BY <1>2, <2>1, <2>2, FS_Subset DEF Counted
<1>4. ASSUME NEW a \in Admins, \A b \in Admins \ {a} : adminPc'[b] = adminPc[b],
             UNCHANGED pc
      PROVE  IsFiniteSet(ActiveRequests') /\ IsFiniteSet(ActiveAdmins')
  <2>1. ActiveAdmins' \subseteq ActiveAdmins \cup {a}
    BY <1>4 DEF ActiveAdmins, AdminActive
  <2>2. ActiveRequests' = ActiveRequests
    BY <1>4 DEF ActiveRequests, Active
  <2> QED BY <1>2, <2>1, <2>2, FS_Subset DEF Counted
<1>5. ASSUME NEW a \in Admins, NEW q \in SchemaRequests,
             RegisterCheck(a, q) \/ UpdateTypeRead(a, q)
      PROVE  IsFiniteSet(ActiveRequests') /\ IsFiniteSet(ActiveAdmins')
  BY <1>4, <1>5, ArriveShape DEF vars
<1>6. ASSUME NEW a \in Admins, AdminStep(a)
      PROVE  IsFiniteSet(ActiveRequests') /\ IsFiniteSet(ActiveAdmins')
  BY <1>4, <1>6, AdminShape DEF dataVars
<1> QED BY <1>1, <1>3, <1>5, <1>6, SchemaSteps DEF Counted

(* A data request forgets no rollback, and says nothing of the schema. *)
LEMMA DataRemembers ==
  ASSUME SchemaTypeOK, BaseInv, NEW r \in Requests, DataStep(r),
         UNCHANGED adminVars, Watch
  PROVE  /\ overlapped => overlapped'
         /\ \A b \in Admins : Applied(b)' <=> Applied(b)
         /\ NoRollbackYet' => NoRollbackYet
         /\ (UniqueLost' <=> UniqueLost) /\ (IndexLost' <=> IndexLost)
         /\ AddsUnique' <=> AddsUnique
<1>1. NoRollbackYet' => NoRollbackYet
  BY DataShape DEF BaseInv, NoRollbackYet
<1> QED BY <1>1 DEF Watch, adminVars, Applied, UniqueLost, IndexLost, Undone, AddsUnique

(* An administrator who arrives has nothing to remember yet. *)
LEMMA ArriveRemembers ==
  ASSUME SchemaTypeOK, \A b \in Admins : Asked(b), NEW a \in Admins,
         NEW q \in SchemaRequests, RegisterCheck(a, q) \/ UpdateTypeRead(a, q), Watch
  PROVE  /\ overlapped => overlapped'
         /\ \A b \in Admins : Applied(b)' <=> Applied(b)
         /\ NoRollbackYet' <=> NoRollbackYet
         /\ (UniqueLost => UniqueLost') /\ (IndexLost => IndexLost')
         /\ AddsUnique => AddsUnique'
<1>1. NoRollbackYet' <=> NoRollbackYet
  BY ArriveShape DEF vars, NoRollbackYet
<1>2. \A b \in Admins : Applied(b)' <=> Applied(b)
  BY ArriveShape DEF Applied
<1>3. (UniqueLost => UniqueLost') /\ (IndexLost => IndexLost')
  BY ArriveShape DEF UniqueLost, IndexLost, Undone
<1>4. adminReq[a] \notin SchemaRequest
  BY ArriveShape, SchemaAssumption DEF Asked
<1>5. AddsUnique => AddsUnique'
  BY <1>4, ArriveShape DEF AddsUnique
<1> QED BY <1>1, <1>2, <1>3, <1>5 DEF Watch

(* One who goes on remembers what was asked and read. *)
LEMMA AdminRemembers ==
  ASSUME SchemaTypeOK, NEW a \in Admins, Asked(a), AdminStep(a), Watch
  PROVE  /\ overlapped => overlapped'
         /\ \A b \in Admins : Applied(b) => Applied(b)'
         /\ NoRollbackYet' <=> NoRollbackYet
         /\ (UniqueLost => UniqueLost') /\ (IndexLost => IndexLost')
         /\ AddsUnique' <=> AddsUnique
<1>1. NoRollbackYet' <=> NoRollbackYet
  BY AdminShape DEF dataVars, NoRollbackYet
<1>2. \A b \in Admins : Applied(b) => Applied(b)'
  BY AdminShape DEF Applied, AdminActive
<1>3. ASSUME NEW b \in Admins, Undone(b)
      PROVE  Undone(b)' /\ originalDef'[b] = originalDef[b] /\ adminReq'[b] = adminReq[b]
  BY <1>3, AdminShape DEF Undone, AdminActive
<1>4. (UniqueLost => UniqueLost') /\ (IndexLost => IndexLost')
  BY <1>3 DEF UniqueLost, IndexLost
<1>5. AddsUnique' <=> AddsUnique
  BY AdminShape DEF AddsUnique
<1> QED BY <1>1, <1>2, <1>4, <1>5 DEF Watch

(* What the properties except is never undone. *)
LEMMA Remembered ==
  ASSUME SchemaTypeOK, BaseInv, \A a \in Admins : Asked(a), SchemaNext
  PROVE  /\ overlapped => overlapped'
         /\ \A b \in Admins : Applied(b) => Applied(b)'
         /\ NoRollbackYet' => NoRollbackYet
         /\ UniqueLost => UniqueLost'
         /\ OneApplied' => OneApplied
         /\ (IndexKept' => IndexKept) /\ (UniqueKept' => UniqueKept)
         /\ \A a \in Admins : Disturbed(a) => Disturbed(a)'
<1>1. /\ overlapped => overlapped'
      /\ \A b \in Admins : Applied(b) => Applied(b)'
      /\ NoRollbackYet' => NoRollbackYet
      /\ (UniqueLost => UniqueLost') /\ (IndexLost => IndexLost')
      /\ AddsUnique => AddsUnique'
  BY SchemaSteps, DataRemembers, ArriveRemembers, AdminRemembers
<1>2. OneApplied' => OneApplied
  BY <1>1 DEF OneApplied
<1> QED BY <1>1, <1>2 DEF IndexKept, UniqueKept, Disturbed

-----------------------------------------------------------------------------
(* What an administrator relies on between two stretches. *)

(* The search for duplicates finds them. *)
LEMMA VerifyFinds ==
  ASSUME FiniteTypes, NEW t \in Types, NEW v \in Values,
         ~(Cardinality(Holders(t, v)) > 1),
         NEW i \in IDs, NEW j \in IDs, Holds(t, i, v), Holds(t, j, v)
  PROVE  i = j
<1>1. /\ Holders(t, v) \subseteq {k \in IDs : Exists(t, k)}
      /\ i \in Holders(t, v) /\ j \in Holders(t, v)
  BY DEF Holders, Holds
<1>2. IsFiniteSet(Holders(t, v))
  BY <1>1, FS_Subset DEF FiniteTypes
<1> QED BY <1>1, <1>2, AtMostOne

(* A data request disturbs no administrator: it changes no definition, and one
   that changes a document is an overlap. *)
LEMMA DataAdmin ==
  ASSUME SchemaInv, NEW r \in Requests, DataStep(r), UNCHANGED adminVars, Watch,
         NEW a \in Admins
  PROVE  Fresh(a)' /\ Current(a)' /\ Verified(a)' /\ Empty(a)'
<1>1. BaseInv /\ SchemaTypeOK /\ Asked(a)
  BY DEF SchemaInv, AdminInv
<1>2. UNCHANGED definitions
  BY <1>1, DataShape DEF BaseInv
<1>3. /\ overlapped => overlapped'
      /\ Disturbed(a) => Disturbed(a)'
  BY <1>1, DataRemembers DEF Disturbed
<1>4. Fresh(a)' /\ Current(a)'
  <2>1. Fresh(a) /\ Current(a)
    BY DEF SchemaInv, AdminInv
  <2> QED BY <1>2, <1>3, <2>1 DEF Fresh, Current, adminVars
<1>5. AdminActive(a) => adminReq[a].type \in Types
  BY <1>1 DEF Asked, AdminActive, SchemaRequest
<1>6. Verified(a) /\ Empty(a)
  BY DEF SchemaInv, AdminInv
<1>7. CASE Prepare(r)
  <2>1. ASSUME AdminActive(a), NEW i \in IDs
        PROVE  /\ Exists(adminReq[a].type, i)' <=> Exists(adminReq[a].type, i)
               /\ \A v : Holds(adminReq[a].type, i, v)' <=> Holds(adminReq[a].type, i, v)
    <3> PICK t \in Types : t = adminReq[a].type /\ adminReq'[a] = adminReq[a]
      BY <1>5, <2>1 DEF adminVars
    <3>1. /\ Exists(t, i)' <=> Exists(t, i)
          /\ Exists(t, i) => FieldOf(t, i)' = FieldOf(t, i)
      BY <1>1, <1>7, PrepareReads
    <3>2. \A v : Holds(t, i, v)' <=> Holds(t, i, v)
      BY <3>1 DEF Holds
    <3> QED BY <3>1, <3>2 DEF Holds, Exists, FieldOf
  <2>2. Verified(a)'
    BY <1>3, <1>6, <2>1 DEF Verified, AdminActive, adminVars
  <2>3. Empty(a)'
    BY <1>3, <1>6, <2>1 DEF Empty, AdminActive, adminVars
  <2> QED BY <1>4, <2>2, <2>3
<1>8. CASE Commit(r) \/ Persisted(r) \/ Rollback(r)
  <2>1. Active(r)
    BY <1>1, <1>8, StepShape DEF BaseInv
  <2>2. AdminActive(a) => overlapped
    BY <2>1, Lonely DEF SchemaInv
  <2> QED BY <1>3, <1>4, <2>2 DEF Verified, Empty, AdminActive, adminVars
<1> QED BY <1>7, <1>8 DEF DataStep

(* One who arrives reads the definition in force, and disturbs nobody. *)
LEMMA ArriveAdmin ==
  ASSUME SchemaInv, NEW a \in Admins, NEW q \in SchemaRequests,
         RegisterCheck(a, q) \/ UpdateTypeRead(a, q), Watch, NEW b \in Admins
  PROVE  Fresh(b)' /\ Current(b)' /\ Verified(b)' /\ Empty(b)'
<1>1. SchemaTypeOK /\ \A c \in Admins : Asked(c)
  BY DEF SchemaInv, AdminInv
<1>2. CASE b = a
  BY <1>1, <1>2, ArriveShape DEF Fresh, Current, Verified, Empty, vars
<1>3. CASE b # a
  <2>1. /\ adminPc'[b] = adminPc[b] /\ adminReq'[b] = adminReq[b]
        /\ originalDef'[b] = originalDef[b] /\ UNCHANGED vars
    BY <1>1, <1>3, ArriveShape
  <2>2. /\ overlapped => overlapped'
        /\ Disturbed(b) => Disturbed(b)'
    BY <1>1, ArriveRemembers DEF Disturbed
  <2>3. Fresh(b) /\ Current(b) /\ Verified(b) /\ Empty(b)
    BY DEF SchemaInv, AdminInv
  <2>4. Fresh(b)' /\ Current(b)'
    BY <2>1, <2>2, <2>3 DEF Fresh, Current, vars
  <2>5. Verified(b)'
    BY <2>1, <2>2, <2>3 DEF Verified, Holds, Exists, FieldOf, vars
  <2>6. Empty(b)'
    BY <2>1, <2>2, <2>3 DEF Empty, Exists, vars
  <2> QED BY <2>4, <2>5, <2>6
<1> QED BY <1>2, <1>3

(* One who goes on keeps its own ground; to the others it is a disturbance. *)
LEMMA AdminAdmin ==
  ASSUME SchemaInv, NEW a \in Admins, AdminStep(a), Watch, NEW b \in Admins
  PROVE  Fresh(b)' /\ Current(b)' /\ Verified(b)' /\ Empty(b)'
<1>1. SchemaTypeOK /\ Asked(a)
  BY DEF SchemaInv, AdminInv
<1>2. /\ AdminActive(a) /\ UNCHANGED <<dataVars, adminReq, originalDef>>
      /\ adminPc'[a] \in {"apply", "persist", "ok", "rejected", "failed"}
      /\ adminPc'[a] = "apply" => adminPc[a] = "verify" /\ UNCHANGED vars
      /\ adminPc'[a] = "rejected" => UNCHANGED vars
      /\ adminReq[a].type \in Types
  BY <1>1, AdminShape
<1>3. /\ overlapped => overlapped'
      /\ \A c \in Admins : Applied(c) => Applied(c)'
  BY <1>1, AdminRemembers
<1>4. Fresh(b) /\ Current(b) /\ Verified(b) /\ Empty(b)
  BY DEF SchemaInv, AdminInv
<1>5. CASE b # a
  <2>1. adminPc'[b] = adminPc[b]
    BY <1>1, <1>5, AdminShape
  <2>2. AdminActive(b) => overlapped'
    BY <1>2, <1>3, <1>5, Lonely DEF SchemaInv
  <2>3. Disturbed(b) => Disturbed(b)'
    BY <1>3 DEF Disturbed
  <2>4. UNCHANGED vars \/ (AdminActive(b) => Disturbed(b)')
    <3>1. UNCHANGED vars \/ Applied(a)'
      BY <1>2 DEF Applied
    <3> QED BY <1>5, <2>2, <3>1 DEF Disturbed
  <2>5. Fresh(b)' /\ Current(b)'
    BY <1>2, <1>4, <2>1, <2>3, <2>4 DEF Fresh, Current, AdminActive, vars
  <2>6. Verified(b)' /\ Empty(b)'
    BY <2>1, <2>2 DEF Verified, Empty, AdminActive
  <2> QED BY <2>5, <2>6
<1>6. CASE b = a
  <2>1. Fresh(a)'
    <3>1. Disturbed(a) => Disturbed(a)'
      BY <1>3 DEF Disturbed
    <3> QED BY <1>2, <1>4, <1>6, <3>1 DEF Fresh, vars
  <2>2. ASSUME adminPc'[a] = "persist"
        PROVE  /\ RegisterCommit(a) \/ UpdateTypeApply(a)
               /\ definitions' = [definitions EXCEPT ![adminReq[a].type] = adminReq[a].def]
    <3>1. adminPc[a] # "persist"
      BY <1>1, <2>2, AdminShape
    <3>2. RegisterCommit(a) \/ VerifyUnique(a) \/ UpdateTypeApply(a)
      BY <3>1 DEF AdminStep, RegisterRollback, UpdateTypeRollback, SchemaPersisted
    <3>3. ~VerifyUnique(a)
      BY <1>1, <2>2 DEF VerifyUnique, AdminGoes, SchemaTypeOK
    <3> QED BY <1>1, <2>2, <3>2, <3>3
            DEF RegisterCommit, UpdateTypeApply, AdminGoes, SchemaTypeOK
  <2>3. Current(a)'
    BY <1>1, <1>2, <2>2 DEF Current, SchemaTypeOK, TypeOK
  <2>4. Verified(a)'
    <3> SUFFICES ASSUME adminPc'[a] = "apply"
                 PROVE  \A v \in Values, i, j \in IDs :
                          Holds(adminReq[a].type, i, v) /\ Holds(adminReq[a].type, j, v)
                            => i = j
      BY <1>2 DEF Verified, Holds, Exists, FieldOf, dataVars
    <3>1. adminPc[a] = "verify"
      BY <1>2
    <3>2. VerifyUnique(a)
      BY <3>1 DEF AdminStep, RegisterCommit, RegisterRollback, UpdateTypeApply,
           UpdateTypeRollback, SchemaPersisted
    <3>3. \A v \in Values : ~(Cardinality(Holders(adminReq[a].type, v)) > 1)
      BY <1>1, <3>2 DEF VerifyUnique, AdminGoes, SchemaTypeOK
    <3>4. FiniteTypes
      BY DEF SchemaInv
    <3> QED BY <1>2, <3>3, <3>4, VerifyFinds
  <2>5. Empty(a)'
    <3> SUFFICES ASSUME adminPc'[a] = "persist", adminReq[a].op = "register", ~overlapped'
                 PROVE  \A i \in IDs : ~Exists(adminReq[a].type, i)
      BY <1>2 DEF Empty, Exists, dataVars
    <3>1. RegisterCommit(a)
      BY <1>1, <2>2 DEF UpdateTypeApply, Asked
    <3>2. ~Registered(adminReq[a].type)
      BY <1>1, <3>1 DEF RegisterCommit, AdminGoes, SchemaTypeOK
    <3> QED BY <1>2, <1>3, <3>2 DEF SchemaInv, NoOrphans
  <2> QED BY <1>6, <2>1, <2>3, <2>4, <2>5
<1> QED BY <1>5, <1>6

-----------------------------------------------------------------------------
(* The entities and the definitions of their types. *)

(* An entity comes into being by an Insert that found its type registered, or
   by the rollback of an Update or a Delete. *)
LEMMA NewEntity ==
  ASSUME BaseInv, NEW r \in Requests, Commit(r) \/ Persisted(r) \/ Rollback(r),
         NEW t \in Types, NEW i \in IDs, Exists(t, i)', ~Exists(t, i)
  PROVE  /\ t = req[r].type /\ i = req[r].id
         /\ \/ Registered(t)
            \/ /\ pc[r] = "persist" /\ pc'[r] = "failed"
               /\ req[r].op \in {"update", "delete"}
<1> PICK u \in Types, j \in IDs : u = req[r].type /\ j = req[r].id
  BY StepShape DEF BaseInv
<1>1. ASSUME NEW o \in {NoObject, r}, entities' = [entities EXCEPT ![u][j] = o]
      PROVE  t = u /\ i = j
  <2>1. o \in Requests \cup {NoObject}
    OBVIOUS
  <2>2. entities'[t][i] = IF t = u /\ i = j THEN o ELSE entities[t][i]
    BY <1>1, <2>1, PutType DEF BaseInv, TypeOK
  <2> QED BY <2>2 DEF Exists
<1>2. ~UNCHANGED entities
  BY DEF Exists
<1>3. CASE InsertCommit(r)
  <2>1. Registered(u) /\ entities' = [entities EXCEPT ![u][j] = r]
    BY <1>2, <1>3 DEF InsertCommit, Refuse
  <2> QED BY <1>1, <2>1
<1>4. CASE DeleteCommit(r)
  <2>1. entities' = [entities EXCEPT ![u][j] = NoObject]
    BY <1>2, <1>4 DEF DeleteCommit, Refuse
  <2>2. entities'[t][i] \in {entities[t][i], NoObject}
    BY <2>1, PutType DEF BaseInv, TypeOK
  <2> QED BY <2>2 DEF Exists
<1>5. CASE InsertRollback(r)
  <2>1. entities' = [entities EXCEPT ![u][j] = NoObject]
    BY <1>5 DEF InsertRollback
  <2>2. entities'[t][i] \in {entities[t][i], NoObject}
    BY <2>1, PutType DEF BaseInv, TypeOK
  <2> QED BY <2>2 DEF Exists
<1>6. CASE UpdateRollback(r) \/ DeleteRollback(r)
  <2>1. entities' = [entities EXCEPT ![u][j] = r]
    BY <1>6 DEF UpdateRollback, DeleteRollback
  <2>2. /\ pc[r] = "persist" /\ pc'[r] = "failed"
        /\ req[r].op \in {"update", "delete"}
    BY <1>6 DEF UpdateRollback, DeleteRollback, PersistFails, BaseInv, TypeOK
  <2> QED BY <1>1, <2>1, <2>2
<1>7. CASE TruncateCommit(r)
  <2>1. entities' = [entities EXCEPT ![u] = [k \in IDs |-> NoObject]]
    BY <1>7 DEF TruncateCommit
  <2>2. entities'[t][i] \in {entities[t][i], NoObject}
    BY <2>1 DEF BaseInv, TypeOK
  <2> QED BY <2>2 DEF Exists
<1>8. ~TruncateDatabaseCommit(r)
  BY <1>2 DEF TruncateDatabaseCommit, Exists
<1>9. ~UpdateCommit(r) /\ ~Persisted(r) /\ ~TruncateFails(r)
  BY <1>2 DEF UpdateCommit, Persisted, TruncateFails, Refuse
<1> QED BY <1>3, <1>4, <1>5, <1>6, <1>7, <1>8, <1>9 DEF Commit, Rollback

(* A data request leaves every type finite, and no entity without a type: as
   long as nothing overlaps, the type of a backup is still registered. *)
LEMMA DataOrphans ==
  ASSUME SchemaInv, NEW r \in Requests, DataStep(r), UNCHANGED adminVars, Watch
  PROVE  NoOrphans' /\ FiniteTypes'
<1>1. SchemaTypeOK /\ BaseInv /\ TypeOK
  BY DEF SchemaInv, SchemaTypeOK
<1>2. /\ overlapped => overlapped'
      /\ \A b \in Admins : Applied(b)' <=> Applied(b)
      /\ NoRollbackYet' => NoRollbackYet
  BY <1>1, DataRemembers
<1>3. \A t \in Types : Registered(t)' <=> Registered(t)
  BY <1>1, DataShape DEF BaseInv, Registered
<1>4. CASE Prepare(r)
  <2>1. \A t \in Types, i \in IDs : Exists(t, i)' <=> Exists(t, i)
    BY <1>1, <1>4, PrepareReads
  <2>2. NoOrphans'
    BY <1>2, <1>3, <2>1 DEF SchemaInv, NoOrphans
  <2>3. FiniteTypes'
    BY <2>1 DEF SchemaInv, FiniteTypes
  <2> QED BY <2>2, <2>3
<1>5. CASE Commit(r) \/ Persisted(r) \/ Rollback(r)
  <2>1. ASSUME NEW t \in Types
        PROVE  IsFiniteSet({i \in IDs : Exists(t, i)'})
    <3>1. {i \in IDs : Exists(t, i)'} \subseteq {i \in IDs : Exists(t, i)} \cup {req[r].id}
      BY <1>1, <1>5, NewEntity
    <3>2. IsFiniteSet({i \in IDs : Exists(t, i)} \cup {req[r].id})
      BY FS_AddElement DEF SchemaInv, FiniteTypes
    <3> QED BY <3>1, <3>2, FS_Subset
  <2>2. ASSUME ~(overlapped' /\ (~NoRollbackYet' \/ \E b \in Admins : Applied(b)')),
               NEW t \in Types, ~Registered(t), NEW i \in IDs, Exists(t, i)'
        PROVE  FALSE
    <3>1. ~Exists(t, i)
      BY <1>2, <2>2 DEF SchemaInv, NoOrphans
    <3>2. /\ t = req[r].type /\ pc[r] = "persist" /\ pc'[r] = "failed"
          /\ req[r].op \in {"update", "delete"}
      BY <1>1, <1>5, <2>2, <3>1, NewEntity
    <3>3. req'[r] = req[r]
      BY <1>1, <1>5, StepShape DEF BaseInv
    <3>4. ~NoRollbackYet'
      BY <3>2, <3>3 DEF NoRollbackYet
    <3>5. ~overlapped
      BY <1>2, <2>2, <3>4
    <3> QED BY <2>2, <3>2, <3>5 DEF SchemaInv, Alone, Undoable
  <2>3. NoOrphans'
    BY <1>3, <2>2 DEF NoOrphans
  <2> QED BY <2>1, <2>3 DEF FiniteTypes
<1> QED BY <1>4, <1>5 DEF DataStep

(* An administrator leaves the entities alone; a type that loses its definition
   is empty unless another request has come in between. *)
LEMMA AdminOrphans ==
  ASSUME SchemaInv, NEW a \in Admins, AdminStep(a), Watch
  PROVE  NoOrphans' /\ FiniteTypes'
<1>1. SchemaTypeOK /\ Asked(a) /\ Empty(a)
  BY DEF SchemaInv, AdminInv
<1>2. /\ UNCHANGED <<dataVars, adminReq, originalDef>>
      /\ adminReq[a].type \in Types /\ adminReq[a].def \in Schema
  BY <1>1, AdminShape
<1>3. \A t \in Types, i \in IDs : Exists(t, i)' <=> Exists(t, i)
  BY <1>2 DEF dataVars, Exists
<1>4. FiniteTypes'
  BY <1>3 DEF SchemaInv, FiniteTypes
<1>5. /\ overlapped => overlapped'
      /\ \A b \in Admins : Applied(b) => Applied(b)'
      /\ NoRollbackYet' <=> NoRollbackYet
  BY <1>1, AdminRemembers
<1> PICK u \in Types : u = adminReq[a].type
  BY <1>2
<1>6. ASSUME NEW d \in Schema, definitions' = [definitions EXCEPT ![u] = d]
      PROVE  \A t \in Types : Registered(t) => Registered(t)'
  BY <1>6, MarkersDistinct DEF Registered, SchemaTypeOK, TypeOK
<1>7. CASE RegisterRollback(a)
  <2>1. Applied(a)' /\ adminPc[a] = "persist" /\ adminReq[a].op = "register"
        /\ \A t \in Types \ {u} : Registered(t)' <=> Registered(t)
    BY <1>1, <1>7 DEF RegisterRollback, AdminGoes, Applied, Registered, SchemaTypeOK, TypeOK
  <2>2. CASE overlapped'
    <3>1. \E b \in Admins : Applied(b)'
      BY <2>1
    <3>2. NoOrphans'
      BY <2>2, <3>1 DEF NoOrphans
    <3> QED BY <1>4, <3>2
  <2>3. CASE ~overlapped'
    <3>1. \A i \in IDs : ~Exists(u, i)
      BY <1>1, <1>5, <2>1, <2>3 DEF Empty
    <3>2. \A t \in Types : Registered(t) \/ \A i \in IDs : ~Exists(t, i)
      BY <1>5, <2>3 DEF SchemaInv, NoOrphans
    <3>3. \A t \in Types : Registered(t)' \/ \A i \in IDs : ~Exists(t, i)'
      BY <1>3, <2>1, <3>1, <3>2
    <3>4. NoOrphans'
      BY <3>3 DEF NoOrphans
    <3> QED BY <1>4, <3>4
  <2> QED BY <2>2, <2>3
<1>8. CASE ~RegisterRollback(a)
  <2>1. \A t \in Types : Registered(t) => Registered(t)'
    <3>1. CASE RegisterCommit(a) \/ UpdateTypeApply(a)
      <4>1. \/ UNCHANGED definitions
            \/ \E d \in Schema : definitions' = [definitions EXCEPT ![u] = d]
        BY <1>2, <3>1 DEF RegisterCommit, UpdateTypeApply, vars
      <4> QED BY <1>6, <4>1 DEF Registered
    <3>2. CASE UpdateTypeRollback(a)
      <4>1. originalDef[a] \in Schema
        BY <1>1, <3>2 DEF UpdateTypeRollback, Asked, Applied
      <4> QED BY <1>6, <3>2, <4>1 DEF UpdateTypeRollback
    <3>3. CASE VerifyUnique(a) \/ SchemaPersisted(a)
      BY <3>3 DEF VerifyUnique, SchemaPersisted, vars, Registered
    <3> QED BY <1>8, <3>1, <3>2, <3>3 DEF AdminStep
  <2>2. NoOrphans'
    BY <1>3, <1>5, <2>1 DEF SchemaInv, NoOrphans
  <2> QED BY <1>4, <2>2
<1> QED BY <1>7, <1>8

-----------------------------------------------------------------------------
(* A request that is alone can be undone. *)

(* After a commit or an answer without an overlap nobody else is in flight. *)
LEMMA NobodyElse ==
  ASSUME SchemaInv, NEW r \in Requests, Commit(r) \/ Persisted(r) \/ Rollback(r),
         ~overlapped, pc'[r] = "persist" => Undoable(r)'
  PROVE  Alone'
<1>1. /\ Active(r) /\ pc'[r] # "commit"
      /\ \A s \in Requests \ {r} : pc'[s] = pc[s]
  BY StepShape DEF SchemaInv, BaseInv
<1>2. \A s \in Requests \ {r} : ~Active(s)
  BY <1>1, Lonely DEF SchemaInv
<1>3. \A s \in Requests \ {r} : pc'[s] # "commit" /\ pc'[s] # "persist"
  BY <1>1, <1>2 DEF Active
<1> QED BY <1>1, <1>3 DEF Alone

(* Before a commit without an overlap the backup is the entity, its type is
   registered, and the unique index names it. *)
LEMMA BeforeCommit ==
  ASSUME SchemaInv, NEW r \in Requests, pc[r] = "commit", ~overlapped,
         req[r].op \in {"update", "delete"},
         NEW t, t = req[r].type, NEW i, i = req[r].id
  PROVE  /\ t \in Types /\ i \in IDs
         /\ Registered(t) /\ Exists(t, i) /\ heap[r] = FieldOf(t, i)
         /\ entities[t][i] # r
         /\ ~UniqueLost /\ Unique(t) /\ heap[r] \in Values =>
              \A j \in IDs \ {i} : ~Holds(t, j, heap[r])
<1>1. req[r] \in Request
  BY DEF SchemaInv, BaseInv, Served
<1>2. t \in Types /\ i \in IDs
  BY <1>1 DEF Request
<1>3. Exists(t, i) /\ heap[r] = FieldOf(t, i)
  BY DEF SchemaInv, Alone, BackupFresh
<1>4. Registered(t)
  BY <1>2, <1>3 DEF SchemaInv, NoOrphans
<1>5. entities[t][i] # r
  BY <1>2, <1>3 DEF SchemaInv, OwnersPast
<1>6. ASSUME ~UniqueLost, Unique(t), heap[r] \in Values, NEW j \in IDs \ {i},
             Holds(t, j, heap[r])
      PROVE  FALSE
  <2>1. ExactFor(Types, {})
    BY <1>6 DEF SchemaInv, SchemaExact, UniqueKept
  <2>2. Holds(t, i, heap[r])
    BY <1>3 DEF Holds
  <2>3. uniqueIndices[t][heap[r]] = i /\ uniqueIndices[t][heap[r]] = j
    BY <1>2, <1>6, <2>1, <2>2 DEF ExactFor
  <2> QED BY <1>6, <2>3
<1> QED BY <1>2, <1>3, <1>4, <1>5, <1>6

(* A commit leaves behind what undoes it. *)
LEMMA CommitUndoable ==
  ASSUME SchemaInv, NEW r \in Requests, Commit(r), UNCHANGED adminVars, Watch,
         ~overlapped, pc'[r] = "persist"
  PROVE  Undoable(r)'
<1> PICK t \in Types, i \in IDs : t = req[r].type /\ i = req[r].id
  BY StepShape DEF SchemaInv, BaseInv
<1>1. TypeOK /\ FieldsNotShared /\ UNCHANGED <<definitions, req>>
  BY StepShape DEF SchemaInv, BaseInv
<1>2. ~Refuse(r)
  BY <1>1 DEF Refuse, TypeOK
<1>3. UniqueLost' <=> UniqueLost
  BY DEF adminVars, UniqueLost, Undone
<1>4. (Unique(t)' <=> Unique(t)) /\ (Registered(t)' <=> Registered(t))
  BY <1>1 DEF Unique, Registered
<1>5. CASE InsertCommit(r)
  <2>1. req[r].op = "insert" /\ entities' = [entities EXCEPT ![t][i] = r]
    BY <1>2, <1>5 DEF InsertCommit
  <2>2. entities'[t][i] = r
    BY <1>1, <2>1, PutType DEF TypeOK
  <2> QED BY <1>1, <2>1, <2>2 DEF Undoable
<1>6. CASE UpdateCommit(r)
  <2>1. /\ req[r].op = "update" /\ UNCHANGED entities /\ pc[r] = "commit"
        /\ \E x : heap' = [heap EXCEPT ![entities[t][i]] = x]
    BY <1>2, <1>6 DEF UpdateCommit
  <2>2. /\ Registered(t) /\ Exists(t, i) /\ heap[r] = FieldOf(t, i)
        /\ entities[t][i] # r
        /\ ~UniqueLost /\ Unique(t) /\ heap[r] \in Values =>
             \A j \in IDs \ {i} : ~Holds(t, j, heap[r])
    BY <2>1, BeforeCommit
  <2>3. heap'[r] = heap[r]
    BY <1>1, <2>1, <2>2 DEF TypeOK
  <2>4. ASSUME NEW j \in IDs \ {i}
        PROVE  Holds(t, j, heap[r])' <=> Holds(t, j, heap[r])
    <3>1. Exists(t, j) => entities[t][j] # entities[t][i]
      BY <1>1, <2>2 DEF FieldsNotShared
    <3>2. Exists(t, j) => entities[t][j] \in Requests
      BY <1>1 DEF Exists, TypeOK
    <3> QED BY <1>1, <2>1, <2>3, <3>1, <3>2 DEF Holds, Exists, FieldOf, TypeOK
  <2>5. Exists(t, i)'
    BY <2>1, <2>2 DEF Exists
  <2> QED BY <1>1, <1>3, <1>4, <2>1, <2>2, <2>3, <2>4, <2>5 DEF Undoable
<1>7. CASE DeleteCommit(r)
  <2>1. /\ req[r].op = "delete" /\ UNCHANGED heap /\ pc[r] = "commit"
        /\ entities' = [entities EXCEPT ![t][i] = NoObject]
    BY <1>2, <1>7 DEF DeleteCommit
  <2>2. /\ Registered(t)
        /\ ~UniqueLost /\ Unique(t) /\ heap[r] \in Values =>
             \A j \in IDs \ {i} : ~Holds(t, j, heap[r])
    BY <2>1, BeforeCommit
  <2>3. \A j \in IDs :
          entities'[t][j] = IF j = i THEN NoObject ELSE entities[t][j]
    BY <1>1, <2>1, PutType DEF TypeOK
  <2>4. ASSUME NEW j \in IDs \ {i}
        PROVE  Holds(t, j, heap[r])' <=> Holds(t, j, heap[r])
    BY <2>1, <2>3 DEF Holds, Exists, FieldOf
  <2>5. ~Exists(t, i)'
    BY <2>3 DEF Exists
  <2> QED BY <1>1, <1>3, <1>4, <2>1, <2>2, <2>4, <2>5 DEF Undoable
<1>8. CASE TruncateCommit(r) \/ TruncateDatabaseCommit(r)
  BY <1>1, <1>8 DEF TruncateCommit, TruncateDatabaseCommit, Undoable
<1> QED BY <1>5, <1>6, <1>7, <1>8 DEF Commit

(* A request that arrives takes a fresh backup, and changes nothing for one
   that is on its way. *)
LEMMA PrepareAlone ==
  ASSUME SchemaInv, NEW r \in Requests, Prepare(r), UNCHANGED adminVars,
         ~overlapped
  PROVE  Alone'
<1>1. TypeOK /\ Served /\ BaseInv
  BY DEF SchemaInv, BaseInv
<1>2. /\ pc[r] = "idle" /\ pc'[r] \in {"commit", "rejected"}
      /\ \A s \in Requests \ {r} :
           heap'[s] = heap[s] /\ pc'[s] = pc[s] /\ req'[s] = req[s]
      /\ UNCHANGED <<definitions, entities, indices, uniqueIndices>>
  BY <1>1, PrepareShape
<1>3. \A t \in Types, i \in IDs :
        /\ Exists(t, i)' <=> Exists(t, i)
        /\ Exists(t, i) => FieldOf(t, i)' = FieldOf(t, i)
  BY <1>1, PrepareReads
<1>4. ASSUME pc'[r] = "commit"
      PROVE  BackupFresh(r)'
  <2>1. PICK q \in Workload :
          \/ InsertPrepare(r, q) \/ UpdatePrepare(r, q) \/ DeletePrepare(r, q)
          \/ TruncatePrepare(r, q) \/ TruncateDatabasePrepare(r, q)
    BY DEF Prepare
  <2>2. q.type \in Types /\ q.id \in IDs /\ q \in Request
    BY WorkloadAssumption DEF Request
  <2>3. req' = [req EXCEPT ![r] = q]
    BY <2>1 DEF InsertPrepare, UpdatePrepare, DeletePrepare, TruncatePrepare,
         TruncateDatabasePrepare, Arrive
  <2>4. req'[r] = q
    BY <1>1, <2>3 DEF TypeOK
  <2>5. q.op \in {"update", "delete"} =>
          Exists(q.type, q.id) /\ heap'[r] = FieldOf(q.type, q.id)
    BY <1>1, <1>4, <2>1 DEF InsertPrepare, UpdatePrepare, DeletePrepare,
         TruncatePrepare, TruncateDatabasePrepare, Arrive, TypeOK
  <2> QED BY <1>3, <2>2, <2>4, <2>5 DEF BackupFresh
<1>5. ASSUME NEW s \in Requests \ {r}, pc[s] \in {"commit", "persist"}
      PROVE  req[s].type \in Types /\ req[s].id \in IDs
  BY <1>1, <1>5 DEF Served, Request
<1>6. ASSUME NEW s \in Requests \ {r}, pc'[s] = "commit"
      PROVE  BackupFresh(s)'
  <2>1. BackupFresh(s) /\ req'[s] = req[s] /\ heap'[s] = heap[s]
    BY <1>2, <1>6 DEF SchemaInv, Alone
  <2>2. req[s].type \in Types /\ req[s].id \in IDs
    BY <1>2, <1>5, <1>6
  <2> QED BY <1>3, <2>1, <2>2 DEF BackupFresh
<1>7. ASSUME NEW s \in Requests \ {r}, pc'[s] = "persist"
      PROVE  Undoable(s)'
  <2>1. Undoable(s) /\ req'[s] = req[s] /\ heap'[s] = heap[s]
    BY <1>2, <1>7 DEF SchemaInv, Alone
  <2>2. req[s].type \in Types /\ req[s].id \in IDs
    BY <1>2, <1>5, <1>7
  <2>3. \A t \in Types, j \in IDs : Holds(t, j, heap[s])' <=> Holds(t, j, heap[s])
    BY <1>3, <2>1 DEF Holds
  <2>4. /\ \A t \in Types : (Unique(t)' <=> Unique(t)) /\ (Registered(t)' <=> Registered(t))
        /\ UniqueLost' <=> UniqueLost
    BY <1>2 DEF Unique, Registered, adminVars, UniqueLost, Undone
  <2> QED BY <1>2, <1>3, <2>1, <2>2, <2>3, <2>4 DEF Undoable
<1>8. \A s \in Requests : /\ pc'[s] = "commit" => BackupFresh(s)'
                          /\ pc'[s] = "persist" => Undoable(s)'
  BY <1>2, <1>4, <1>6, <1>7
<1> QED BY <1>8 DEF Alone

(* Alone is kept by the steps of the data requests ... *)
LEMMA DataAlone ==
  ASSUME SchemaInv, NEW r \in Requests, DataStep(r), UNCHANGED adminVars, Watch
  PROVE  Alone'
<1>1. CASE overlapped
  BY <1>1 DEF Watch, Alone
<1>2. CASE ~overlapped /\ Prepare(r)
  BY <1>2, PrepareAlone
<1>3. CASE ~overlapped /\ Commit(r)
  BY <1>3, CommitUndoable, NobodyElse
<1>4. CASE ~overlapped /\ (Persisted(r) \/ Rollback(r))
  <2>1. pc'[r] # "persist"
    BY <1>4 DEF Persisted, Rollback, InsertRollback, UpdateRollback, DeleteRollback,
         TruncateFails, PersistFails, SchemaInv, BaseInv, TypeOK
  <2> QED BY <1>4, <2>1, NobodyElse
<1> QED BY <1>1, <1>2, <1>3, <1>4 DEF DataStep

(* ... and of the administrators, in whose presence no request is alone. *)
LEMMA AdminAlone ==
  ASSUME SchemaInv, NEW a \in Admins, AdminStep(a), Watch
  PROVE  Alone'
<1>1. AdminActive(a) /\ UNCHANGED pc
  BY AdminShape DEF SchemaInv, AdminInv, dataVars
<1>2. \A r \in Requests : Active(r) => overlapped
  BY <1>1, Lonely DEF SchemaInv
<1> QED BY <1>1, <1>2 DEF Alone, Active, Watch

(* One who arrives changes nothing for a request that is alone. *)
LEMMA ArriveAlone ==
  ASSUME SchemaInv, NEW a \in Admins, NEW q \in SchemaRequests,
         RegisterCheck(a, q) \/ UpdateTypeRead(a, q), Watch
  PROVE  Alone'
<1>1. /\ overlapped => overlapped'
      /\ UniqueLost => UniqueLost'
  BY ArriveRemembers DEF SchemaInv, AdminInv
<1>2. UNCHANGED vars
  BY ArriveShape DEF SchemaInv
<1>3. ASSUME NEW r \in Requests
      PROVE  /\ BackupFresh(r) => BackupFresh(r)'
             /\ Undoable(r) => Undoable(r)'
  <2>1. BackupFresh(r) => BackupFresh(r)'
    BY <1>2 DEF vars, BackupFresh, Exists, FieldOf
  <2>2. Undoable(r) => Undoable(r)'
    BY <1>1, <1>2 DEF vars, Undoable, Exists, FieldOf, Holds, Unique, Registered
  <2> QED BY <2>1, <2>2
<1> QED BY <1>1, <1>2, <1>3 DEF SchemaInv, Alone, vars

-----------------------------------------------------------------------------
(* The indices under the steps of the data requests. *)

(* A rollback of a request that is alone undoes exactly its commit. *)
LEMMA RollbackAlone ==
  ASSUME SchemaInv, NEW r \in Requests, Rollback(r), ~overlapped,
         NEW U, NEW X, ExactFor(U, X), U = {} \/ ~UniqueLost
  PROVE  ExactFor(U, X)'
<1> PICK t \in Types, i \in IDs : t = req[r].type /\ i = req[r].id
  BY StepShape DEF SchemaInv, BaseInv
<1> PICK now : now = IF Exists(t, i) THEN FieldOf(t, i) ELSE Nil
  OBVIOUS
<1>0. TypeOK /\ Undoable(r)
  <2>1. pc[r] = "persist"
    BY DEF Rollback, InsertRollback, UpdateRollback, DeleteRollback, TruncateFails,
         PersistFails
  <2> QED BY <2>1 DEF SchemaInv, BaseInv, Alone
<1>1. ASSUME req[r].op \in {"update", "delete"}
      PROVE  t \in U /\ Unique(t) /\ heap[r] \in Values =>
               \A j \in IDs \ {i} : ~Holds(t, j, heap[r])
  BY <1>0, <1>1 DEF Undoable
<1>2. CASE InsertRollback(r)
  <2>1. /\ req[r].op = "insert" /\ UNCHANGED <<definitions, heap>>
        /\ entities' = [entities EXCEPT ![t][i] = NoObject]
        /\ indices' = [indices EXCEPT ![t] = RemoveIndex(indices[t], t, i, heap[r])]
        /\ uniqueIndices' = [uniqueIndices EXCEPT ![t] =
                               RemoveUnique(uniqueIndices[t], t, heap[r])]
    BY <1>2 DEF InsertRollback, PersistFails
  <2>2. entities[t][i] = r
    BY <1>0, <2>1 DEF Undoable
  <2>3. Exists(t, i) /\ heap[r] = FieldOf(t, i)
    BY <2>2, MarkersDistinct DEF Exists, FieldOf
  <2> QED BY <1>0, <2>1, <2>3, RemovalExact
<1>3. CASE UpdateRollback(r)
  <2>1. /\ req[r].op = "update" /\ UNCHANGED <<definitions, heap>>
        /\ entities' = [entities EXCEPT ![t][i] = r]
        /\ indices' = [indices EXCEPT ![t] =
             AddIndex(RemoveIndex(indices[t], t, i, now), t, i, heap[r])]
        /\ uniqueIndices' = [uniqueIndices EXCEPT ![t] =
             AddUnique(RemoveUnique(uniqueIndices[t], t, now), t, i, heap[r])]
    BY <1>3 DEF UpdateRollback, PersistFails
  <2> QED BY <1>0, <1>1, <2>1, RestoreExact
<1>4. CASE DeleteRollback(r)
  <2>1. /\ req[r].op = "delete" /\ UNCHANGED <<definitions, heap>>
        /\ entities' = [entities EXCEPT ![t][i] = r]
        /\ indices' = [indices EXCEPT ![t] = AddIndex(indices[t], t, i, heap[r])]
        /\ uniqueIndices' = [uniqueIndices EXCEPT ![t] =
             AddUnique(uniqueIndices[t], t, i, heap[r])]
    BY <1>4 DEF DeleteRollback, PersistFails
  <2>2. now = Nil
    BY <1>0, <2>1 DEF Undoable
  <2>3. RemoveIndex(indices[t], t, i, now) = indices[t]
        /\ RemoveUnique(uniqueIndices[t], t, now) = uniqueIndices[t]
    BY <2>2, MarkersDistinct DEF RemoveIndex, RemoveUnique
  <2> QED BY <1>0, <1>1, <2>1, <2>3, RestoreExact
<1>5. CASE TruncateFails(r)
  BY <1>5 DEF TruncateFails, PersistFails, ExactFor, Unique, Indexed, Registered,
       Holds, Exists, FieldOf
<1> QED BY <1>2, <1>3, <1>4, <1>5 DEF Rollback

(* Among overlapping requests only a failed truncation is no rollback. *)
LEMMA RollbackOverlapped ==
  ASSUME SchemaInv, NEW r \in Requests, Rollback(r), NoRollbackYet'
  PROVE  UNCHANGED <<definitions, entities, heap, indices, uniqueIndices>>
<1>1. ASSUME NEW op \in Ops, PersistFails(r, op)
      PROVE  op \in {"truncate", "truncatedb"}
  BY <1>1 DEF PersistFails, NoRollbackYet, SchemaInv, BaseInv, TypeOK
<1> QED BY <1>1 DEF Rollback, InsertRollback, UpdateRollback,
              DeleteRollback, TruncateFails, PersistFails, Ops

(* The steps of the data requests keep exact indices exact. *)
LEMMA DataKeeps ==
  ASSUME SchemaInv, NEW r \in Requests, DataStep(r), UNCHANGED adminVars, Watch,
         NEW U, NEW X, ExactFor(U, X), U = {} \/ ~UniqueLost,
         overlapped' => NoRollbackYet'
  PROVE  ExactFor(U, X)'
<1>1. CASE UNCHANGED <<definitions, entities, heap, indices, uniqueIndices>>
  BY <1>1 DEF ExactFor, Unique, Indexed, Registered, Holds, Exists, FieldOf
<1>2. CASE Prepare(r)
  BY <1>2, PrepareExact DEF SchemaInv
<1>3. CASE Commit(r)
  BY <1>3, CommitExact DEF SchemaInv
<1>4. CASE Persisted(r)
  BY <1>1, <1>4 DEF Persisted
<1>5. CASE Rollback(r)
  <2>1. CASE overlapped
    BY <1>1, <1>5, <2>1, RollbackOverlapped DEF Watch
  <2>2. CASE ~overlapped
    BY <1>5, <2>2, RollbackAlone
  <2> QED BY <2>1, <2>2
<1> QED BY <1>2, <1>3, <1>4, <1>5 DEF DataStep

(* So the claims of SchemaExact survive them. *)
LEMMA DataExact ==
  ASSUME SchemaInv, SchemaNext, NEW r \in Requests, DataStep(r),
         UNCHANGED adminVars, Watch
  PROVE  SchemaExact'
<1>1. /\ IndexKept' => IndexKept /\ ExactFor({}, Types)
      /\ UniqueKept' => UniqueKept /\ ExactFor(Types, {})
  BY Remembered DEF SchemaInv, AdminInv, SchemaExact
<1>2. IndexKept' => ExactFor({}, Types)'
  <2> SUFFICES ASSUME IndexKept' PROVE ExactFor({}, Types)'
    OBVIOUS
  <2>1. overlapped' => NoRollbackYet'
    BY DEF IndexKept, OneApplied
  <2> QED BY <1>1, <2>1, DataKeeps
<1>3. UniqueKept' => ExactFor(Types, {})'
  <2> SUFFICES ASSUME UniqueKept' PROVE ExactFor(Types, {})'
    OBVIOUS
  <2>1. overlapped' => NoRollbackYet'
    BY DEF UniqueKept, OneApplied
  <2>2. ~UniqueLost
    BY <1>1 DEF UniqueKept
  <2> QED BY <1>1, <2>1, <2>2, DataKeeps
<1> QED BY <1>2, <1>3 DEF SchemaExact

-----------------------------------------------------------------------------
(* The indices under the steps of the administrators. *)

(* The other types are out of an administrator's reach. *)
LEMMA OtherTypes ==
  ASSUME SchemaTypeOK, NEW a \in Admins, Asked(a), AdminStep(a),
         NEW u, u = adminReq[a].type
  PROVE  \A t \in Types \ {u} : definitions'[t] = definitions[t]
           /\ indices'[t] = indices[t] /\ uniqueIndices'[t] = uniqueIndices[t]
<1>1. CASE UNCHANGED vars
  BY <1>1 DEF vars
<1>2. ASSUME NEW d \in Schema \cup {Unregistered}, NEW x \in [Values -> [IDs -> Nat]],
             NEW y \in [Values -> IDs \cup {NoID}],
             definitions' = [definitions EXCEPT ![u] = d],
             indices' = [indices EXCEPT ![u] = x],
             uniqueIndices' = [uniqueIndices EXCEPT ![u] = y]
      PROVE  \A t \in Types \ {u} : definitions'[t] = definitions[t]
               /\ indices'[t] = indices[t] /\ uniqueIndices'[t] = uniqueIndices[t]
  BY <1>2 DEF SchemaTypeOK, TypeOK
<1>3. \/ UNCHANGED vars
      \/ \E d \in Schema \cup {Unregistered}, x \in [Values -> [IDs -> Nat]],
            y \in [Values -> IDs \cup {NoID}] :
           /\ definitions' = [definitions EXCEPT ![u] = d]
           /\ indices' = [indices EXCEPT ![u] = x]
           /\ uniqueIndices' = [uniqueIndices EXCEPT ![u] = y]
  BY AdminMaps
<1> QED BY <1>1, <1>2, <1>3

(* Only the indices of the type that is changed have to be looked at. *)
LEMMA AdminElsewhere ==
  ASSUME SchemaInv, NEW a \in Admins, AdminStep(a), NEW u, u = adminReq[a].type,
         NEW U, NEW X, ExactFor(U, X),
         \A v \in Values, i \in IDs :
           /\ u \in U /\ Unique(u)' => (uniqueIndices'[u][v] = i <=> Holds(u, i, v))
           /\ u \in X /\ Indexed(u)' =>
                indices'[u][v][i] = IF Holds(u, i, v) THEN 1 ELSE 0
  PROVE  ExactFor(U, X)'
<1>1. SchemaTypeOK /\ Asked(a)
  BY DEF SchemaInv, AdminInv
<1>2. UNCHANGED dataVars
  BY <1>1, AdminShape
<1>3. \A t \in Types, i \in IDs : \A v : Holds(t, i, v)' <=> Holds(t, i, v)
  BY <1>2 DEF dataVars, Holds, Exists, FieldOf
<1>4. \A t \in Types \ {u} : definitions'[t] = definitions[t]
        /\ indices'[t] = indices[t] /\ uniqueIndices'[t] = uniqueIndices[t]
  BY <1>1, OtherTypes
<1>5. ASSUME NEW t \in Types \ {u}, NEW v \in Values, NEW i \in IDs
      PROVE  /\ t \in U /\ Unique(t)' =>
                  (uniqueIndices'[t][v] = i <=> Holds(t, i, v)')
             /\ t \in X /\ Indexed(t)' =>
                  indices'[t][v][i] = IF Holds(t, i, v)' THEN 1 ELSE 0
  <2>1. (Unique(t)' <=> Unique(t)) /\ (Indexed(t)' <=> Indexed(t))
    BY <1>4 DEF Unique, Indexed, Registered
  <2>2. /\ t \in U /\ Unique(t) => (uniqueIndices[t][v] = i <=> Holds(t, i, v))
        /\ t \in X /\ Indexed(t) => indices[t][v][i] = IF Holds(t, i, v) THEN 1 ELSE 0
    BY DEF ExactFor
  <2> QED BY <1>3, <1>4, <2>1, <2>2
<1> QED BY <1>3, <1>5 DEF ExactFor

(* A change in force has not been disturbed, if the overlaps were harmless. *)
LEMMA Undisturbed ==
  ASSUME SchemaInv, NEW a \in Admins, AdminStep(a), Watch, Applied(a)',
         overlapped' => OneApplied'
  PROVE  /\ ~Disturbed(a)
         /\ ~Applied(a) =>
              \A t \in Types : Registered(t) \/ \A i \in IDs : ~Exists(t, i)
<1>1. /\ overlapped => overlapped'
      /\ \A b \in Admins : Applied(b) => Applied(b)'
      /\ NoRollbackYet' <=> NoRollbackYet
  BY AdminRemembers DEF SchemaInv, AdminInv
<1>2. overlapped => \A b \in Admins \ {a} : ~Applied(b)
  BY <1>1 DEF OneApplied
<1>3. overlapped => NoRollbackYet
  BY <1>1 DEF OneApplied
<1> QED BY <1>2, <1>3 DEF Disturbed, SchemaInv, NoOrphans

(* A registration that finds the name free starts with empty indices, and with
   no entities. *)
LEMMA RegisterExact ==
  ASSUME SchemaInv, NEW a \in Admins, RegisterCommit(a), Watch,
         overlapped' => OneApplied', NEW U, NEW X, ExactFor(U, X)
  PROVE  ExactFor(U, X)'
<1>1. SchemaTypeOK /\ Asked(a) /\ AdminStep(a)
  BY DEF SchemaInv, AdminInv, AdminStep
<1> PICK u \in Types : u = adminReq[a].type
  BY <1>1, AdminShape
<1>2. CASE UNCHANGED vars
  BY <1>2 DEF vars, ExactFor, Unique, Indexed, Registered, Holds, Exists, FieldOf
<1>3. CASE ~UNCHANGED vars
  <2>1. /\ ~Registered(u) /\ adminPc[a] = "register" /\ AdminGoes(a, "persist")
        /\ indices' = [indices EXCEPT ![u] = EmptyIndex]
        /\ uniqueIndices' = [uniqueIndices EXCEPT ![u] = EmptyUnique]
    BY <1>3 DEF RegisterCommit
  <2>2. Applied(a)' /\ ~Applied(a)
    BY <1>1, <2>1 DEF AdminGoes, Applied, SchemaTypeOK
  <2>3. \A i \in IDs : \A v : ~Holds(u, i, v)
    BY <1>1, <2>1, <2>2, Undisturbed DEF Holds
  <2>4. \A v \in Values, i \in IDs :
          indices'[u][v][i] = 0 /\ uniqueIndices'[u][v] = NoID
    BY <1>1, <2>1 DEF SchemaTypeOK, TypeOK, EmptyIndex, EmptyUnique
  <2>5. \A v \in Values, i \in IDs :
          /\ uniqueIndices'[u][v] = i <=> Holds(u, i, v)
          /\ indices'[u][v][i] = IF Holds(u, i, v) THEN 1 ELSE 0
    BY <2>3, <2>4, MarkersDistinct
  <2> QED BY <1>1, <2>5, AdminElsewhere
<1> QED BY <1>2, <1>3

(* A type that is taken away again has no index to be exact. *)
LEMMA UnregisterExact ==
  ASSUME SchemaInv, NEW a \in Admins, RegisterRollback(a),
         NEW U, NEW X, ExactFor(U, X)
  PROVE  ExactFor(U, X)'
<1>1. SchemaTypeOK /\ Asked(a) /\ AdminStep(a)
  BY DEF SchemaInv, AdminInv, AdminStep
<1> PICK u \in Types : u = adminReq[a].type
  BY <1>1, AdminShape
<1>2. ~Registered(u)'
  BY <1>1 DEF RegisterRollback, Registered, SchemaTypeOK, TypeOK
<1>3. ~Unique(u)' /\ ~Indexed(u)'
  BY <1>2 DEF Unique, Indexed
<1> QED BY <1>1, <1>3, AdminElsewhere

(* The definition that a schema change compares with is the one in force. *)
LEMMA AppliedOn ==
  ASSUME SchemaInv, NEW a \in Admins, UpdateTypeApply(a), Watch,
         overlapped' => OneApplied',
         NEW u, u = adminReq[a].type, NEW old, old = originalDef[a],
         NEW new, new = adminReq[a].def
  PROVE  /\ AdminStep(a) /\ u \in Types /\ SchemaTypeOK
         /\ old \in Schema /\ new \in Schema
         /\ (Unique(u) <=> old.unique) /\ (Indexed(u) <=> old.indexed)
         /\ (Unique(u)' <=> new.unique) /\ (Indexed(u)' <=> new.indexed)
<1>1. SchemaTypeOK /\ Asked(a) /\ AdminStep(a) /\ Fresh(a)
  BY DEF SchemaInv, AdminInv, AdminStep
<1>2. /\ adminPc[a] = "apply" /\ AdminGoes(a, "persist")
      /\ definitions' = [definitions EXCEPT ![u] = new]
  BY DEF UpdateTypeApply
<1>3. u \in Types /\ new \in Schema
  BY <1>1, AdminShape
<1>4. old \in Schema
  BY <1>1, <1>2 DEF Asked
<1>5. Applied(a)'
  BY <1>1, <1>2 DEF AdminGoes, Applied, SchemaTypeOK
<1>6. definitions[u] = old
  BY <1>1, <1>2, <1>5, Undisturbed DEF Fresh
<1>7. definitions'[u] = new
  BY <1>1, <1>2, <1>3 DEF SchemaTypeOK, TypeOK
<1>8. old # Unregistered /\ new # Unregistered
  BY <1>3, <1>4, MarkersDistinct
<1> QED BY <1>1, <1>3, <1>4, <1>6, <1>7, <1>8 DEF Unique, Indexed, Registered

(* The index that is built, dropped or migrated is that of the entities. *)
LEMMA ApplyIndexExact ==
  ASSUME SchemaInv, NEW a \in Admins, UpdateTypeApply(a), Watch,
         overlapped' => OneApplied', ExactFor({}, Types)
  PROVE  ExactFor({}, Types)'
<1> PICK u, old, new : u = adminReq[a].type /\ old = originalDef[a] /\ new = adminReq[a].def
  OBVIOUS
<1>1. /\ AdminStep(a) /\ u \in Types /\ SchemaTypeOK
      /\ old \in Schema /\ new \in Schema
      /\ Indexed(u) <=> old.indexed
      /\ Indexed(u)' <=> new.indexed
  BY AppliedOn
<1>2. indices' = [indices EXCEPT ![u] = IndexAfter(u, old, new)]
  BY DEF UpdateTypeApply
<1>3. indices'[u] = IndexAfter(u, old, new)
  BY <1>1, <1>2 DEF SchemaTypeOK, TypeOK
<1>4. \A v \in Values, i \in IDs : i \in Holders(u, v) <=> Holds(u, i, v)
  BY DEF Holders, Holds
<1>5. new.indexed \in BOOLEAN /\ old.indexed \in BOOLEAN
  BY <1>1 DEF Schema
<1>6. ASSUME new.indexed, ~old.indexed, NEW v \in Values, NEW i \in IDs
      PROVE  indices'[u][v][i] = IF Holds(u, i, v) THEN 1 ELSE 0
  <2>1. indices'[u] = [w \in Values |-> [k \in IDs |-> IF k \in Holders(u, w) THEN 1 ELSE 0]]
    BY <1>3, <1>5, <1>6 DEF IndexAfter
  <2> QED BY <1>4, <2>1
<1>7. ASSUME new.indexed, old.indexed, NEW v \in Values, NEW i \in IDs
      PROVE  indices'[u][v][i] = IF Holds(u, i, v) THEN 1 ELSE 0
  <2>1. indices'[u] = Migrated(u)
    BY <1>3, <1>5, <1>7 DEF IndexAfter
  <2>2. Migrated(u)[v][i] = IF i \in Holders(u, v) /\ indices[u][v][i] = 0
                              THEN 1 ELSE indices[u][v][i]
    BY <1>1, <1>7 DEF Migrated
  <2>3. indices[u][v][i] = IF Holds(u, i, v) THEN 1 ELSE 0
    BY <1>1, <1>7 DEF ExactFor
  <2> QED BY <1>4, <2>1, <2>2, <2>3
<1>8. \A v \in Values, i \in IDs :
        Indexed(u)' => indices'[u][v][i] = IF Holds(u, i, v) THEN 1 ELSE 0
  BY <1>1, <1>6, <1>7
<1> QED BY <1>1, <1>8, AdminElsewhere

(* So is the unique index: a constraint that is added has been verified, and
   one that stays names the only entity that the walk can meet. *)
LEMMA ApplyUniqueExact ==
  ASSUME SchemaInv, NEW a \in Admins, UpdateTypeApply(a), Watch,
         overlapped' => OneApplied' /\ ~AddsUnique', ExactFor(Types, {})
  PROVE  ExactFor(Types, {})'
<1> PICK u, old, new : u = adminReq[a].type /\ old = originalDef[a] /\ new = adminReq[a].def
  OBVIOUS
<1>1. /\ AdminStep(a) /\ u \in Types /\ SchemaTypeOK
      /\ old \in Schema /\ new \in Schema
      /\ Unique(u) <=> old.unique
      /\ Unique(u)' <=> new.unique
  BY AppliedOn
<1>2. PICK met \in LastMet(u) :
        uniqueIndices' = [uniqueIndices EXCEPT ![u] = UniqueAfter(u, old, new, met)]
  BY DEF UpdateTypeApply
<1>3. uniqueIndices'[u] = UniqueAfter(u, old, new, met)
  BY <1>1, <1>2 DEF SchemaTypeOK, TypeOK
<1>4. \A v \in Values, i \in IDs : i \in Holders(u, v) <=> Holds(u, i, v)
  BY DEF Holders, Holds
<1>5. new.unique \in BOOLEAN /\ old.unique \in BOOLEAN
  BY <1>1 DEF Schema
<1>6. \A v \in Values :
        IF Holders(u, v) = {} THEN met[v] = NoID ELSE met[v] \in Holders(u, v)
  BY DEF LastMet
<1>7. \A v \in Values : Holders(u, v) \subseteq IDs
  BY DEF Holders
<1>8. ASSUME new.unique, ~old.unique, NEW v \in Values, NEW i \in IDs
      PROVE  uniqueIndices'[u][v] = i <=> Holds(u, i, v)
  <2>1. uniqueIndices'[u] = met
    BY <1>3, <1>5, <1>8 DEF UniqueAfter
  <2>2. ~overlapped
    <3>1. adminPc[a] = "apply"
      BY DEF UpdateTypeApply
    <3>2. adminReq[a] \in SchemaRequest /\ adminReq'[a] = adminReq[a]
          /\ originalDef'[a] = originalDef[a]
      BY <3>1 DEF UpdateTypeApply, SchemaInv, AdminInv, Asked
    <3>3. AddsUnique'
      BY <1>1, <1>8, <3>2 DEF AddsUnique
    <3> QED BY <3>3 DEF Watch
  <2>3. \A j, k \in IDs : Holds(u, j, v) /\ Holds(u, k, v) => j = k
    BY <1>8, <2>2 DEF SchemaInv, AdminInv, Verified, UpdateTypeApply
  <2> QED BY <1>4, <1>6, <1>7, <2>1, <2>3, MarkersDistinct
<1>9. ASSUME new.unique, old.unique, NEW v \in Values, NEW i \in IDs
      PROVE  uniqueIndices'[u][v] = i <=> Holds(u, i, v)
  <2>1. uniqueIndices'[u] = MigratedUnique(u, met)
    BY <1>3, <1>5, <1>9 DEF UniqueAfter
  <2>2. MigratedUnique(u, met)[v] =
          IF Holders(u, v) # {} THEN met[v] ELSE uniqueIndices[u][v]
    BY <1>1, <1>9 DEF MigratedUnique
  <2>3. \A j \in IDs : uniqueIndices[u][v] = j <=> Holds(u, j, v)
    BY <1>1, <1>9 DEF ExactFor
  <2> QED BY <1>4, <1>6, <1>7, <2>1, <2>2, <2>3
<1>10. \A v \in Values, i \in IDs :
         Unique(u)' => (uniqueIndices'[u][v] = i <=> Holds(u, i, v))
  BY <1>1, <1>8, <1>9
<1> QED BY <1>1, <1>10, AdminElsewhere

(* A definition that comes back leaves no index without its entries, but for
   the ones that IndexLost and UniqueLost name. *)
LEMMA RestoredExact ==
  ASSUME SchemaInv, NEW a \in Admins, UpdateTypeRollback(a), Watch,
         overlapped' => OneApplied', NEW U, NEW X, ExactFor(U, X),
         U = {} \/ ~UniqueLost', X = {} \/ ~IndexLost'
  PROVE  ExactFor(U, X)'
<1>1. SchemaTypeOK /\ Asked(a) /\ AdminStep(a) /\ Current(a)
  BY DEF SchemaInv, AdminInv, AdminStep
<1> PICK u, old, new : u = adminReq[a].type /\ old = originalDef[a] /\ new = adminReq[a].def
  OBVIOUS
<1>2. /\ adminPc[a] = "persist" /\ adminReq[a].op = "updatetype"
      /\ AdminGoes(a, "failed") /\ UNCHANGED <<adminReq, originalDef>>
      /\ definitions' = [definitions EXCEPT ![u] = old]
      /\ UNCHANGED <<indices, uniqueIndices>>
  BY DEF UpdateTypeRollback
<1>3. u \in Types /\ new \in Schema /\ old \in Schema
  BY <1>1, <1>2, AdminShape DEF Asked, Applied
<1>4. adminPc'[a] = "failed"
  BY <1>1, <1>2 DEF AdminGoes, SchemaTypeOK
<1>5. ~Disturbed(a)
  BY <1>1, <1>4, Undisturbed DEF Applied
<1>6. definitions[u] = new /\ definitions'[u] = old
  BY <1>1, <1>2, <1>3, <1>5 DEF Current, SchemaTypeOK, TypeOK
<1>7. old # Unregistered /\ new # Unregistered
  BY <1>3, MarkersDistinct
<1>8. Undone(a)' /\ originalDef'[a] = old /\ adminReq'[a] = adminReq[a]
  BY <1>2, <1>4 DEF Undone
<1>9. /\ ~UniqueLost' => (old.unique => new.unique)
      /\ ~IndexLost' => (old.indexed => new.indexed)
  BY <1>8 DEF UniqueLost, IndexLost
<1>10. /\ ~UniqueLost' => (Unique(u)' => Unique(u))
       /\ ~IndexLost' => (Indexed(u)' => Indexed(u))
  BY <1>6, <1>7, <1>9 DEF Unique, Indexed, Registered
<1>11. \A v \in Values, i \in IDs :
         /\ u \in U /\ Unique(u)' => (uniqueIndices'[u][v] = i <=> Holds(u, i, v))
         /\ u \in X /\ Indexed(u)' => indices'[u][v][i] = IF Holds(u, i, v) THEN 1 ELSE 0
  BY <1>2, <1>3, <1>10 DEF ExactFor
<1> QED BY <1>1, <1>11, AdminElsewhere

(* A stretch that changes no map leaves the indices as they were. *)
LEMMA SameMapsExact ==
  ASSUME NEW U, NEW X, ExactFor(U, X), UNCHANGED vars
  PROVE  ExactFor(U, X)'
BY DEF vars, ExactFor, Unique, Indexed, Registered, Holds, Exists, FieldOf

(* The steps of the administrators keep the claims. *)
LEMMA AdminExact ==
  ASSUME SchemaInv, SchemaNext, NEW a \in Admins, AdminStep(a), Watch
  PROVE  SchemaExact'
<1>1. /\ IndexKept' => IndexKept /\ ExactFor({}, Types)
      /\ UniqueKept' => UniqueKept /\ ExactFor(Types, {})
  BY Remembered DEF SchemaInv, AdminInv, SchemaExact
<1>2. IndexKept' => ExactFor({}, Types)'
  <2> SUFFICES ASSUME IndexKept' PROVE ExactFor({}, Types)'
    OBVIOUS
  <2>1. ExactFor({}, Types) /\ ~IndexLost' /\ (overlapped' => OneApplied')
    BY <1>1 DEF IndexKept
  <2>2. CASE RegisterCommit(a)
    BY <2>1, <2>2, RegisterExact
  <2>3. CASE RegisterRollback(a)
    BY <2>1, <2>3, UnregisterExact
  <2>4. CASE UpdateTypeApply(a)
    BY <2>1, <2>4, ApplyIndexExact
  <2>5. CASE UpdateTypeRollback(a)
    BY <2>1, <2>5, RestoredExact
  <2>6. CASE VerifyUnique(a) \/ SchemaPersisted(a)
    BY <2>1, <2>6, SameMapsExact DEF VerifyUnique, SchemaPersisted
  <2> QED BY <2>2, <2>3, <2>4, <2>5, <2>6 DEF AdminStep
<1>3. UniqueKept' => ExactFor(Types, {})'
  <2> SUFFICES ASSUME UniqueKept' PROVE ExactFor(Types, {})'
    OBVIOUS
  <2>1. /\ ExactFor(Types, {}) /\ ~UniqueLost' /\ (overlapped' => OneApplied')
        /\ overlapped' => ~AddsUnique'
    BY <1>1 DEF UniqueKept
  <2>2. CASE RegisterCommit(a)
    BY <2>1, <2>2, RegisterExact
  <2>3. CASE RegisterRollback(a)
    BY <2>1, <2>3, UnregisterExact
  <2>4. CASE UpdateTypeApply(a)
    BY <2>1, <2>4, ApplyUniqueExact
  <2>5. CASE UpdateTypeRollback(a)
    BY <2>1, <2>5, RestoredExact
  <2>6. CASE VerifyUnique(a) \/ SchemaPersisted(a)
    BY <2>1, <2>6, SameMapsExact DEF VerifyUnique, SchemaPersisted
  <2> QED BY <2>2, <2>3, <2>4, <2>5, <2>6 DEF AdminStep
<1> QED BY <1>2, <1>3 DEF SchemaExact

-----------------------------------------------------------------------------
(* The inductive invariant. *)

(* Nothing exists and nobody is on the way at the start. *)
LEMMA SchemaStart == SchemaInit => SchemaInv
<1> SUFFICES ASSUME SchemaInit PROVE SchemaInv
  OBVIOUS
<1>1. TypeOK /\ Served
  BY TypeInit DEF SchemaInit
<1>2. /\ \A r \in Requests : pc[r] = "idle"
      /\ \A a \in Admins : adminPc[a] = "idle" /\ adminReq[a] = NoSchema
      /\ \A t \in Types, i \in IDs : ~Exists(t, i)
      /\ \A t \in Types : indices[t] = EmptyIndex /\ uniqueIndices[t] = EmptyUnique
  BY DEF SchemaInit, Init, Exists
<1>3. SchemaTypeOK
  BY <1>1 DEF SchemaInit, SchemaTypeOK
<1>4. BaseInv /\ OwnersPast
  BY <1>1, <1>2 DEF BaseInv, FieldsNotShared, OwnersPast
<1>5. Counted
  <2>1. /\ {r \in Requests : Active(r)} = {}
        /\ {a \in Admins : AdminActive(a)} = {}
    BY <1>2 DEF Active, AdminActive
  <2>2. IsFiniteSet({}) /\ Cardinality({}) = 0
    BY FS_EmptySet
  <2> QED BY <2>1, <2>2 DEF Counted, InFlight, ActiveRequests, ActiveAdmins
<1>6. AdminInv
  BY <1>2 DEF AdminInv, Asked, Fresh, Current, Verified, Empty, Applied
<1>7. NoOrphans /\ Alone
  BY <1>2 DEF NoOrphans, Alone
<1>8. FiniteTypes
  <2>1. \A t \in Types : {i \in IDs : Exists(t, i)} = {}
    BY <1>2
  <2> QED BY <2>1, FS_EmptySet DEF FiniteTypes
<1>9. \A U, X : ExactFor(U, X)
  BY <1>2, MarkersDistinct DEF ExactFor, Holds, EmptyIndex, EmptyUnique
<1> QED BY <1>3, <1>4, <1>5, <1>6, <1>7, <1>8, <1>9 DEF SchemaInv, SchemaExact

(* A step of a data request keeps the invariant. *)
LEMMA DataKeepsInv ==
  ASSUME SchemaInv, SchemaNext, NEW r \in Requests, DataStep(r),
         UNCHANGED adminVars, Watch
  PROVE  SchemaInv'
<1>1. /\ (SchemaTypeOK /\ BaseInv /\ OwnersPast)' /\ \A a \in Admins : Asked(a)'
      /\ Counted'
  BY BaseStep, CountedStep DEF SchemaInv, AdminInv
<1>2. \A a \in Admins : Fresh(a)' /\ Current(a)' /\ Verified(a)' /\ Empty(a)'
  BY DataAdmin
<1>3. NoOrphans' /\ FiniteTypes'
  BY DataOrphans
<1>4. Alone' /\ SchemaExact'
  BY DataAlone, DataExact
<1> QED BY <1>1, <1>2, <1>3, <1>4 DEF SchemaInv, AdminInv

(* So does the first stretch of an administrator ... *)
LEMMA ArriveKeepsInv ==
  ASSUME SchemaInv, SchemaNext, NEW a \in Admins, NEW q \in SchemaRequests,
         RegisterCheck(a, q) \/ UpdateTypeRead(a, q), Watch
  PROVE  SchemaInv'
<1>1. /\ (SchemaTypeOK /\ BaseInv /\ OwnersPast)' /\ \A b \in Admins : Asked(b)'
      /\ Counted'
  BY BaseStep, CountedStep DEF SchemaInv, AdminInv
<1>2. \A b \in Admins : Fresh(b)' /\ Current(b)' /\ Verified(b)' /\ Empty(b)'
  BY ArriveAdmin
<1>3. UNCHANGED vars
  BY ArriveShape DEF SchemaInv
<1>4. /\ overlapped => overlapped'
      /\ \A b \in Admins : Applied(b) => Applied(b)'
      /\ NoRollbackYet' <=> NoRollbackYet
  BY ArriveRemembers DEF SchemaInv, AdminInv
<1>5. NoOrphans' /\ FiniteTypes'
  <2>1. /\ \A t \in Types : Registered(t)' <=> Registered(t)
        /\ \A t \in Types, i \in IDs : Exists(t, i)' <=> Exists(t, i)
    BY <1>3 DEF vars, Registered, Exists
  <2>2. NoOrphans'
    BY <1>4, <2>1 DEF SchemaInv, NoOrphans
  <2>3. FiniteTypes'
    BY <2>1 DEF SchemaInv, FiniteTypes
  <2> QED BY <2>2, <2>3
<1>6. Alone'
  BY ArriveAlone
<1>7. SchemaExact'
  <2>1. (IndexKept' => IndexKept) /\ (UniqueKept' => UniqueKept)
    BY Remembered DEF SchemaInv, AdminInv
  <2>2. \A U, X : ExactFor(U, X) => ExactFor(U, X)'
    BY <1>3, SameMapsExact
  <2> QED BY <2>1, <2>2 DEF SchemaInv, SchemaExact
<1> QED BY <1>1, <1>2, <1>5, <1>6, <1>7 DEF SchemaInv, AdminInv

(* ... and every later one. *)
LEMMA AdminKeepsInv ==
  ASSUME SchemaInv, SchemaNext, NEW a \in Admins, AdminStep(a), Watch
  PROVE  SchemaInv'
<1>1. /\ (SchemaTypeOK /\ BaseInv /\ OwnersPast)' /\ \A b \in Admins : Asked(b)'
      /\ Counted'
  BY BaseStep, CountedStep DEF SchemaInv, AdminInv
<1>2. \A b \in Admins : Fresh(b)' /\ Current(b)' /\ Verified(b)' /\ Empty(b)'
  BY AdminAdmin
<1>3. NoOrphans' /\ FiniteTypes'
  BY AdminOrphans
<1>4. Alone' /\ SchemaExact'
  BY AdminAlone, AdminExact
<1> QED BY <1>1, <1>2, <1>3, <1>4 DEF SchemaInv, AdminInv

(* A step that changes nothing keeps it. *)
LEMMA SchemaStutter ==
  ASSUME SchemaInv, UNCHANGED schemaVars
  PROVE  SchemaInv'
<1> USE DEF schemaVars, adminVars, vars
<1>1. (SchemaTypeOK /\ BaseInv /\ OwnersPast)'
  BY DEF SchemaInv, SchemaTypeOK, BaseInv, TypeOK, Served, FieldsNotShared,
       OwnersPast, Exists
<1>2. Counted'
  BY DEF SchemaInv, Counted, ActiveRequests, ActiveAdmins, InFlight, Active, AdminActive
<1>3. \A t \in Types, i \in IDs :
        /\ Exists(t, i)' <=> Exists(t, i)
        /\ \A v : Holds(t, i, v)' <=> Holds(t, i, v)
  BY DEF Holds, Exists, FieldOf
<1>4. AdminInv'
  BY DEF SchemaInv, AdminInv, Asked, Fresh, Current, Verified, Empty, Disturbed, Applied,
       Holds, Exists, FieldOf
<1>5. NoOrphans' /\ FiniteTypes'
  BY <1>3 DEF SchemaInv, NoOrphans, FiniteTypes, NoRollbackYet, Applied, Registered
<1>6. Alone'
  BY DEF SchemaInv, Alone, BackupFresh, Undoable, UniqueLost, Undone, Unique, Registered,
       Holds, Exists, FieldOf
<1>7. SchemaExact'
  <2>1. \A U, X : ExactFor(U, X) => ExactFor(U, X)'
    BY SameMapsExact
  <2>2. (IndexKept' => IndexKept) /\ (UniqueKept' => UniqueKept)
    BY DEF IndexKept, UniqueKept, OneApplied, NoRollbackYet, Applied, IndexLost,
         UniqueLost, Undone, AddsUnique
  <2> QED BY <2>1, <2>2 DEF SchemaInv, SchemaExact
<1> QED BY <1>1, <1>2, <1>4, <1>5, <1>6, <1>7 DEF SchemaInv

(* The invariant holds in every state. *)
LEMMA SchemaInductive == SchemaSpec => []SchemaInv
<1>1. SchemaInv /\ [SchemaNext]_schemaVars => SchemaInv'
  <2> SUFFICES ASSUME SchemaInv, [SchemaNext]_schemaVars PROVE SchemaInv'
    OBVIOUS
  <2>1. CASE UNCHANGED schemaVars
    BY <2>1, SchemaStutter
  <2>2. CASE SchemaNext
    BY <2>2, SchemaSteps, DataKeepsInv, ArriveKeepsInv, AdminKeepsInv
  <2> QED BY <2>1, <2>2
<1> QED BY <1>1, SchemaStart, PTL DEF SchemaSpec

(* The conditions of the properties are those of the invariant. *)
LEMMA OneChangeApplied == OneChange => OneApplied
BY DEF OneChange, OneApplied, Applied

(* Every stretch of every data and schema request leaves the maps of the engine
   and the records of the administrators well-formed. *)
THEOREM SchemaTypeCorrect == SchemaSpec => []SchemaTypeOK
<1>1. SchemaInv => SchemaTypeOK
  BY DEF SchemaInv
<1> QED BY <1>1, SchemaInductive, PTL

(* Registering a type and building, migrating or dropping its index keeps the
   index exact, under data requests between the stretches of the change too;
   except after a definition came back without its index entries, among
   overlapping changes, and after a rollback among overlapping requests. *)
THEOREM IndexKeptExact == SchemaSpec => []SchemaChangeKeepsIndex
<1>1. SchemaInv => SchemaChangeKeepsIndex
  <2> SUFFICES ASSUME SchemaInv, ~IndexLost, overlapped => OneChange
               PROVE  IndexExact
    BY DEF SchemaChangeKeepsIndex
  <2>1. ExactFor({}, Types)
    BY OneChangeApplied DEF SchemaInv, SchemaExact, IndexKept
  <2> QED BY <2>1 DEF ExactFor, IndexExact
<1> QED BY <1>1, SchemaInductive, PTL

(* Likewise the unique index is exact and the values of a unique field are
   distinct, if no data request overlaps a change that adds a constraint. *)
THEOREM UniqueKeptExact == SchemaSpec => []SchemaChangeKeepsUnique
<1>1. SchemaInv => SchemaChangeKeepsUnique
  <2> SUFFICES ASSUME SchemaInv, ~UniqueLost, overlapped => OneChange /\ ~AddsUnique
               PROVE  UniqueIndexExact /\ NoDuplicates
    BY DEF SchemaChangeKeepsUnique
  <2>1. ExactFor(Types, {})
    BY OneChangeApplied DEF SchemaInv, SchemaExact, UniqueKept
  <2>2. UniqueIndexExact
    BY <2>1 DEF ExactFor, UniqueIndexExact
  <2>3. NoDuplicates
    <3> SUFFICES ASSUME NEW t \in Types, Unique(t), NEW v \in Values, NEW i \in IDs,
                        NEW j \in IDs, Holds(t, i, v), Holds(t, j, v)
                 PROVE  i = j
      BY DEF NoDuplicates
    <3>1. uniqueIndices[t][v] = i /\ uniqueIndices[t][v] = j
      BY <2>2 DEF UniqueIndexExact
    <3> QED BY <3>1
  <2> QED BY <2>2, <2>3
<1> QED BY <1>1, SchemaInductive, PTL
=============================================================================
