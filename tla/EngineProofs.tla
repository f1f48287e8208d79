---------------------------- MODULE EngineProofs ----------------------------
(***************************************************************************)
(* The safety of Engine for every set of requests, types, IDs and values.  *)
(*                                                                         *)
(* The indices are exact as long as no rollback happened.  That is not     *)
(* inductive alone: an Update changes a Fields map in place, so one has to *)
(* know that no second entity refers to that map (FieldsNotShared), and an *)
(* arriving request fills the map it made, so one has to know that no      *)
(* entity refers to it yet.                                                *)
(***************************************************************************)
EXTENDS Engine, FiniteSetTheorems, TLAPS

(* What every step keeps, rollbacks and changes of the schema included. *)
BaseInv == TypeOK /\ Served /\ FieldsNotShared

IndInv ==
  /\ TypeOK
  /\ Served
  /\ FieldsNotShared
  /\ IndicesExactWithoutRollback

-----------------------------------------------------------------------------
(* What updateIndices makes of an index is an index again. *)
LEMMA IndexOpsType ==
  ASSUME NEW t, NEW i \in IDs, NEW v
  PROVE  /\ \A x \in [Values -> [IDs -> Nat]] :
              /\ AddIndex(x, t, i, v) \in [Values -> [IDs -> Nat]]
              /\ RemoveIndex(x, t, i, v) \in [Values -> [IDs -> Nat]]
         /\ \A u \in [Values -> IDs \cup {NoID}] :
              /\ AddUnique(u, t, i, v) \in [Values -> IDs \cup {NoID}]
              /\ RemoveUnique(u, t, v) \in [Values -> IDs \cup {NoID}]
  BY DEF AddIndex, RemoveIndex, AddUnique, RemoveUnique

(* So is the entity map after one key changed. *)
LEMMA PutType ==
  ASSUME NEW e \in [Types -> [IDs -> Requests \cup {NoObject}]],
         NEW t \in Types, NEW i \in IDs, NEW o \in Requests \cup {NoObject}
  PROVE  /\ [e EXCEPT ![t][i] = o] \in [Types -> [IDs -> Requests \cup {NoObject}]]
         /\ \A u \in Types, j \in IDs :
              [e EXCEPT ![t][i] = o][u][j] =
                IF u = t /\ j = i THEN o ELSE e[u][j]
  OBVIOUS

(* Two tables over types and IDs with the same entries are the same table. *)
LEMMA SameTable ==
  ASSUME NEW S, NEW f \in [Types -> [IDs -> S]], NEW g \in [Types -> [IDs -> S]],
         \A t \in Types, i \in IDs : f[t][i] = g[t][i]
  PROVE  f = g
  OBVIOUS

(* A finite set of at most one element. *)
LEMMA AtMostOne ==
  ASSUME NEW S, IsFiniteSet(S), ~(Cardinality(S) > 1), NEW x \in S, NEW y \in S
  PROVE  x = y
<1>1. SUFFICES ASSUME x # y PROVE FALSE
  OBVIOUS
<1>2. {x} \subseteq S \ {y} /\ IsFiniteSet(S \ {y})
      /\ Cardinality(S \ {y}) = Cardinality(S) - 1
  BY <1>1, FS_RemoveElement
<1>3. Cardinality({x}) <= Cardinality(S \ {y})
  BY <1>2, FS_Subset
<1>4. Cardinality({x}) = 1
  BY FS_Singleton
<1>5. Cardinality(S) \in Nat
  BY FS_CardinalityType
<1> QED BY <1>2, <1>3, <1>4, <1>5

(* Every step of every request keeps the types and the Served conjunct. *)
LEMMA TypeStep ==
  ASSUME TypeOK, Served, [Next]_vars
  PROVE  TypeOK' /\ Served'
  <1> USE WorkloadAssumption, MarkersDistinct
  <1>1. ASSUME NEW r \in Requests, NEW q \in Workload,
               req' = [req EXCEPT ![r] = q],
               \/ /\ pc' = [pc EXCEPT ![r] = "commit"]
                  /\ q.op = "update" => q.val # BadValue
               \/ pc' = [pc EXCEPT ![r] = "rejected"],
               heap' \in [Requests -> Values \cup {Nil}],
               UNCHANGED <<definitions, entities, indices, uniqueIndices>>
        PROVE  TypeOK' /\ Served'
    BY <1>1 DEF TypeOK, Served
  <1>2. ASSUME NEW r \in Requests, Prepare(r)
        PROVE  TypeOK' /\ Served'
    <2> PICK q \in Workload :
          \/ InsertPrepare(r, q) \/ UpdatePrepare(r, q) \/ DeletePrepare(r, q)
          \/ TruncatePrepare(r, q) \/ TruncateDatabasePrepare(r, q)
      BY <1>2 DEF Prepare
    <2>0. q.type \in Types /\ q.id \in IDs
      BY DEF Request
    <2>1. heap' \in [Requests -> Values \cup {Nil}]
      <3> USE DEF Arrive, TypeOK
      <3>1. CASE InsertPrepare(r, q)
        BY <3>1 DEF InsertPrepare
      <3>2. CASE UpdatePrepare(r, q)
        BY <2>0, <3>2 DEF UpdatePrepare, Exists, FieldOf
      <3>3. CASE DeletePrepare(r, q)
        BY <2>0, <3>3 DEF DeletePrepare, Exists, FieldOf
      <3>4. CASE TruncatePrepare(r, q)
        BY <3>4 DEF TruncatePrepare
      <3>5. CASE TruncateDatabasePrepare(r, q)
        BY <3>5 DEF TruncateDatabasePrepare
      <3> QED BY <3>1, <3>2, <3>3, <3>4, <3>5
    <2>2. /\ req' = [req EXCEPT ![r] = q]
          /\ \/ /\ pc' = [pc EXCEPT ![r] = "commit"]
                /\ q.op = "update" => q.val # BadValue
             \/ pc' = [pc EXCEPT ![r] = "rejected"]
          /\ UNCHANGED <<definitions, entities, indices, uniqueIndices>>
      BY DEF InsertPrepare, UpdatePrepare, DeletePrepare, TruncatePrepare,
           TruncateDatabasePrepare, Arrive, ValidData, ValidUpdate
    <2> QED BY <2>1, <2>2, <1>1
  <1>3. ASSUME NEW r \in Requests, pc[r] \in {"commit", "persist"}
        PROVE  req[r].type \in Types /\ req[r].id \in IDs
                 /\ req[r].val \in Values \cup {Nil, Absent, BadValue}
    BY <1>3 DEF Served, Request
  <1>4. ASSUME NEW r \in Requests, Refuse(r), pc[r] = "commit"
        PROVE  TypeOK' /\ Served'
    BY <1>4 DEF Refuse, TypeOK, Served
  <1>5. ASSUME NEW r \in Requests, InsertCommit(r)
        PROVE  TypeOK' /\ Served'
    <2> DEFINE t == req[r].type
               i == req[r].id
    <2>1. /\ t \in Types /\ i \in IDs
          /\ AddIndex(indices[t], t, i, heap[r]) \in [Values -> [IDs -> Nat]]
          /\ AddUnique(uniqueIndices[t], t, i, heap[r])
               \in [Values -> IDs \cup {NoID}]
      BY <1>5, <1>3, IndexOpsType DEF InsertCommit, TypeOK
    <2>2. CASE Registered(t) /\ ~Exists(t, i) /\ UniquenessHolds(t, heap[r], NoID)
      <3>1. Served'
        BY <1>5, <2>2 DEF InsertCommit, TypeOK, Served
      <3>2. entities' \in [Types -> [IDs -> Requests \cup {NoObject}]]
        <4>1. entities' = [entities EXCEPT ![t][i] = r]
          BY <1>5, <2>2 DEF InsertCommit
        <4> QED BY <2>1, <4>1, PutType DEF TypeOK
      <3>3. indices' \in [Types -> [Values -> [IDs -> Nat]]]
        BY <1>5, <2>1, <2>2 DEF InsertCommit, TypeOK
      <3>4. uniqueIndices' \in [Types -> [Values -> IDs \cup {NoID}]]
        BY <1>5, <2>1, <2>2 DEF InsertCommit, TypeOK
      <3> QED BY <1>5, <2>2, <3>1, <3>2, <3>3, <3>4 DEF InsertCommit, TypeOK
    <2>3. CASE ~(Registered(t) /\ ~Exists(t, i) /\ UniquenessHolds(t, heap[r], NoID))
      BY <1>5, <1>4, <2>3 DEF InsertCommit
    <2> QED BY <2>2, <2>3
  <1>6. ASSUME NEW r \in Requests, UpdateCommit(r)
        PROVE  TypeOK' /\ Served'
    <2> DEFINE t == req[r].type
               i == req[r].id
               new == Merged(req[r].val, FieldOf(t, i))
    <2>1. t \in Types /\ i \in IDs
      BY <1>6, <1>3 DEF UpdateCommit
    <2>2. /\ AddIndex(RemoveIndex(indices[t], t, i, FieldOf(t, i)), t, i, new)
               \in [Values -> [IDs -> Nat]]
          /\ AddUnique(RemoveUnique(uniqueIndices[t], t, FieldOf(t, i)), t, i, new)
               \in [Values -> IDs \cup {NoID}]
      BY <2>1, IndexOpsType DEF TypeOK
    <2>3. CASE Exists(t, i) /\ UniquenessHolds(t, new, i)
      <3>1. Served'
        BY <1>6, <2>3 DEF UpdateCommit, TypeOK, Served
      <3>2. heap' \in [Requests -> Values \cup {Nil}]
        <4>1. new \in Values \cup {Nil}
          BY <1>6, <1>3, <2>1, <2>3
             DEF UpdateCommit, TypeOK, Served, Exists, FieldOf, Merged
        <4> HIDE DEF new
        <4> QED BY <1>6, <2>3, <4>1 DEF UpdateCommit, TypeOK, new
      <3>3. indices' \in [Types -> [Values -> [IDs -> Nat]]]
        BY <1>6, <2>1, <2>2, <2>3 DEF UpdateCommit, TypeOK
      <3>4. uniqueIndices' \in [Types -> [Values -> IDs \cup {NoID}]]
        BY <1>6, <2>1, <2>2, <2>3 DEF UpdateCommit, TypeOK
      <3> QED BY <1>6, <2>3, <3>1, <3>2, <3>3, <3>4 DEF UpdateCommit, TypeOK
    <2>4. CASE ~(Exists(t, i) /\ UniquenessHolds(t, new, i))
      BY <1>6, <1>4, <2>4 DEF UpdateCommit
    <2> QED BY <2>3, <2>4
  <1>7. ASSUME NEW r \in Requests, DeleteCommit(r)
        PROVE  TypeOK' /\ Served'
    <2> DEFINE t == req[r].type
               i == req[r].id
    <2>1. /\ t \in Types /\ i \in IDs
          /\ RemoveIndex(indices[t], t, i, FieldOf(t, i))
               \in [Values -> [IDs -> Nat]]
          /\ RemoveUnique(uniqueIndices[t], t, FieldOf(t, i))
               \in [Values -> IDs \cup {NoID}]
      BY <1>7, <1>3, IndexOpsType DEF DeleteCommit, TypeOK
    <2>2. CASE Exists(t, i)
      <3>1. Served'
        BY <1>7, <2>2 DEF DeleteCommit, TypeOK, Served
      <3>2. entities' \in [Types -> [IDs -> Requests \cup {NoObject}]]
        <4>1. entities' = [entities EXCEPT ![t][i] = NoObject]
          BY <1>7, <2>2 DEF DeleteCommit
        <4> QED BY <2>1, <4>1, PutType DEF TypeOK
      <3>4. indices' \in [Types -> [Values -> [IDs -> Nat]]]
        BY <1>7, <2>1, <2>2 DEF DeleteCommit, TypeOK
      <3>3. uniqueIndices' \in [Types -> [Values -> IDs \cup {NoID}]]
        BY <1>7, <2>1, <2>2 DEF DeleteCommit, TypeOK
      <3> QED BY <1>7, <2>2, <3>1, <3>2, <3>3, <3>4 DEF DeleteCommit, TypeOK
    <2>3. CASE ~Exists(t, i)
      BY <1>7, <1>4, <2>3 DEF DeleteCommit
    <2> QED BY <2>2, <2>3
  <1>8. ASSUME NEW r \in Requests, TruncateCommit(r)
        PROVE  TypeOK' /\ Served'
    <2>1. indices' \in [Types -> [Values -> [IDs -> Nat]]]
      BY <1>8, <1>3 DEF TruncateCommit, TypeOK
    <2>2. uniqueIndices' \in [Types -> [Values -> IDs \cup {NoID}]]
      BY <1>8, <1>3 DEF TruncateCommit, TypeOK
    <2>3. Served'
      BY <1>8 DEF TruncateCommit, TypeOK, Served
    <2>4. entities' \in [Types -> [IDs -> Requests \cup {NoObject}]]
      BY <1>8, <1>3 DEF TruncateCommit, TypeOK
    <2> QED BY <1>8, <2>1, <2>2, <2>3, <2>4 DEF TruncateCommit, TypeOK
  <1>9. ASSUME NEW r \in Requests, TruncateDatabaseCommit(r)
        PROVE  TypeOK' /\ Served'
    <2>1. Served'
      BY <1>9 DEF TruncateDatabaseCommit, TypeOK, Served
    <2>2. CASE \E t \in Types : \E i \in IDs : Exists(t, i)
      <3>1. entities' \in [Types -> [IDs -> Requests \cup {NoObject}]]
        BY <1>9, <2>2 DEF TruncateDatabaseCommit
      <3>2. /\ indices' \in [Types -> [Values -> [IDs -> Nat]]]
            /\ uniqueIndices' \in [Types -> [Values -> IDs \cup {NoID}]]
        BY <1>9, <2>2 DEF TruncateDatabaseCommit, EmptyIndex, EmptyUnique
      <3> QED BY <1>9, <2>1, <2>2, <3>1, <3>2 DEF TruncateDatabaseCommit, TypeOK
    <2>3. CASE ~\E t \in Types : \E i \in IDs : Exists(t, i)
      BY <1>9, <2>1, <2>3 DEF TruncateDatabaseCommit, TypeOK
    <2> QED BY <2>2, <2>3
  <1>10. ASSUME NEW r \in Requests, Persisted(r)
         PROVE  TypeOK' /\ Served'
    BY <1>10 DEF Persisted, TypeOK, Served
  <1>11. ASSUME NEW r \in Requests, Rollback(r)
         PROVE  TypeOK' /\ Served'
    <2>1. CASE InsertRollback(r)
      BY <2>1, <1>3, IndexOpsType DEF InsertRollback, PersistFails, TypeOK, Served
    <2>2. CASE UpdateRollback(r)
      BY <2>2, <1>3, IndexOpsType DEF UpdateRollback, PersistFails, TypeOK, Served
    <2>3. CASE DeleteRollback(r)
      BY <2>3, <1>3, IndexOpsType DEF DeleteRollback, PersistFails, TypeOK, Served
    <2>4. CASE TruncateFails(r)
      BY <2>4 DEF TruncateFails, PersistFails, TypeOK, Served
    <2> QED BY <1>11, <2>1, <2>2, <2>3, <2>4 DEF Rollback
  <1>12. CASE UNCHANGED vars
    BY <1>12 DEF vars, TypeOK, Served
  <1> QED
    BY <1>2, <1>5, <1>6, <1>7, <1>8, <1>9, <1>10, <1>11, <1>12 DEF Next, Commit

(* The initial maps are well-formed. *)
LEMMA TypeInit == Init => TypeOK /\ Served
  BY DEF Init, TypeOK, Served, EmptyIndex, EmptyUnique

(* Every stretch of every handler leaves the maps of the engine well-formed,
   rollbacks of stale copies included. *)
THEOREM TypeCorrect == Spec => []TypeOK
  <1>1. TypeOK /\ Served /\ [Next]_vars => (TypeOK /\ Served)'
    BY TypeStep
  <1> QED BY TypeInit, <1>1, PTL DEF Spec

-----------------------------------------------------------------------------
(* No step makes two entities share a Fields map. *)
LEMMA NotSharedStep ==
  ASSUME TypeOK, Served, FieldsNotShared, [Next]_vars
  PROVE  FieldsNotShared'
  <1> USE MarkersDistinct, WorkloadAssumption DEF FieldsNotShared, Exists
  <1>1. ASSUME NEW r \in Requests, Prepare(r)
        PROVE  FieldsNotShared'
    <2>1. PICK q \in Workload :
            /\ pc[r] = "idle"
            /\ req' = [req EXCEPT ![r] = q]
            /\ \E x \in {"commit", "rejected"} : pc' = [pc EXCEPT ![r] = x]
            /\ entities' = entities
      BY <1>1 DEF Prepare, InsertPrepare, UpdatePrepare, DeletePrepare,
           TruncatePrepare, TruncateDatabasePrepare, Arrive
    <2> QED BY <2>1 DEF TypeOK
  <1>2. ASSUME NEW r \in Requests, pc[r] # "idle", req' = req,
               NEW x \in {"persist", "ok", "rejected", "failed"},
               pc' = [pc EXCEPT ![r] = x],
               \A t \in Types, i \in IDs :
                 \/ entities'[t][i] \in {entities[t][i], NoObject}
                 \/ entities'[t][i] = r /\ req[r].type = t /\ req[r].id = i
        PROVE  FieldsNotShared'
    BY <1>2 DEF TypeOK
  <1>3. ASSUME NEW r \in Requests, Commit(r)
        PROVE  FieldsNotShared'
    <2>1. CASE InsertCommit(r)
      <3> DEFINE t == req[r].type
                 i == req[r].id
      <3>1. t \in Types /\ i \in IDs
        BY <2>1 DEF InsertCommit, Served, Request
      <3>2. \/ entities' = entities
            \/ entities' = [entities EXCEPT ![t][i] = r]
        BY <2>1 DEF InsertCommit, Refuse
      <3>3. \A u \in Types, j \in IDs :
              \/ entities'[u][j] \in {entities[u][j], NoObject}
              \/ entities'[u][j] = r /\ t = u /\ i = j
        <4> HIDE DEF t, i
        <4> QED BY <3>1, <3>2, PutType DEF TypeOK
      <3>4. /\ pc[r] # "idle" /\ req' = req
            /\ \E x \in {"persist", "ok", "rejected", "failed"} :
                 pc' = [pc EXCEPT ![r] = x]
        BY <2>1 DEF InsertCommit, Refuse
      <3> QED BY <3>3, <3>4, <1>2
    <2>2. CASE UpdateCommit(r)
      BY <2>2, <1>2 DEF UpdateCommit, Refuse
    <2>3. CASE DeleteCommit(r)
      <3> DEFINE t == req[r].type
                 i == req[r].id
      <3>1. t \in Types /\ i \in IDs
        BY <2>3 DEF DeleteCommit, Served, Request
      <3>2. \/ entities' = entities
            \/ entities' = [entities EXCEPT ![t][i] = NoObject]
        BY <2>3 DEF DeleteCommit, Refuse
      <3>3. \A u \in Types, j \in IDs :
              \/ entities'[u][j] \in {entities[u][j], NoObject}
              \/ entities'[u][j] = r /\ t = u /\ i = j
        <4> HIDE DEF t, i
        <4> QED BY <3>1, <3>2, PutType DEF TypeOK
      <3>4. /\ pc[r] # "idle" /\ req' = req
            /\ \E x \in {"persist", "ok", "rejected", "failed"} :
                 pc' = [pc EXCEPT ![r] = x]
        BY <2>3 DEF DeleteCommit, Refuse
      <3> QED BY <3>3, <3>4, <1>2
    <2>4. CASE TruncateCommit(r)
      BY <2>4, <1>2 DEF TruncateCommit, TypeOK, Served, Request
    <2>5. CASE TruncateDatabaseCommit(r)
      BY <2>5, <1>2 DEF TruncateDatabaseCommit
    <2> QED BY <1>3, <2>1, <2>2, <2>3, <2>4, <2>5 DEF Commit
  <1>4. ASSUME NEW r \in Requests, Persisted(r)
        PROVE  FieldsNotShared'
    BY <1>4, <1>2 DEF Persisted
  <1>5. ASSUME NEW r \in Requests, Rollback(r)
        PROVE  FieldsNotShared'
    <2>1. CASE InsertRollback(r)
      <3> DEFINE t == req[r].type
                 i == req[r].id
      <3>1. t \in Types /\ i \in IDs
        BY <2>1 DEF InsertRollback, PersistFails, Served, Request
      <3>2. \/ entities' = entities
            \/ entities' = [entities EXCEPT ![t][i] = NoObject]
        BY <2>1 DEF InsertRollback, Refuse
      <3>3. \A u \in Types, j \in IDs :
              \/ entities'[u][j] \in {entities[u][j], NoObject}
              \/ entities'[u][j] = r /\ t = u /\ i = j
        <4> HIDE DEF t, i
        <4> QED BY <3>1, <3>2, PutType DEF TypeOK
      <3>4. /\ pc[r] # "idle" /\ req' = req
            /\ \E x \in {"persist", "ok", "rejected", "failed"} :
                 pc' = [pc EXCEPT ![r] = x]
        BY <2>1 DEF InsertRollback, PersistFails, Refuse
      <3> QED BY <3>3, <3>4, <1>2
    <2>2. CASE UpdateRollback(r)
      <3> DEFINE t == req[r].type
                 i == req[r].id
      <3>1. t \in Types /\ i \in IDs
        BY <2>2 DEF UpdateRollback, PersistFails, Served, Request
      <3>2. \/ entities' = entities
            \/ entities' = [entities EXCEPT ![t][i] = r]
        BY <2>2 DEF UpdateRollback, Refuse
      <3>3. \A u \in Types, j \in IDs :
              \/ entities'[u][j] \in {entities[u][j], NoObject}
              \/ entities'[u][j] = r /\ t = u /\ i = j
        <4> HIDE DEF t, i
        <4> QED BY <3>1, <3>2, PutType DEF TypeOK
      <3>4. /\ pc[r] # "idle" /\ req' = req
            /\ \E x \in {"persist", "ok", "rejected", "failed"} :
                 pc' = [pc EXCEPT ![r] = x]
        BY <2>2 DEF UpdateRollback, PersistFails, Refuse
      <3> QED BY <3>3, <3>4, <1>2
    <2>3. CASE DeleteRollback(r)
      <3> DEFINE t == req[r].type
                 i == req[r].id
      <3>1. t \in Types /\ i \in IDs
        BY <2>3 DEF DeleteRollback, PersistFails, Served, Request
      <3>2. \/ entities' = entities
            \/ entities' = [entities EXCEPT ![t][i] = r]
        BY <2>3 DEF DeleteRollback, Refuse
      <3>3. \A u \in Types, j \in IDs :
              \/ entities'[u][j] \in {entities[u][j], NoObject}
              \/ entities'[u][j] = r /\ t = u /\ i = j
        <4> HIDE DEF t, i
        <4> QED BY <3>1, <3>2, PutType DEF TypeOK
      <3>4. /\ pc[r] # "idle" /\ req' = req
            /\ \E x \in {"persist", "ok", "rejected", "failed"} :
                 pc' = [pc EXCEPT ![r] = x]
        BY <2>3 DEF DeleteRollback, PersistFails, Refuse
      <3> QED BY <3>3, <3>4, <1>2
    <2>4. CASE TruncateFails(r)
      BY <2>4, <1>2 DEF TruncateFails, PersistFails
    <2> QED BY <1>5, <2>1, <2>2, <2>3, <2>4 DEF Rollback
  <1>6. CASE UNCHANGED vars
    BY <1>6 DEF vars
  <1> QED BY <1>1, <1>3, <1>4, <1>5, <1>6 DEF Next

-----------------------------------------------------------------------------
(* What the handlers touch. *)

(* A first stretch: an idle request gets its job and its own Fields map. *)
LEMMA PrepareShape ==
  ASSUME TypeOK, NEW r \in Requests, Prepare(r)
  PROVE  /\ pc[r] = "idle"
         /\ pc'[r] \in {"commit", "rejected"}
         /\ \A s \in Requests \ {r} :
              heap'[s] = heap[s] /\ pc'[s] = pc[s] /\ req'[s] = req[s]
         /\ UNCHANGED <<definitions, entities, indices, uniqueIndices>>
<1>1. PICK q \in Workload :
        \/ InsertPrepare(r, q) \/ UpdatePrepare(r, q) \/ DeletePrepare(r, q)
        \/ TruncatePrepare(r, q) \/ TruncateDatabasePrepare(r, q)
  BY DEF Prepare
<1>2. /\ pc[r] = "idle" /\ req' = [req EXCEPT ![r] = q]
      /\ \E p \in {"commit", "rejected"} : pc' = [pc EXCEPT ![r] = p]
      /\ \E x : heap' = [heap EXCEPT ![r] = x]
      /\ UNCHANGED <<definitions, entities, indices, uniqueIndices>>
  BY <1>1 DEF InsertPrepare, UpdatePrepare, DeletePrepare, TruncatePrepare,
       TruncateDatabasePrepare, Arrive
<1> QED BY <1>2 DEF TypeOK

(* Every later stretch: an active request moves on and keeps its job. *)
LEMMA StepShape ==
  ASSUME TypeOK, Served, NEW r \in Requests,
         Commit(r) \/ Persisted(r) \/ Rollback(r)
  PROVE  /\ Active(r) /\ UNCHANGED <<definitions, req>>
         /\ pc'[r] \in {"persist", "ok", "rejected", "failed"} /\ pc'[r] # pc[r]
         /\ pc'[r] = "persist" => pc[r] = "commit"
         /\ \A s \in Requests \ {r} : pc'[s] = pc[s]
         /\ req[r].type \in Types /\ req[r].id \in IDs /\ req[r] \in Request
<1>1. /\ Active(r) /\ UNCHANGED <<definitions, req>>
      /\ \E p \in {"persist", "ok", "rejected", "failed"} :
           pc' = [pc EXCEPT ![r] = p] /\ p # pc[r] /\ (p = "persist" => pc[r] = "commit")
  <2>1. CASE Commit(r)
    BY <2>1 DEF Commit, InsertCommit, UpdateCommit, DeleteCommit, TruncateCommit,
         TruncateDatabaseCommit, Refuse, Active
  <2>2. CASE Persisted(r)
    BY <2>2 DEF Persisted, Active
  <2>3. CASE Rollback(r)
    BY <2>3 DEF Rollback, InsertRollback, UpdateRollback, DeleteRollback,
         TruncateFails, PersistFails, Active
  <2> QED BY <2>1, <2>2, <2>3
<1>2. req[r] \in Request
  BY <1>1 DEF Active, Served
<1>3. req[r].type \in Types /\ req[r].id \in IDs
  BY <1>2 DEF Request
<1> QED BY <1>1, <1>2, <1>3 DEF TypeOK

(* A first stretch changes no entity: the map it makes is nobody's. *)
LEMMA PrepareReads ==
  ASSUME BaseInv, NEW r \in Requests, Prepare(r), NEW t \in Types, NEW i \in IDs
  PROVE  /\ Exists(t, i)' <=> Exists(t, i)
         /\ Exists(t, i) => FieldOf(t, i)' = FieldOf(t, i) /\ entities[t][i] # r
<1>1. Exists(t, i) => entities[t][i] \in Requests \ {r}
  BY PrepareShape DEF BaseInv, FieldsNotShared, TypeOK, Exists
<1> QED BY <1>1, PrepareShape DEF BaseInv, Exists, FieldOf

(* A request that waits for its commit has its own Fields map to itself. *)
OwnersPast ==
  \A t \in Types, i \in IDs : Exists(t, i) => pc[entities[t][i]] # "commit"

(* The maker of an entity's Fields map has committed. *)
LEMMA OwnersPastStep ==
  ASSUME BaseInv, OwnersPast, [Next]_vars
  PROVE  OwnersPast'
<1>1. ASSUME NEW r \in Requests, Prepare(r)
      PROVE  OwnersPast'
  <2> SUFFICES ASSUME NEW t \in Types, NEW i \in IDs, Exists(t, i)'
               PROVE  pc'[entities'[t][i]] # "commit"
    BY DEF OwnersPast
  <2>1. Exists(t, i) /\ entities'[t][i] = entities[t][i]
        /\ entities[t][i] \in Requests \ {r}
    BY <1>1, PrepareShape DEF BaseInv, FieldsNotShared, TypeOK, Exists
  <2> QED BY <1>1, <2>1, PrepareShape DEF BaseInv, OwnersPast
<1>2. ASSUME NEW r \in Requests, Commit(r) \/ Persisted(r) \/ Rollback(r)
      PROVE  OwnersPast'
  <2> SUFFICES ASSUME NEW t \in Types, NEW i \in IDs, Exists(t, i)'
               PROVE  pc'[entities'[t][i]] # "commit"
    BY DEF OwnersPast
  <2>1. entities'[t][i] = entities[t][i] \/ entities'[t][i] = r
    <3> DEFINE u == req[r].type
               j == req[r].id
    <3>1. u \in Types /\ j \in IDs
      BY <1>2, StepShape DEF BaseInv
    <3>2. \/ \E o \in {NoObject, r} : entities' = [entities EXCEPT ![u][j] = o]
          \/ entities' = entities
          \/ entities' = [entities EXCEPT ![u] = [k \in IDs |-> NoObject]]
          \/ entities' = [v \in Types |-> [k \in IDs |-> NoObject]]
      <4>1. CASE Commit(r)
        BY <4>1 DEF Commit, InsertCommit, UpdateCommit, DeleteCommit,
             TruncateCommit, TruncateDatabaseCommit, Refuse
      <4>2. CASE Persisted(r) \/ Rollback(r)
        BY <4>2 DEF Persisted, Rollback, InsertRollback, UpdateRollback,
             DeleteRollback, TruncateFails
      <4> QED BY <1>2, <4>1, <4>2
    <3> HIDE DEF u, j
    <3>3. CASE \E o \in {NoObject, r} : entities' = [entities EXCEPT ![u][j] = o]
      <4> PICK o \in {NoObject, r} : entities' = [entities EXCEPT ![u][j] = o]
        BY <3>3
      <4>1. o \in Requests \cup {NoObject}
        OBVIOUS
      <4>2. entities'[t][i] = IF t = u /\ i = j THEN o ELSE entities[t][i]
        BY <3>1, <4>1, PutType DEF BaseInv, TypeOK
      <4> QED BY <4>2 DEF Exists
    <3>4. CASE entities' = [entities EXCEPT ![u] = [k \in IDs |-> NoObject]]
      BY <3>1, <3>4 DEF BaseInv, TypeOK, Exists
    <3>5. CASE entities' = [v \in Types |-> [k \in IDs |-> NoObject]]
      BY <3>5 DEF Exists
    <3> QED BY <3>2, <3>3, <3>4, <3>5
  <2>2. pc'[r] # "commit" /\ \A s \in Requests \ {r} : pc'[s] = pc[s]
    BY <1>2, StepShape DEF BaseInv
  <2>3. entities'[t][i] # r => Exists(t, i) /\ entities[t][i] \in Requests
    BY <2>1 DEF Exists, BaseInv, TypeOK
  <2> QED BY <2>1, <2>2, <2>3 DEF OwnersPast
<1>3. CASE UNCHANGED vars
  BY <1>3 DEF vars, OwnersPast, Exists
<1> QED BY <1>1, <1>2, <1>3 DEF Next

-----------------------------------------------------------------------------
(* The unique indices of the types in U and the other indices of the types in X
   are exact: the form in which the steps below use it. *)
ExactFor(U, X) ==
  \A t \in Types, v \in Values, i \in IDs :
    /\ t \in U /\ Unique(t) => (uniqueIndices[t][v] = i <=> Holds(t, i, v))
    /\ t \in X /\ Indexed(t) => indices[t][v][i] = IF Holds(t, i, v) THEN 1 ELSE 0

Exact == ExactFor(Types, Types)

(* Exact says in one formula what the two index properties say in two. *)
LEMMA ExactMeaning == Exact <=> UniqueIndexExact /\ IndexExact
  BY DEF Exact, ExactFor, UniqueIndexExact, IndexExact

(* An Insert that found its value free makes exactly the new entries. *)
LEMMA InsertExact ==
  ASSUME BaseInv, NEW U, NEW X, ExactFor(U, X), NEW r \in Requests, InsertCommit(r)
  PROVE  ExactFor(U, X)'
  <1> DEFINE t == req[r].type
             i == req[r].id
             v == heap[r]
  <1>1. t \in Types /\ i \in IDs /\ v \in Values \cup {Nil}
    BY DEF InsertCommit, BaseInv, Served, Request, TypeOK
  <1>2. CASE Registered(t) /\ ~Exists(t, i) /\ UniquenessHolds(t, v, NoID)
    <2>1. /\ entities' = [entities EXCEPT ![t][i] = r]
          /\ indices' = [indices EXCEPT ![t] = AddIndex(indices[t], t, i, v)]
          /\ uniqueIndices' = [uniqueIndices EXCEPT ![t] =
                               AddUnique(uniqueIndices[t], t, i, v)]
          /\ UNCHANGED <<definitions, heap>>
      BY <1>2 DEF InsertCommit
    <2> HIDE DEF t, i
    <2> SUFFICES ASSUME NEW u \in Types, NEW w \in Values, NEW j \in IDs
                 PROVE  /\ u \in U /\ Unique(u) => (uniqueIndices'[u][w] = j <=> Holds(u, j, w)')
                        /\ u \in X /\ Indexed(u) => indices'[u][w][j] =
                                         IF Holds(u, j, w)' THEN 1 ELSE 0
      BY <2>1 DEF ExactFor, Unique, Indexed, Registered
    <2>2. Holds(u, j, w)' <=> IF u = t /\ j = i THEN w = v ELSE Holds(u, j, w)
      BY <1>1, <2>1, PutType, MarkersDistinct
         DEF Holds, Exists, FieldOf, BaseInv, TypeOK
    <2>3. uniqueIndices'[u][w] =
            IF u = t /\ Unique(t) /\ w = v THEN i ELSE uniqueIndices[u][w]
      BY <1>1, <2>1 DEF AddUnique, BaseInv, TypeOK
    <2>4. indices'[u][w][j] =
            IF u = t /\ Indexed(t) /\ w = v /\ j = i
              THEN indices[u][w][j] + 1 ELSE indices[u][w][j]
      BY <1>1, <2>1 DEF AddIndex, BaseInv, TypeOK
    <2>5. ~Holds(t, i, w)
      BY <1>2 DEF Holds
    <2>6. Unique(t) /\ w = v => uniqueIndices[t][w] = NoID
      BY <1>2 DEF UniquenessHolds
    <2>7. /\ u \in U /\ Unique(u) => (uniqueIndices[u][w] = j <=> Holds(u, j, w))
          /\ u \in X /\ Indexed(u) => indices[u][w][j] = IF Holds(u, j, w) THEN 1 ELSE 0
      BY DEF ExactFor
    <2> HIDE DEF v
    <2>8. u \in U /\ Unique(u) => (uniqueIndices'[u][w] = j <=> Holds(u, j, w)')
      BY <1>1, <2>2, <2>3, <2>5, <2>6, <2>7, MarkersDistinct
    <2> QED BY <2>2, <2>4, <2>5, <2>7, <2>8
  <1>3. CASE Refuse(r)
    BY <1>3 DEF Refuse, ExactFor, Unique, Indexed, Registered, Holds, Exists, FieldOf
  <1> QED BY <1>2, <1>3 DEF InsertCommit

(* An Update moves the entity's own entries and nobody else's: its value was
   free or its own, and no other entity refers to the map it changes. *)
LEMMA UpdateExact ==
  ASSUME BaseInv, NEW U, NEW X, ExactFor(U, X), NEW r \in Requests, UpdateCommit(r)
  PROVE  ExactFor(U, X)'
  <1> DEFINE t == req[r].type
             i == req[r].id
             old == FieldOf(t, i)
             new == Merged(req[r].val, old)
  <1>1. t \in Types /\ i \in IDs
    BY DEF UpdateCommit, BaseInv, Served, Request
  <1>2. CASE Exists(t, i) /\ UniquenessHolds(t, new, i)
    <2>1. /\ heap' = [heap EXCEPT ![entities[t][i]] = new]
          /\ indices' = [indices EXCEPT ![t] =
               AddIndex(RemoveIndex(indices[t], t, i, old), t, i, new)]
          /\ uniqueIndices' = [uniqueIndices EXCEPT ![t] =
               AddUnique(RemoveUnique(uniqueIndices[t], t, old), t, i, new)]
          /\ UNCHANGED <<definitions, entities>>
      BY <1>2 DEF UpdateCommit
    <2>2. UniquenessHolds(t, new, i) /\ Exists(t, i) /\ old = FieldOf(t, i)
      BY <1>2
    <2> HIDE DEF t, i, old, new
    <2> SUFFICES ASSUME NEW u \in Types, NEW w \in Values, NEW j \in IDs
                 PROVE  /\ u \in U /\ Unique(u) => (uniqueIndices'[u][w] = j <=> Holds(u, j, w)')
                        /\ u \in X /\ Indexed(u) => indices'[u][w][j] =
                                         IF Holds(u, j, w)' THEN 1 ELSE 0
      BY <2>1 DEF ExactFor, Unique, Indexed, Registered
    <2>3. Holds(u, j, w)' <=> IF u = t /\ j = i THEN w = new ELSE Holds(u, j, w)
      <3>1. u = t /\ j = i => (Holds(u, j, w)' <=> w = new)
        BY <1>1, <2>1, <2>2, MarkersDistinct
           DEF Holds, Exists, FieldOf, BaseInv, TypeOK
      <3>2. ~(u = t /\ j = i) /\ Exists(u, j) => entities[u][j] # entities[t][i]
        BY <1>1, <2>2 DEF BaseInv, FieldsNotShared
      <3>3. ~(u = t /\ j = i) => (Holds(u, j, w)' <=> Holds(u, j, w))
        BY <2>1, <3>2, MarkersDistinct DEF Holds, Exists, FieldOf, BaseInv, TypeOK
      <3> QED BY <3>1, <3>3
    <2>4. uniqueIndices'[u][w] =
            IF u = t /\ Unique(t)
              THEN IF w = new THEN i ELSE
                   IF w = old THEN NoID ELSE uniqueIndices[u][w]
              ELSE uniqueIndices[u][w]
      BY <1>1, <2>1 DEF AddUnique, RemoveUnique, BaseInv, TypeOK
    <2>5. u \in X /\ Indexed(u) => indices'[u][w][j] =
            IF u = t /\ j = i
              THEN IF w = new THEN 1 ELSE
                   IF w = old THEN 0 ELSE indices[u][w][j]
              ELSE indices[u][w][j]
      <3>1. u \in X /\ Indexed(u) => indices[u][w][j] = IF Holds(u, j, w) THEN 1 ELSE 0
        BY DEF ExactFor
      <3>2. Holds(t, i, w) <=> w = old
        BY <2>2 DEF Holds
      <3>3. CASE u = t /\ t \in X /\ Indexed(t)
        <4> DEFINE mid == RemoveIndex(indices[t], t, i, old)
        <4>0. indices[t] \in [Values -> [IDs -> Nat]]
          BY <1>1 DEF BaseInv, TypeOK
        <4>1. /\ mid \in [Values -> [IDs -> Nat]]
              /\ mid[w][j] = IF w = old /\ j = i THEN 0 ELSE indices[t][w][j]
          <5>1. mid \in [Values -> [IDs -> Nat]]
            BY <1>1, <4>0 DEF RemoveIndex
          <5>2. mid[w][j] = IF w = old /\ j = i /\ indices[t][w][j] # 0
                              THEN indices[t][w][j] - 1 ELSE indices[t][w][j]
            BY <1>1, <3>3, <4>0 DEF RemoveIndex
          <5> QED BY <3>1, <3>2, <3>3, <5>1, <5>2
        <4>2. indices'[u] = AddIndex(mid, t, i, new)
          BY <1>1, <2>1, <3>3 DEF BaseInv, TypeOK
        <4> HIDE DEF mid
        <4>3. AddIndex(mid, t, i, new)[w][j] =
                IF w = new /\ j = i THEN mid[w][j] + 1 ELSE mid[w][j]
          BY <1>1, <3>3, <4>1 DEF AddIndex
        <4> QED BY <3>1, <3>2, <3>3, <4>1, <4>2, <4>3
      <3>4. CASE u # t
        BY <2>1, <3>4 DEF BaseInv, TypeOK
      <3> QED BY <3>3, <3>4
    <2>6. /\ u \in U /\ Unique(u) => (uniqueIndices[u][w] = j <=> Holds(u, j, w))
          /\ t \in U /\ Unique(t) => (uniqueIndices[t][w] = i <=> Holds(t, i, w))
          /\ u \in X /\ Indexed(u) => indices[u][w][j] = IF Holds(u, j, w) THEN 1 ELSE 0
      BY <1>1 DEF ExactFor
    <2>7. Holds(t, i, w) <=> w = old
      BY <2>2 DEF Holds
    <2>8. Unique(t) /\ w = new => uniqueIndices[t][w] \in {NoID, i}
      BY <2>2 DEF UniquenessHolds
    <2>9. u \in U /\ Unique(u) => (uniqueIndices'[u][w] = j <=> Holds(u, j, w)')
      BY <1>1, <2>3, <2>4, <2>6, <2>7, <2>8, MarkersDistinct
    <2> QED BY <2>3, <2>5, <2>6, <2>7, <2>9
  <1>3. CASE Refuse(r)
    BY <1>3 DEF Refuse, ExactFor, Unique, Indexed, Registered, Holds, Exists, FieldOf
  <1> QED BY <1>2, <1>3 DEF UpdateCommit

(* An entity that leaves the map with its own entries leaves exact indices. *)
LEMMA RemovalExact ==
  ASSUME TypeOK, NEW U, NEW X, ExactFor(U, X), NEW t \in Types, NEW i \in IDs, NEW v,
         Exists(t, i), v = FieldOf(t, i),
         entities' = [entities EXCEPT ![t][i] = NoObject],
         indices' = [indices EXCEPT ![t] = RemoveIndex(indices[t], t, i, v)],
         uniqueIndices' = [uniqueIndices EXCEPT ![t] =
                             RemoveUnique(uniqueIndices[t], t, v)],
         UNCHANGED <<definitions, heap>>
  PROVE  ExactFor(U, X)'
  <1> SUFFICES ASSUME NEW u \in Types, NEW w \in Values, NEW j \in IDs
               PROVE  /\ u \in U /\ Unique(u) => (uniqueIndices'[u][w] = j <=> Holds(u, j, w)')
                      /\ u \in X /\ Indexed(u) => indices'[u][w][j] =
                                       IF Holds(u, j, w)' THEN 1 ELSE 0
    BY DEF ExactFor, Unique, Indexed, Registered
  <1>1. Holds(u, j, w)' <=> ~(u = t /\ j = i) /\ Holds(u, j, w)
    BY PutType, MarkersDistinct DEF Holds, Exists, FieldOf, TypeOK
  <1>2. uniqueIndices'[u][w] =
          IF u = t /\ Unique(t) /\ w = v THEN NoID ELSE uniqueIndices[u][w]
    BY DEF RemoveUnique, TypeOK
  <1>3. /\ u \in U /\ Unique(u) => (uniqueIndices[u][w] = j <=> Holds(u, j, w))
        /\ t \in U /\ Unique(t) => (uniqueIndices[t][w] = i <=> Holds(t, i, w))
        /\ u \in X /\ Indexed(u) => indices[u][w][j] = IF Holds(u, j, w) THEN 1 ELSE 0
    BY DEF ExactFor
  <1>4. Holds(t, i, w) <=> w = v
    BY DEF Holds
  <1>5. u \in X /\ Indexed(u) => indices'[u][w][j] =
          IF u = t /\ w = v /\ j = i THEN 0 ELSE indices[u][w][j]
    BY <1>3, <1>4 DEF RemoveIndex, TypeOK
  <1>6. u \in U /\ Unique(u) => (uniqueIndices'[u][w] = j <=> Holds(u, j, w)')
    BY <1>1, <1>2, <1>3, <1>4, MarkersDistinct
  <1> QED BY <1>1, <1>3, <1>4, <1>5, <1>6

(* A Delete removes exactly the entries of the entity it removes. *)
LEMMA DeleteExact ==
  ASSUME BaseInv, NEW U, NEW X, ExactFor(U, X), NEW r \in Requests, DeleteCommit(r)
  PROVE  ExactFor(U, X)'
  <1> DEFINE t == req[r].type
             i == req[r].id
             v == FieldOf(t, i)
  <1>1. t \in Types /\ i \in IDs
    BY DEF DeleteCommit, BaseInv, Served, Request
  <1>2. CASE Exists(t, i)
    <2>1. /\ entities' = [entities EXCEPT ![t][i] = NoObject]
          /\ indices' = [indices EXCEPT ![t] = RemoveIndex(indices[t], t, i, v)]
          /\ uniqueIndices' = [uniqueIndices EXCEPT ![t] =
                               RemoveUnique(uniqueIndices[t], t, v)]
          /\ UNCHANGED <<definitions, heap>>
      BY <1>2 DEF DeleteCommit
    <2>2. Exists(t, i) /\ v = FieldOf(t, i) /\ TypeOK
      BY <1>2 DEF BaseInv
    <2> HIDE DEF t, i, v
    <2> QED BY <1>1, <2>1, <2>2, RemovalExact
  <1>3. CASE Refuse(r)
    BY <1>3 DEF Refuse, ExactFor, Unique, Indexed, Registered, Holds, Exists, FieldOf
  <1> QED BY <1>2, <1>3 DEF DeleteCommit

(* A truncation empties the type and, the indices being exact, leaves no entry
   behind. *)
LEMMA TruncateExact ==
  ASSUME BaseInv, NEW U, NEW X, ExactFor(U, X), NEW r \in Requests, TruncateCommit(r)
  PROVE  ExactFor(U, X)'
  <1> DEFINE t == req[r].type
  <1>1. t \in Types
    BY DEF TruncateCommit, BaseInv, Served, Request
  <1>2. /\ entities' = [entities EXCEPT ![t] = [i \in IDs |-> NoObject]]
        /\ indices' = [indices EXCEPT ![t] =
             [v \in Values |-> [i \in IDs |->
                IF Indexed(t) /\ Holds(t, i, v) /\ indices[t][v][i] > 0
                  THEN indices[t][v][i] - 1 ELSE indices[t][v][i]]]]
        /\ uniqueIndices' = [uniqueIndices EXCEPT ![t] =
             [v \in Values |->
                IF Unique(t) /\ {i \in IDs : Holds(t, i, v)} # {}
                  THEN NoID ELSE uniqueIndices[t][v]]]
        /\ UNCHANGED <<definitions, heap>>
    BY DEF TruncateCommit, Holds
  <1> HIDE DEF t
  <1> SUFFICES ASSUME NEW u \in Types, NEW w \in Values, NEW j \in IDs
               PROVE  /\ u \in U /\ Unique(u) => (uniqueIndices'[u][w] = j <=> Holds(u, j, w)')
                      /\ u \in X /\ Indexed(u) => indices'[u][w][j] =
                                       IF Holds(u, j, w)' THEN 1 ELSE 0
    BY <1>2 DEF ExactFor, Unique, Indexed, Registered
  <1>3. Holds(u, j, w)' <=> u # t /\ Holds(u, j, w)
    BY <1>1, <1>2, MarkersDistinct DEF Holds, Exists, FieldOf, BaseInv, TypeOK
  <1>4. /\ u \in U /\ Unique(u) => (uniqueIndices[u][w] = j <=> Holds(u, j, w))
        /\ u \in X /\ Indexed(u) => indices[u][w][j] = IF Holds(u, j, w) THEN 1 ELSE 0
    BY DEF ExactFor
  <1>5. u # t => /\ uniqueIndices'[u][w] = uniqueIndices[u][w]
                 /\ indices'[u][w][j] = indices[u][w][j]
    BY <1>2 DEF BaseInv, TypeOK
  <1>6. u = t /\ t \in U /\ Unique(t) => uniqueIndices'[u][w] # j
    <2>1. u = t /\ Unique(t) =>
            uniqueIndices'[u][w] = IF {i \in IDs : Holds(t, i, w)} # {}
                                     THEN NoID ELSE uniqueIndices[t][w]
      BY <1>1, <1>2 DEF BaseInv, TypeOK
    <2> QED BY <1>4, <2>1, MarkersDistinct
  <1>7. u = t /\ t \in X /\ Indexed(t) => indices'[u][w][j] = 0
    <2>1. u = t /\ t \in X /\ Indexed(t) =>
            indices'[u][w][j] =
              IF Holds(t, j, w) /\ indices[t][w][j] > 0
                THEN indices[t][w][j] - 1 ELSE indices[t][w][j]
      BY <1>1, <1>2 DEF BaseInv, TypeOK
    <2> QED BY <1>4, <2>1
  <1> QED BY <1>3, <1>4, <1>5, <1>6, <1>7

(* So does a truncation of the whole database. *)
LEMMA TruncateDatabaseExact ==
  ASSUME BaseInv, NEW U, NEW X, ExactFor(U, X), NEW r \in Requests, TruncateDatabaseCommit(r)
  PROVE  ExactFor(U, X)'
  <1>1. CASE UNCHANGED <<definitions, entities, heap, indices, uniqueIndices>>
    BY <1>1 DEF ExactFor, Unique, Indexed, Registered, Holds, Exists, FieldOf
  <1>2. CASE /\ entities' = [t \in Types |-> [i \in IDs |-> NoObject]]
             /\ indices' = [t \in Types |-> EmptyIndex]
             /\ uniqueIndices' = [t \in Types |-> EmptyUnique]
             /\ UNCHANGED <<definitions, heap>>
    BY <1>2, MarkersDistinct
       DEF ExactFor, Unique, Indexed, Registered, Holds, Exists, EmptyIndex, EmptyUnique
  <1> QED BY <1>1, <1>2 DEF TruncateDatabaseCommit

(* A request that arrives changes a Fields map no entity refers to. *)
LEMMA PrepareExact ==
  ASSUME BaseInv, NEW U, NEW X, ExactFor(U, X), NEW r \in Requests, Prepare(r)
  PROVE  ExactFor(U, X)'
  <1>1. /\ pc[r] = "idle"
        /\ \E x : heap' = [heap EXCEPT ![r] = x]
        /\ UNCHANGED <<definitions, entities, indices, uniqueIndices>>
    BY DEF Prepare, InsertPrepare, UpdatePrepare, DeletePrepare,
         TruncatePrepare, TruncateDatabasePrepare, Arrive
  <1>2. ASSUME NEW t \in Types, NEW i \in IDs, NEW v \in Values
        PROVE  Holds(t, i, v)' <=> Holds(t, i, v)
    <2>1. Exists(t, i) => entities[t][i] # r
      BY <1>1 DEF BaseInv, FieldsNotShared
    <2> QED BY <1>1, <2>1 DEF Holds, Exists, FieldOf, BaseInv, TypeOK
  <1> QED BY <1>1, <1>2 DEF ExactFor, Unique, Indexed, Registered

(* So a commit of any kind keeps exact indices exact. *)
LEMMA CommitExact ==
  ASSUME BaseInv, NEW U, NEW X, ExactFor(U, X), NEW r \in Requests, Commit(r)
  PROVE  ExactFor(U, X)'
  BY InsertExact, UpdateExact, DeleteExact, TruncateExact, TruncateDatabaseExact
     DEF Commit

(* An entity that takes the place of whatever is under its key has exact
   entries, if no other entity has its unique value. *)
LEMMA RestoreExact ==
  ASSUME TypeOK, NEW U, NEW X, ExactFor(U, X), NEW t \in Types, NEW i \in IDs, NEW r \in Requests,
         NEW now, now = IF Exists(t, i) THEN FieldOf(t, i) ELSE Nil,
         t \in U /\ Unique(t) /\ heap[r] \in Values =>
           \A j \in IDs \ {i} : ~Holds(t, j, heap[r]),
         entities' = [entities EXCEPT ![t][i] = r],
         indices' = [indices EXCEPT ![t] =
           AddIndex(RemoveIndex(indices[t], t, i, now), t, i, heap[r])],
         uniqueIndices' = [uniqueIndices EXCEPT ![t] =
           AddUnique(RemoveUnique(uniqueIndices[t], t, now), t, i, heap[r])],
         UNCHANGED <<definitions, heap>>
  PROVE  ExactFor(U, X)'
<1> PICK new : new = heap[r]
  OBVIOUS
<1> SUFFICES ASSUME NEW u \in Types, NEW w \in Values, NEW j \in IDs
             PROVE  /\ u \in U /\ Unique(u) => (uniqueIndices'[u][w] = j <=> Holds(u, j, w)')
                    /\ u \in X /\ Indexed(u) => indices'[u][w][j] =
                                     IF Holds(u, j, w)' THEN 1 ELSE 0
  BY DEF ExactFor, Unique, Indexed, Registered
<1>1. Holds(u, j, w)' <=> IF u = t /\ j = i THEN w = new ELSE Holds(u, j, w)
  BY PutType, MarkersDistinct DEF Holds, Exists, FieldOf, TypeOK
<1>2. uniqueIndices'[u][w] =
        IF u = t /\ Unique(t)
          THEN IF w = new THEN i ELSE
               IF w = now THEN NoID ELSE uniqueIndices[u][w]
          ELSE uniqueIndices[u][w]
  BY DEF AddUnique, RemoveUnique, TypeOK
<1>3. Holds(t, i, w) <=> w = now
  BY MarkersDistinct DEF Holds
<1>4. /\ u \in U /\ Unique(u) => (uniqueIndices[u][w] = j <=> Holds(u, j, w))
      /\ t \in U /\ Unique(t) => (uniqueIndices[t][w] = i <=> Holds(t, i, w))
      /\ u \in X /\ Indexed(u) => indices[u][w][j] = IF Holds(u, j, w) THEN 1 ELSE 0
  BY DEF ExactFor
<1>5. u \in X /\ Indexed(u) => indices'[u][w][j] =
        IF u = t /\ j = i
          THEN IF w = new THEN 1 ELSE
               IF w = now THEN 0 ELSE indices[u][w][j]
          ELSE indices[u][w][j]
  <2>1. CASE u = t /\ t \in X /\ Indexed(t)
    <3> DEFINE mid == RemoveIndex(indices[t], t, i, now)
    <3>0. indices[t] \in [Values -> [IDs -> Nat]]
      BY DEF TypeOK
    <3>1. /\ mid \in [Values -> [IDs -> Nat]]
          /\ mid[w][j] = IF w = now /\ j = i THEN 0 ELSE indices[t][w][j]
      <4>1. mid \in [Values -> [IDs -> Nat]]
        BY <3>0, IndexOpsType
      <4>2. mid[w][j] = IF w = now /\ j = i /\ indices[t][w][j] # 0
                          THEN indices[t][w][j] - 1 ELSE indices[t][w][j]
        BY <2>1, <3>0 DEF RemoveIndex
      <4> QED BY <1>3, <1>4, <2>1, <4>1, <4>2
    <3>2. indices'[u] = AddIndex(mid, t, i, new)
      BY <2>1 DEF TypeOK
    <3> HIDE DEF mid
    <3>3. AddIndex(mid, t, i, new)[w][j] =
            IF w = new /\ j = i THEN mid[w][j] + 1 ELSE mid[w][j]
      BY <2>1, <3>1 DEF AddIndex
    <3> QED BY <1>3, <1>4, <2>1, <3>1, <3>2, <3>3
  <2>2. CASE u # t
    BY <2>2 DEF TypeOK
  <2> QED BY <2>1, <2>2
<1>6. t \in U /\ Unique(t) /\ w = new /\ j # i => ~Holds(t, j, w)
  OBVIOUS
<1>7. u \in U /\ Unique(u) => (uniqueIndices'[u][w] = j <=> Holds(u, j, w)')
  BY <1>1, <1>2, <1>3, <1>4, <1>6, MarkersDistinct
<1> QED BY <1>1, <1>3, <1>4, <1>5, <1>7

(* The only steps that may spoil an index are the three rollbacks; once one
   has happened NoRollbackYet stays false. *)
LEMMA ExactStep ==
  ASSUME IndInv, [Next]_vars
  PROVE  IndicesExactWithoutRollback'
  <1> SUFFICES ASSUME NoRollbackYet' PROVE Exact'
    BY ExactMeaning DEF IndicesExactWithoutRollback, Exact, ExactFor,
         UniqueIndexExact, IndexExact
  <1>1. NoRollbackYet
    <2>1. ASSUME NEW s \in Requests, pc[s] = "failed"
          PROVE  pc'[s] = "failed" /\ req'[s] = req[s]
      <3>1. CASE UNCHANGED vars
        BY <2>1, <3>1 DEF vars
      <3>2. ASSUME NEW r \in Requests, Prepare(r)
            PROVE  pc'[s] = pc[s] /\ req'[s] = req[s]
        <4>1. pc[r] = "idle" /\ (\E x : pc' = [pc EXCEPT ![r] = x])
                /\ (\E q : req' = [req EXCEPT ![r] = q])
          BY <3>2 DEF Prepare, InsertPrepare, UpdatePrepare, DeletePrepare,
               TruncatePrepare, TruncateDatabasePrepare, Arrive
        <4> QED BY <2>1, <4>1 DEF IndInv, TypeOK
      <3>3. ASSUME NEW r \in Requests, Commit(r) \/ Persisted(r) \/ Rollback(r)
            PROVE  pc'[s] = pc[s] /\ req'[s] = req[s]
        <4>1. pc[r] \in {"commit", "persist"} /\ req' = req
          BY <3>3 DEF Commit, InsertCommit, UpdateCommit, DeleteCommit,
               TruncateCommit, TruncateDatabaseCommit, Refuse, Persisted,
               Rollback, InsertRollback, UpdateRollback, DeleteRollback,
               TruncateFails, PersistFails
        <4>2. \E x : pc' = [pc EXCEPT ![r] = x]
          BY <3>3 DEF Commit, InsertCommit, UpdateCommit, DeleteCommit,
               TruncateCommit, TruncateDatabaseCommit, Refuse, Persisted,
               Rollback, InsertRollback, UpdateRollback, DeleteRollback,
               TruncateFails, PersistFails
        <4> QED BY <2>1, <4>1, <4>2 DEF IndInv, TypeOK
      <3> QED BY <2>1, <3>1, <3>2, <3>3 DEF Next
    <2> QED BY <2>1 DEF NoRollbackYet
  <1>2. Exact
    BY <1>1, ExactMeaning DEF IndInv, IndicesExactWithoutRollback
  <1>3. CASE UNCHANGED <<definitions, entities, heap, indices, uniqueIndices>>
    BY <1>2, <1>3 DEF Exact, ExactFor, Unique, Indexed, Registered, Holds, Exists, FieldOf
  <1>4. ASSUME NEW r \in Requests, Rollback(r)
        PROVE  UNCHANGED <<definitions, entities, heap, indices, uniqueIndices>>
    <2>1. ASSUME NEW op \in Ops, PersistFails(r, op)
          PROVE  op \in {"truncate", "truncatedb"}
      BY <2>1 DEF PersistFails, NoRollbackYet, IndInv, TypeOK
    <2> QED BY <1>4, <2>1 DEF Rollback, InsertRollback, UpdateRollback,
              DeleteRollback, TruncateFails, PersistFails, Ops
  <1>5. ASSUME NEW r \in Requests, Commit(r)
        PROVE  Exact'
    BY <1>2, <1>5, CommitExact DEF IndInv, BaseInv, Exact
  <1>6. ASSUME NEW r \in Requests, Persisted(r)
        PROVE  Exact'
    BY <1>3, <1>6 DEF Persisted
  <1>7. ASSUME NEW r \in Requests, Prepare(r)
        PROVE  Exact'
    BY <1>2, <1>7, PrepareExact DEF IndInv, BaseInv, Exact
  <1> QED BY <1>2, <1>3, <1>4, <1>5, <1>6, <1>7 DEF Next, vars

-----------------------------------------------------------------------------
(* The inductive invariant. *)
LEMMA Inductive == Spec => []IndInv
  <1>1. Init => IndInv
    <2> SUFFICES ASSUME Init PROVE IndInv
      OBVIOUS
    <2>1. FieldsNotShared /\ Exact
      BY MarkersDistinct DEF Init, FieldsNotShared, Exact, ExactFor, Holds, Exists,
           EmptyIndex, EmptyUnique
    <2> QED BY <2>1, TypeInit, ExactMeaning
            DEF IndInv, IndicesExactWithoutRollback
  <1>2. IndInv /\ [Next]_vars => IndInv'
    BY TypeStep, NotSharedStep, ExactStep DEF IndInv
  <1> QED BY <1>1, <1>2, PTL DEF Spec

(* Two entities never share a Fields map, so that the in-place Update of one
   cannot change the other, whatever fails and is rolled back. *)
THEOREM MapsNotShared == Spec => []FieldsNotShared
  <1>1. IndInv => FieldsNotShared
    BY DEF IndInv
  <1> QED BY Inductive, <1>1, PTL

(* Under every interleaving of requests the indices are exact until the first
   rollback of an Insert, Update or Delete. *)
THEOREM IndicesStayExact == Spec => []IndicesExactWithoutRollback
  <1>1. IndInv => IndicesExactWithoutRollback
    BY DEF IndInv
  <1> QED BY Inductive, <1>1, PTL

(* Until then no two entities of a type have the same unique value. *)
THEOREM UniqueValues == Spec => []UniqueWithoutRollback
  <1>1. IndInv => UniqueWithoutRollback
    BY DEF IndInv, IndicesExactWithoutRollback, UniqueWithoutRollback,
           UniqueIndexExact, NoDuplicates
  <1> QED BY Inductive, <1>1, PTL
=============================================================================
