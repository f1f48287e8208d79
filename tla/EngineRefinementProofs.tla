----------------------- MODULE EngineRefinementProofs -----------------------
(***************************************************************************)
(* The engine implements DocumentStore, for every set of requests, types,  *)
(* IDs and values: each step of a request on the engine is a step of the   *)
(* plain table, seen through Documents and Progress.                       *)
(*                                                                         *)
(* That a refusal and an acceptance are those of the table rests on the    *)
(* unique index being exact (EngineProofs).  The rest of the argument is   *)
(* about what a request carries from its first stretch to its commit.      *)
(***************************************************************************)
EXTENDS EngineRefinement, EngineProofs

(* An entity belongs to a registered type, and the request that made its
   Fields map has committed: a request that still waits for its commit has
   its own map to itself. *)
OwnersCommitted ==
  \A t \in Types, i \in IDs : Exists(t, i) =>
    Registered(t) /\ pc[entities[t][i]] # "commit"

(* The field of an entity that an Insert with value v makes. *)
Body(v) == IF v \in Values THEN v ELSE Nil

(* What the first stretch has found, and no other request can undo: the body
   of an Insert, and that the type of a truncation is registered. *)
PreparedStands ==
  \A r \in Requests : pc[r] = "commit" =>
    /\ req[r].op = "insert" => req[r].val # BadValue /\ heap[r] = Body(req[r].val)
    /\ req[r].op = "truncate" => Registered(req[r].type)

RefInv ==
  /\ IndInv /\ NoRollbackYet
  /\ OwnersCommitted /\ PreparedStands

-----------------------------------------------------------------------------
(* A step of PersistingNext is a step of the engine that rolls nothing back. *)
LEMMA PersistingIsNext ==
  ASSUME RefInv, [PersistingNext]_vars
  PROVE  [Next]_vars /\ NoRollbackYet'
<1>1. [Next]_vars
  BY DEF PersistingNext, Next, Rollback
<1>2. ASSUME NEW s \in Requests, pc'[s] = "failed"
      PROVE  req'[s].op \in {"truncate", "truncatedb"}
  <2>1. CASE UNCHANGED vars
    BY <1>2, <2>1 DEF vars, RefInv, NoRollbackYet
  <2>2. ASSUME NEW r \in Requests, Prepare(r)
        PROVE  req'[s].op \in {"truncate", "truncatedb"}
    BY <1>2, <2>2 DEF Prepare, InsertPrepare, UpdatePrepare, DeletePrepare,
         TruncatePrepare, TruncateDatabasePrepare, Arrive, RefInv, NoRollbackYet,
         IndInv, TypeOK
  <2>3. ASSUME NEW r \in Requests, Commit(r) \/ Persisted(r)
        PROVE  req'[s].op \in {"truncate", "truncatedb"}
    BY <1>2, <2>3 DEF Commit, InsertCommit, UpdateCommit, DeleteCommit,
         TruncateCommit, TruncateDatabaseCommit, Refuse, Persisted, RefInv,
         NoRollbackYet, IndInv, TypeOK
  <2>4. ASSUME NEW r \in Requests, TruncateFails(r)
        PROVE  req'[s].op \in {"truncate", "truncatedb"}
    BY <1>2, <2>4 DEF TruncateFails, PersistFails, RefInv, NoRollbackYet,
         IndInv, TypeOK
  <2> QED BY <2>1, <2>2, <2>3, <2>4 DEF PersistingNext
<1> QED BY <1>1, <1>2 DEF NoRollbackYet

(* The first stretch of a request changes only what is its own. *)
LEMMA PrepareOwn ==
  ASSUME RefInv, NEW r \in Requests, Prepare(r)
  PROVE  OwnersCommitted' /\ PreparedStands'
<1> USE WorkloadAssumption DEF RefInv, IndInv
<1>1. PICK q \in Workload :
        \/ InsertPrepare(r, q) \/ UpdatePrepare(r, q) \/ DeletePrepare(r, q)
        \/ TruncatePrepare(r, q) \/ TruncateDatabasePrepare(r, q)
  BY DEF Prepare
<1>2. /\ pc[r] = "idle" /\ req' = [req EXCEPT ![r] = q]
      /\ \E p \in {"commit", "rejected"} : pc' = [pc EXCEPT ![r] = p]
      /\ \A s \in Requests \ {r} : heap'[s] = heap[s] /\ pc'[s] = pc[s] /\ req'[s] = req[s]
      /\ UNCHANGED <<definitions, entities>>
  BY <1>1 DEF InsertPrepare, UpdatePrepare, DeletePrepare, TruncatePrepare,
       TruncateDatabasePrepare, Arrive, TypeOK
<1>3. OwnersCommitted'
  BY <1>2 DEF OwnersCommitted, FieldsNotShared, Exists, Registered, TypeOK
<1>4. ASSUME pc'[r] = "commit"
      PROVE  /\ q.op = "insert" => q.val # BadValue /\ heap'[r] = Body(q.val)
             /\ q.op = "truncate" => Registered(q.type)
  BY <1>1, <1>4 DEF InsertPrepare, UpdatePrepare, DeletePrepare, TruncatePrepare,
       TruncateDatabasePrepare, Arrive, ValidData, Body, TypeOK
<1>5. PreparedStands'
  BY <1>2, <1>4 DEF PreparedStands, Registered, TypeOK
<1> QED BY <1>3, <1>5

(* A commit changes the Fields map of an entity, which is not the map of a
   request that waits for its commit. *)
LEMMA CommitOwn ==
  ASSUME RefInv, NEW r \in Requests, Commit(r)
  PROVE  OwnersCommitted' /\ PreparedStands'
<1> USE DEF RefInv, IndInv
<1>1. /\ pc[r] = "commit" /\ UNCHANGED <<definitions, req>>
      /\ pc' \in [Requests -> {"idle", "commit", "persist", "ok", "rejected", "failed"}]
      /\ pc'[r] # "commit"
      /\ \A s \in Requests \ {r} : pc'[s] = pc[s]
  BY DEF Commit, InsertCommit, UpdateCommit, DeleteCommit, TruncateCommit,
       TruncateDatabaseCommit, Refuse, TypeOK
<1>2. req[r].type \in Types /\ req[r].id \in IDs
  BY <1>1 DEF Served, Request
<1>3. ASSUME NEW s \in Requests, pc[s] = "commit" PROVE heap'[s] = heap[s]
  <2>1. CASE heap' = heap
    BY <2>1
  <2>2. CASE UpdateCommit(r) /\ heap' # heap
    BY <1>2, <1>3, <2>2 DEF UpdateCommit, Refuse, OwnersCommitted, TypeOK, Exists
  <2> QED BY <2>1, <2>2 DEF Commit, InsertCommit, DeleteCommit, TruncateCommit,
            TruncateDatabaseCommit, Refuse
<1>4. PreparedStands'
  BY <1>1, <1>3 DEF PreparedStands, Registered
<1>5. ASSUME NEW t \in Types, NEW i \in IDs, entities'[t][i] # NoObject
      PROVE  \/ entities'[t][i] = entities[t][i]
             \/ entities'[t][i] = r /\ Registered(t)
  <2>1. CASE UNCHANGED entities
    BY <2>1
  <2>2. CASE InsertCommit(r)
    <3>1. CASE UNCHANGED entities
      BY <3>1
    <3>2. CASE /\ entities' = [entities EXCEPT ![req[r].type][req[r].id] = r]
               /\ Registered(req[r].type)
      BY <1>2, <3>2, PutType DEF TypeOK
    <3> QED BY <2>2, <3>1, <3>2 DEF InsertCommit, Refuse
  <2>3. CASE DeleteCommit(r) /\ entities' # entities
    <3>1. entities' = [entities EXCEPT ![req[r].type][req[r].id] = NoObject]
      BY <2>3 DEF DeleteCommit, Refuse
    <3> QED BY <1>2, <1>5, <3>1, PutType DEF TypeOK
  <2>4. CASE TruncateCommit(r)
    <3>1. entities' = [entities EXCEPT ![req[r].type] = [j \in IDs |-> NoObject]]
      BY <2>4 DEF TruncateCommit
    <3> QED BY <1>2, <1>5, <3>1 DEF TypeOK
  <2>5. CASE TruncateDatabaseCommit(r) /\ entities' # entities
    <3>1. entities' = [u \in Types |-> [j \in IDs |-> NoObject]]
      BY <2>5 DEF TruncateDatabaseCommit
    <3> QED BY <1>5, <3>1
  <2> QED BY <2>1, <2>2, <2>3, <2>4, <2>5 DEF Commit, UpdateCommit, Refuse
<1>6. OwnersCommitted'
  BY <1>1, <1>5 DEF OwnersCommitted, Exists, Registered, TypeOK
<1> QED BY <1>4, <1>6

(* The invariant of the refinement is inductive. *)
LEMMA RefInductive == PersistingSpec => []RefInv
<1>1. Init => RefInv
  <2> SUFFICES ASSUME Init PROVE RefInv
    OBVIOUS
  <2>1. FieldsNotShared /\ Exact
    BY MarkersDistinct DEF Init, FieldsNotShared, Exact, ExactFor, Holds, Exists,
         EmptyIndex, EmptyUnique
  <2>2. IndInv
    BY <2>1, TypeInit, ExactMeaning DEF IndInv, IndicesExactWithoutRollback
  <2> QED BY <2>2 DEF Init, RefInv, NoRollbackYet, OwnersCommitted, PreparedStands,
              Exists
<1>2. RefInv /\ [PersistingNext]_vars => RefInv'
  <2> SUFFICES ASSUME RefInv, [PersistingNext]_vars PROVE RefInv'
    OBVIOUS
  <2>1. IndInv' /\ NoRollbackYet'
    BY PersistingIsNext, TypeStep, NotSharedStep, ExactStep DEF RefInv, IndInv
  <2>2. CASE UNCHANGED <<definitions, entities, heap, req>>
             /\ \A s \in Requests : pc'[s] = "commit" <=> pc[s] = "commit"
    BY <2>1, <2>2 DEF RefInv, IndInv, TypeOK, OwnersCommitted, PreparedStands,
         Exists, Registered
  <2>3. ASSUME NEW r \in Requests, Persisted(r) \/ TruncateFails(r)
        PROVE  UNCHANGED <<definitions, entities, heap, req>>
               /\ \A s \in Requests : pc'[s] = "commit" <=> pc[s] = "commit"
    BY <2>3 DEF Persisted, TruncateFails, PersistFails, RefInv, IndInv, TypeOK
  <2>4. CASE UNCHANGED vars
    BY <2>2, <2>4 DEF vars
  <2> QED BY <2>1, <2>2, <2>3, <2>4, PrepareOwn, CommitOwn
          DEF PersistingNext, RefInv
<1> QED BY <1>1, <1>2, PTL DEF PersistingSpec

-----------------------------------------------------------------------------
Document == Values \cup {Nil, NoDocument}

(* The documents are read through the entity map. *)
LEMMA Reading ==
  ASSUME TypeOK
  PROVE  /\ Documents \in [Types -> [IDs -> Document]]
         /\ \A t \in Types, i \in IDs :
              /\ Exists(t, i) => /\ Documents[t][i] = FieldOf(t, i)
                                /\ FieldOf(t, i) \in Values \cup {Nil}
              /\ ~Exists(t, i) => Documents[t][i] = NoDocument
              /\ Abstract!Present(t, i) <=> Exists(t, i)
<1>1. ASSUME NEW t \in Types, NEW i \in IDs, Exists(t, i)
      PROVE  FieldOf(t, i) \in Values \cup {Nil}
  BY <1>1 DEF TypeOK, Exists, FieldOf
<1>2. Documents \in [Types -> [IDs -> Document]]
  BY <1>1 DEF Documents, Document
<1>3. ASSUME NEW t \in Types, NEW i \in IDs
      PROVE  Documents[t][i] = IF Exists(t, i) THEN FieldOf(t, i) ELSE NoDocument
  BY DEF Documents
<1> QED BY <1>1, <1>2, <1>3, NoDocumentAssumption DEF Abstract!Present

(* The unique index says of a value what the table says of it. *)
LEMMA TakenMeaning ==
  ASSUME RefInv, NEW t \in Types, NEW i \in IDs, NEW v
  PROVE  Abstract!Taken(t, i, v) <=>
           Unique(t) /\ v \in Values /\ uniqueIndices[t][v] \notin {NoID, i}
<1>1. TypeOK /\ Exact
  BY ExactMeaning DEF RefInv, IndInv, IndicesExactWithoutRollback
<1>2. Abstract!Known(t) /\ definitions[t].unique <=> Unique(t)
  BY DEF Abstract!Known, Unique, Registered
<1>3. ASSUME Unique(t), v \in Values, NEW j \in IDs
      PROVE  uniqueIndices[t][v] = j <=> Documents[t][j] = v
  BY <1>1, <1>3, Reading, NoDocumentAssumption DEF Exact, ExactFor, Holds
<1>4. uniqueIndices[t] \in [Values -> IDs \cup {NoID}]
  BY <1>1 DEF TypeOK
<1> QED BY <1>2, <1>3, <1>4, MarkersDistinct DEF Abstract!Taken

(* An Insert is acceptable to the table exactly when the checks of the engine
   pass, and puts the same field there. *)
LEMMA InsertAcceptable ==
  ASSUME RefInv, NEW q \in Request, q.op = "insert"
  PROVE  /\ Abstract!NewField(q) = Body(q.val)
         /\ Abstract!Acceptable(q) <=>
              /\ Registered(q.type) /\ q.val # BadValue
              /\ ~Exists(q.type, q.id)
              /\ UniquenessHolds(q.type, Body(q.val), NoID)
<1> DEFINE t == q.type
           i == q.id
           v == Body(q.val)
<1>0. t \in Types /\ i \in IDs
  BY DEF Request
<1>1. Abstract!NewField(q) = v
  BY MarkersDistinct DEF Abstract!NewField, Body
<1>2. Abstract!Acceptable(q) <=>
        /\ Registered(t) /\ q.val # BadValue /\ ~Abstract!Present(t, i)
        /\ ~Abstract!Taken(t, i, v)
  BY <1>1 DEF Abstract!Acceptable, Abstract!Known, Registered
<1>3. Abstract!Present(t, i) <=> Exists(t, i)
  BY <1>0, Reading DEF RefInv, IndInv
<1>4. ASSUME ~Exists(t, i), Unique(t), v \in Values
      PROVE  uniqueIndices[t][v] # i
  BY <1>0, <1>4, ExactMeaning
     DEF RefInv, IndInv, IndicesExactWithoutRollback, Exact, ExactFor, Holds
<1>5. ~Exists(t, i) /\ Registered(t) =>
        (~Abstract!Taken(t, i, v) <=> UniquenessHolds(t, v, NoID))
  BY <1>0, <1>4, TakenMeaning DEF UniquenessHolds
<1> QED BY <1>1, <1>2, <1>3, <1>5

(* The same for an Update with valid data: the field after it is the merged
   one. *)
LEMMA UpdateAcceptable ==
  ASSUME RefInv, NEW q \in Request, q.op = "update"
  PROVE  /\ Exists(q.type, q.id) /\ q.val # BadValue =>
              Abstract!NewField(q) = Merged(q.val, FieldOf(q.type, q.id))
         /\ Abstract!Acceptable(q) <=>
              /\ Exists(q.type, q.id) /\ q.val # BadValue
              /\ UniquenessHolds(q.type, Merged(q.val, FieldOf(q.type, q.id)), q.id)
<1> DEFINE t == q.type
           i == q.id
           new == Merged(q.val, FieldOf(t, i))
<1>0. t \in Types /\ i \in IDs /\ q.val \in Values \cup {Nil, Absent, BadValue}
  BY DEF Request
<1>1. Abstract!Present(t, i) <=> Exists(t, i)
  BY <1>0, Reading DEF RefInv, IndInv
<1>2. Exists(t, i) /\ q.val # BadValue => Abstract!NewField(q) = new
  <2>1. Exists(t, i) => Documents[t][i] = FieldOf(t, i)
    BY <1>0, Reading DEF RefInv, IndInv
  <2> QED BY <1>0, <2>1, MarkersDistinct DEF Abstract!NewField, Merged
<1>3. Abstract!Acceptable(q) <=>
        /\ Exists(t, i) /\ q.val # BadValue
        /\ ~Abstract!Taken(t, i, Abstract!NewField(q))
  BY <1>1 DEF Abstract!Acceptable
<1>4. Exists(t, i) => Registered(t)
  BY <1>0 DEF RefInv, OwnersCommitted
<1>5. Exists(t, i) =>
        (~Abstract!Taken(t, i, new) <=> UniquenessHolds(t, new, i))
  BY <1>0, <1>4, TakenMeaning DEF UniquenessHolds
<1> QED BY <1>2, <1>3, <1>5

(* The other requests. *)
LEMMA OtherAcceptable ==
  ASSUME RefInv, NEW q \in Request
  PROVE  /\ q.op = "delete" =>
              (Abstract!Acceptable(q) <=> Exists(q.type, q.id))
         /\ q.op = "truncate" => (Abstract!Acceptable(q) <=> Registered(q.type))
         /\ q.op = "truncatedb" => Abstract!Acceptable(q)
<1>1. Abstract!Present(q.type, q.id) <=> Exists(q.type, q.id)
  BY Reading DEF RefInv, IndInv, Request
<1> QED BY <1>1 DEF Abstract!Acceptable, Abstract!Known, Registered

(* One request moves on. *)
LEMMA ProgressMoves ==
  ASSUME TypeOK, NEW r \in Requests, NEW p, pc' = [pc EXCEPT ![r] = p]
  PROVE  Progress' = [Progress EXCEPT ![r] =
           CASE p = "commit" -> "waiting"
             [] p = "persist" -> "effective"
             [] OTHER -> p]
  BY DEF Progress, TypeOK

-----------------------------------------------------------------------------
(* The first stretch is the arrival of the request at the table, or its
   refusal for a reason that is true of the table. *)
LEMMA PrepareSimulates ==
  ASSUME RefInv, NEW r \in Requests, Prepare(r)
  PROVE  Abstract!AbsNext
<1> USE WorkloadAssumption
<1>1. PICK q \in Workload :
        \/ InsertPrepare(r, q) \/ UpdatePrepare(r, q) \/ DeletePrepare(r, q)
        \/ TruncatePrepare(r, q) \/ TruncateDatabasePrepare(r, q)
  BY DEF Prepare
<1>2. /\ pc[r] = "idle" /\ req' = [req EXCEPT ![r] = q]
      /\ \E x : heap' = [heap EXCEPT ![r] = x]
      /\ UNCHANGED <<definitions, entities>>
  BY <1>1 DEF InsertPrepare, UpdatePrepare, DeletePrepare, TruncatePrepare,
       TruncateDatabasePrepare, Arrive
<1>3. UNCHANGED Documents
  <2>1. ASSUME NEW t \in Types, NEW i \in IDs, Exists(t, i)
        PROVE  heap'[entities[t][i]] = heap[entities[t][i]]
    BY <1>2, <2>1 DEF RefInv, IndInv, TypeOK, FieldsNotShared, Exists
  <2> QED BY <1>2, <2>1 DEF Documents, Exists, FieldOf
<1>4. Progress[r] = "idle"
  BY <1>2 DEF Progress
<1>5. CASE pc' = [pc EXCEPT ![r] = "commit"]
  <2>1. Progress' = [Progress EXCEPT ![r] = "waiting"]
    BY <1>5, ProgressMoves DEF RefInv, IndInv
  <2>2. Abstract!Arrives(r, q)
    BY <1>2, <1>3, <1>4, <2>1 DEF Abstract!Arrives
  <2> QED BY <2>2 DEF Abstract!AbsNext
<1>6. CASE pc' = [pc EXCEPT ![r] = "rejected"] /\ pc'[r] = "rejected"
  <2>1. Progress' = [Progress EXCEPT ![r] = "rejected"]
    BY <1>6, ProgressMoves DEF RefInv, IndInv
  <2>2. ~Abstract!Acceptable(q)
    <3> USE <1>6
    <3>0. q \in Request /\ "rejected" # "commit"
      OBVIOUS
    <3>1. CASE InsertPrepare(r, q)
      <4>1. ~(/\ ValidData(q.val) /\ UniquenessHolds(q.type, q.val, NoID)
              /\ ~Exists(q.type, q.id))
        BY <3>1 DEF InsertPrepare, Arrive, RefInv, IndInv, TypeOK
      <4> QED BY <3>0, <3>1, <4>1, InsertAcceptable
              DEF InsertPrepare, ValidData, UniquenessHolds, Body
    <3>2. CASE UpdatePrepare(r, q)
      <4>1. ~(/\ Exists(q.type, q.id) /\ ValidUpdate(q.val)
              /\ UniquenessHolds(q.type, q.val, q.id))
        BY <3>2 DEF UpdatePrepare, Arrive, RefInv, IndInv, TypeOK
      <4>2. Exists(q.type, q.id) => Registered(q.type)
        BY DEF RefInv, OwnersCommitted, Request
      <4> QED BY <3>0, <3>2, <4>1, <4>2, UpdateAcceptable, MarkersDistinct
              DEF UpdatePrepare, ValidUpdate, UniquenessHolds, Merged
    <3>3. CASE DeletePrepare(r, q)
      BY <3>0, <3>3, OtherAcceptable DEF DeletePrepare, Arrive, RefInv, IndInv, TypeOK
    <3>4. CASE TruncatePrepare(r, q)
      BY <3>0, <3>4, OtherAcceptable
         DEF TruncatePrepare, Arrive, RefInv, IndInv, TypeOK
    <3>5. CASE TruncateDatabasePrepare(r, q)
      BY <3>5 DEF TruncateDatabasePrepare, Arrive, RefInv, IndInv, TypeOK
    <3> QED BY <1>1, <3>1, <3>2, <3>3, <3>4, <3>5
  <2>3. Abstract!RefusedAtOnce(r, q)
    BY <1>2, <1>3, <1>4, <2>1, <2>2 DEF Abstract!RefusedAtOnce
  <2> QED BY <2>3 DEF Abstract!AbsNext
<1>7. \/ pc' = [pc EXCEPT ![r] = "commit"]
      \/ pc' = [pc EXCEPT ![r] = "rejected"] /\ pc'[r] = "rejected"
  BY <1>1 DEF InsertPrepare, UpdatePrepare, DeletePrepare, TruncatePrepare,
       TruncateDatabasePrepare, Arrive, RefInv, IndInv, TypeOK
<1> QED BY <1>5, <1>6, <1>7

(* A commit that finds the request unacceptable is a refusal. *)
LEMMA RefuseSimulates ==
  ASSUME RefInv, NEW r \in Requests, pc[r] = "commit", Refuse(r),
         ~Abstract!Acceptable(req[r])
  PROVE  Abstract!AbsNext
<1>1. Progress[r] = "waiting" /\ Progress' = [Progress EXCEPT ![r] = "rejected"]
  BY ProgressMoves DEF Refuse, Progress, RefInv, IndInv
<1>2. UNCHANGED <<definitions, Documents, req>>
  BY DEF Refuse, Documents, Exists, FieldOf
<1>3. Abstract!Refused(r)
  BY <1>1, <1>2 DEF Abstract!Refused
<1> QED BY <1>3 DEF Abstract!AbsNext

(* A commit that changes the documents as the table would is the moment at
   which the request takes effect. *)
LEMMA EffectSimulates ==
  ASSUME RefInv, NEW r \in Requests, pc[r] = "commit",
         pc' = [pc EXCEPT ![r] = "persist"], UNCHANGED <<definitions, req>>,
         Abstract!Acceptable(req[r]), Documents' = Abstract!Effect(req[r])
  PROVE  Abstract!AbsNext
<1>1. Progress[r] = "waiting" /\ Progress' = [Progress EXCEPT ![r] = "effective"]
  BY ProgressMoves DEF Progress, RefInv, IndInv
<1>2. Abstract!TakesEffect(r)
  BY <1>1 DEF Abstract!TakesEffect
<1> QED BY <1>2 DEF Abstract!AbsNext

(* A request at its commit. *)
LEMMA Committing ==
  ASSUME RefInv, NEW r \in Requests, pc[r] = "commit"
  PROVE  /\ req[r] \in Request /\ req[r].type \in Types /\ req[r].id \in IDs
         /\ TypeOK
  BY DEF RefInv, IndInv, Served, Request

(* Documents change under one key when the entity map or the field of the
   entity changes there, and no other entity refers to the same map. *)
LEMMA DocumentPut ==
  ASSUME TypeOK, TypeOK', NEW t \in Types, NEW i \in IDs, NEW d \in Document,
         \A u \in Types, j \in IDs :
           Documents'[u][j] = IF u = t /\ j = i THEN d ELSE Documents[u][j]
  PROVE  Documents' = [Documents EXCEPT ![t][i] = d]
<1>1. Documents \in [Types -> [IDs -> Document]]
  BY Reading
<1>2. Documents' \in [Types -> [IDs -> Document]]
  BY DEF TypeOK, Documents, Document, Exists, FieldOf
<1>3. [Documents EXCEPT ![t][i] = d] \in [Types -> [IDs -> Document]]
  BY <1>1
<1>4. \A u \in Types, j \in IDs :
        [Documents EXCEPT ![t][i] = d][u][j] =
          IF u = t /\ j = i THEN d ELSE Documents[u][j]
  BY <1>1
<1> QED BY <1>2, <1>3, <1>4, SameTable

(* An Insert: the new map the entity map refers to holds the body. *)
LEMMA InsertSimulates ==
  ASSUME RefInv, TypeOK', NEW r \in Requests, InsertCommit(r)
  PROVE  Abstract!AbsNext
<1> DEFINE t == req[r].type
           i == req[r].id
           v == heap[r]
<1>0. /\ pc[r] = "commit" /\ req[r].op = "insert"
      /\ t \in Types /\ i \in IDs /\ req[r] \in Request /\ TypeOK
  BY Committing DEF InsertCommit
<1>1. v = Body(req[r].val) /\ req[r].val # BadValue
  BY <1>0 DEF RefInv, PreparedStands
<1>2. Abstract!Acceptable(req[r]) <=>
        Registered(t) /\ ~Exists(t, i) /\ UniquenessHolds(t, v, NoID)
  BY <1>0, <1>1, InsertAcceptable
<1>3. CASE ~Abstract!Acceptable(req[r])
  BY <1>0, <1>2, <1>3, RefuseSimulates DEF InsertCommit
<1>4. CASE Abstract!Acceptable(req[r])
  <2>1. /\ entities' = [entities EXCEPT ![t][i] = r]
        /\ pc' = [pc EXCEPT ![r] = "persist"]
        /\ UNCHANGED <<definitions, heap, req>>
    BY <1>2, <1>4 DEF InsertCommit
  <2>2. ASSUME NEW u \in Types, NEW j \in IDs
        PROVE  Documents'[u][j] = IF u = t /\ j = i THEN v ELSE Documents[u][j]
    <3>1. entities'[u][j] = IF u = t /\ j = i THEN r ELSE entities[u][j]
      BY <1>0, <2>1, PutType DEF TypeOK
    <3>2. /\ Documents[u][j] =
               IF entities[u][j] # NoObject THEN heap[entities[u][j]] ELSE NoDocument
          /\ Documents'[u][j] =
               IF entities'[u][j] # NoObject THEN heap'[entities'[u][j]] ELSE NoDocument
      BY DEF Documents, Exists, FieldOf
    <3> QED BY <2>1, <3>1, <3>2, MarkersDistinct
  <2>3. v \in Document
    BY <1>0 DEF TypeOK, Document
  <2>4. Documents' = [Documents EXCEPT ![t][i] = v]
    BY <1>0, <2>2, <2>3, DocumentPut
  <2>5. Abstract!Effect(req[r]) = [Documents EXCEPT ![t][i] = v]
    BY <1>0, <1>1, InsertAcceptable DEF Abstract!Effect
  <2> QED BY <1>0, <1>4, <2>1, <2>4, <2>5, EffectSimulates
<1> QED BY <1>3, <1>4

(* An Update: the map is changed in place, and it is this entity's alone. *)
LEMMA UpdateSimulates ==
  ASSUME RefInv, TypeOK', NEW r \in Requests, UpdateCommit(r)
  PROVE  Abstract!AbsNext
<1> DEFINE t == req[r].type
           i == req[r].id
           new == Merged(req[r].val, FieldOf(t, i))
<1>0. /\ pc[r] = "commit" /\ req[r].op = "update"
      /\ t \in Types /\ i \in IDs /\ req[r] \in Request /\ TypeOK
  BY Committing DEF UpdateCommit
<1>1. req[r].val # BadValue
  BY <1>0 DEF RefInv, IndInv, Served
<1>2. Abstract!Acceptable(req[r]) <=>
        Exists(t, i) /\ UniquenessHolds(t, new, i)
  BY <1>0, <1>1, UpdateAcceptable
<1>3. CASE ~Abstract!Acceptable(req[r])
  BY <1>0, <1>2, <1>3, RefuseSimulates DEF UpdateCommit
<1>4. CASE Abstract!Acceptable(req[r])
  <2>0. Exists(t, i)
    BY <1>2, <1>4
  <2>1. /\ heap' = [heap EXCEPT ![entities[t][i]] = new]
        /\ pc' = [pc EXCEPT ![r] = "persist"]
        /\ UNCHANGED <<definitions, entities, req>>
    BY <1>2, <1>4 DEF UpdateCommit
  <2>2. ASSUME NEW u \in Types, NEW j \in IDs
        PROVE  Documents'[u][j] = IF u = t /\ j = i THEN new ELSE Documents[u][j]
    <3>1. /\ Documents[u][j] =
               IF entities[u][j] # NoObject THEN heap[entities[u][j]] ELSE NoDocument
          /\ Documents'[u][j] =
               IF entities'[u][j] # NoObject THEN heap'[entities'[u][j]] ELSE NoDocument
      BY DEF Documents, Exists, FieldOf
    <3>2. entities[t][i] \in Requests
      BY <1>0, <2>0 DEF Exists, TypeOK
    <3>3. CASE u = t /\ j = i
      <4>1. heap'[entities[t][i]] = new
        BY <1>0, <2>1, <3>2 DEF TypeOK
      <4> QED BY <2>0, <2>1, <3>1, <3>3, <4>1 DEF Exists
    <3>4. CASE ~(u = t /\ j = i)
      <4>1. Exists(u, j) => entities[u][j] # entities[t][i]
        BY <1>0, <2>0, <3>4 DEF RefInv, IndInv, FieldsNotShared
      <4>2. Exists(u, j) => heap'[entities[u][j]] = heap[entities[u][j]]
        BY <1>0, <2>1, <3>2, <4>1 DEF TypeOK, Exists
      <4> QED BY <2>1, <3>1, <3>4, <4>2 DEF Exists
    <3> QED BY <3>3, <3>4
  <2>3. new \in Document
    BY <1>0, <1>1, <2>0, Reading DEF Request, Merged, Document
  <2>4. Documents' = [Documents EXCEPT ![t][i] = new]
    <3> HIDE DEF t, i, new
    <3> QED BY <1>0, <2>2, <2>3, DocumentPut
  <2>5. Abstract!Effect(req[r]) = [Documents EXCEPT ![t][i] = new]
    BY <1>0, <1>1, <2>0, UpdateAcceptable DEF Abstract!Effect
  <2> QED BY <1>0, <1>4, <2>1, <2>4, <2>5, EffectSimulates
<1> QED BY <1>3, <1>4

(* A Delete. *)
LEMMA DeleteSimulates ==
  ASSUME RefInv, TypeOK', NEW r \in Requests, DeleteCommit(r)
  PROVE  Abstract!AbsNext
<1> DEFINE t == req[r].type
           i == req[r].id
<1>0. /\ pc[r] = "commit" /\ req[r].op = "delete"
      /\ t \in Types /\ i \in IDs /\ req[r] \in Request /\ TypeOK
  BY Committing DEF DeleteCommit
<1>2. Abstract!Acceptable(req[r]) <=> Exists(t, i)
  BY <1>0, OtherAcceptable
<1>3. CASE ~Abstract!Acceptable(req[r])
  BY <1>0, <1>2, <1>3, RefuseSimulates DEF DeleteCommit
<1>4. CASE Abstract!Acceptable(req[r])
  <2>1. /\ entities' = [entities EXCEPT ![t][i] = NoObject]
        /\ pc' = [pc EXCEPT ![r] = "persist"]
        /\ UNCHANGED <<definitions, heap, req>>
    BY <1>2, <1>4 DEF DeleteCommit
  <2>2. ASSUME NEW u \in Types, NEW j \in IDs
        PROVE  Documents'[u][j] =
                 IF u = t /\ j = i THEN NoDocument ELSE Documents[u][j]
    <3>1. entities'[u][j] = IF u = t /\ j = i THEN NoObject ELSE entities[u][j]
      BY <1>0, <2>1, PutType DEF TypeOK
    <3>2. /\ Documents[u][j] =
               IF entities[u][j] # NoObject THEN heap[entities[u][j]] ELSE NoDocument
          /\ Documents'[u][j] =
               IF entities'[u][j] # NoObject THEN heap'[entities'[u][j]] ELSE NoDocument
      BY DEF Documents, Exists, FieldOf
    <3> QED BY <2>1, <3>1, <3>2
  <2>3. NoDocument \in Document
    BY DEF Document
  <2>4. Documents' = [Documents EXCEPT ![t][i] = NoDocument]
    BY <1>0, <2>2, <2>3, DocumentPut
  <2>5. Abstract!Effect(req[r]) = [Documents EXCEPT ![t][i] = NoDocument]
    BY <1>0 DEF Abstract!Effect
  <2> QED BY <1>0, <1>4, <2>1, <2>4, <2>5, EffectSimulates
<1> QED BY <1>3, <1>4

(* A truncation of what is empty already. *)
LEMMA NothingSimulates ==
  ASSUME RefInv, NEW r \in Requests, pc[r] = "commit",
         req[r].op \in {"truncate", "truncatedb"},
         pc' = [pc EXCEPT ![r] = "ok"], UNCHANGED <<definitions, req, Documents>>,
         Documents = Abstract!Effect(req[r])
  PROVE  Abstract!AbsNext
<1>1. Progress[r] = "waiting" /\ Progress' = [Progress EXCEPT ![r] = "ok"]
  BY ProgressMoves DEF Progress, RefInv, IndInv
<1>2. Abstract!NothingToDo(r)
  BY <1>1 DEF Abstract!NothingToDo
<1> QED BY <1>2 DEF Abstract!AbsNext

(* A truncation of a type; nothing happens to the table when it was empty. *)
LEMMA TruncateSimulates ==
  ASSUME RefInv, TypeOK', NEW r \in Requests, TruncateCommit(r)
  PROVE  Abstract!AbsNext
<1> DEFINE t == req[r].type
<1>0. /\ pc[r] = "commit" /\ req[r].op = "truncate"
      /\ t \in Types /\ req[r] \in Request /\ TypeOK
  BY Committing DEF TruncateCommit
<1>1. Abstract!Acceptable(req[r])
  BY <1>0, OtherAcceptable DEF RefInv, PreparedStands
<1>2. /\ entities' = [entities EXCEPT ![t] = [j \in IDs |-> NoObject]]
      /\ pc' = [pc EXCEPT ![r] =
           IF \E j \in IDs : Exists(t, j) THEN "persist" ELSE "ok"]
      /\ UNCHANGED <<definitions, heap, req>>
  BY DEF TruncateCommit
<1>3. Abstract!Effect(req[r]) =
        [Documents EXCEPT ![t] = [j \in IDs |-> NoDocument]]
  BY <1>0 DEF Abstract!Effect
<1>4. Documents' = Abstract!Effect(req[r])
  <2>1. Documents' \in [Types -> [IDs -> Document]]
    BY DEF TypeOK, Documents, Document, Exists, FieldOf
  <2>2. Abstract!Effect(req[r]) \in [Types -> [IDs -> Document]]
    BY <1>0, <1>3, Reading DEF Document
  <2>3. ASSUME NEW u \in Types, NEW j \in IDs
        PROVE  Documents'[u][j] = Abstract!Effect(req[r])[u][j]
    <3>1. entities'[u][j] = IF u = t THEN NoObject ELSE entities[u][j]
      BY <1>0, <1>2 DEF TypeOK
    <3>2. /\ Documents[u][j] =
               IF entities[u][j] # NoObject THEN heap[entities[u][j]] ELSE NoDocument
          /\ Documents'[u][j] =
               IF entities'[u][j] # NoObject THEN heap'[entities'[u][j]] ELSE NoDocument
      BY DEF Documents, Exists, FieldOf
    <3>3. Abstract!Effect(req[r])[u][j] =
            IF u = t THEN NoDocument ELSE Documents[u][j]
      BY <1>0, <1>3, Reading
    <3> QED BY <1>2, <3>1, <3>2, <3>3
  <2> QED BY <2>1, <2>2, <2>3, SameTable
<1>5. CASE \E j \in IDs : Exists(t, j)
  BY <1>0, <1>1, <1>2, <1>4, <1>5, EffectSimulates
<1>6. CASE ~\E j \in IDs : Exists(t, j)
  <2>1. UNCHANGED Documents
    <3>1. Documents \in [Types -> [IDs -> Document]]
      BY <1>0, Reading
    <3>2. \A j \in IDs : Documents[t][j] = NoDocument
      BY <1>0, <1>6, Reading
    <3>3. Documents[t] = [j \in IDs |-> NoDocument]
      BY <1>0, <3>1, <3>2
    <3> QED BY <1>3, <1>4, <3>1, <3>3
  <2> QED BY <1>0, <1>2, <1>4, <1>6, <2>1, NothingSimulates
<1> QED BY <1>5, <1>6

(* A truncation of the whole database. *)
LEMMA TruncateDatabaseSimulates ==
  ASSUME RefInv, TypeOK', NEW r \in Requests, TruncateDatabaseCommit(r)
  PROVE  Abstract!AbsNext
<1> DEFINE Empty == [t \in Types |-> [i \in IDs |-> NoDocument]]
<1>0. /\ pc[r] = "commit" /\ req[r].op = "truncatedb"
      /\ req[r] \in Request /\ TypeOK
  BY Committing DEF TruncateDatabaseCommit
<1>1. Abstract!Acceptable(req[r]) /\ Abstract!Effect(req[r]) = Empty
  BY <1>0, OtherAcceptable DEF Abstract!Effect
<1>2. CASE \E t \in Types : \E i \in IDs : Exists(t, i)
  <2>1. /\ entities' = [t \in Types |-> [i \in IDs |-> NoObject]]
        /\ pc' = [pc EXCEPT ![r] = "persist"]
        /\ UNCHANGED <<definitions, heap, req>>
    BY <1>2 DEF TruncateDatabaseCommit
  <2>2. \A t \in Types, i \in IDs : ~(entities'[t][i] # NoObject)
    BY <2>1
  <2>3. Documents' = Empty
    BY <2>2 DEF Documents, Exists
  <2> QED BY <1>0, <1>1, <2>1, <2>3, EffectSimulates
<1>3. CASE ~\E t \in Types : \E i \in IDs : Exists(t, i)
  <2>1. /\ UNCHANGED <<definitions, entities, heap, req>>
        /\ pc' = [pc EXCEPT ![r] = "ok"]
    BY <1>3 DEF TruncateDatabaseCommit
  <2>2. Documents = Empty /\ UNCHANGED Documents
    BY <1>3, <2>1 DEF Documents, Exists, FieldOf
  <2> QED BY <1>0, <1>1, <2>1, <2>2, NothingSimulates
<1> QED BY <1>2, <1>3

(* The answer of the persistence call: the client is told. *)
LEMMA AnswerSimulates ==
  ASSUME RefInv, NEW r \in Requests, Persisted(r) \/ TruncateFails(r)
  PROVE  Abstract!AbsNext
<1>1. pc[r] = "persist" /\ Progress[r] = "effective"
  BY DEF Persisted, TruncateFails, PersistFails, Progress
<1>2. UNCHANGED <<definitions, Documents, req>>
  BY DEF Persisted, TruncateFails, PersistFails, Documents, Exists, FieldOf
<1>3. CASE Persisted(r)
  <2>1. Progress' = [Progress EXCEPT ![r] = "ok"]
    BY <1>3, ProgressMoves DEF Persisted, RefInv, IndInv
  <2>2. Abstract!Answered(r)
    BY <1>1, <1>2, <2>1 DEF Abstract!Answered
  <2> QED BY <2>2 DEF Abstract!AbsNext
<1>4. CASE TruncateFails(r)
  <2>1. Progress' = [Progress EXCEPT ![r] = "failed"]
    BY <1>4, ProgressMoves DEF TruncateFails, PersistFails, RefInv, IndInv
  <2>2. req[r].op \in {"truncate", "truncatedb"}
    BY <1>4 DEF TruncateFails, PersistFails
  <2>3. Abstract!NotOnDisk(r)
    BY <1>1, <1>2, <2>1, <2>2 DEF Abstract!NotOnDisk
  <2> QED BY <2>3 DEF Abstract!AbsNext
<1> QED BY <1>3, <1>4

-----------------------------------------------------------------------------
(* Every behaviour of the engine on which no persistence call of an Insert,
   Update or Delete fails is, seen through Documents and Progress, a behaviour
   of the plain table: a linearisation, for any number of requests. *)
THEOREM Refinement == PersistingSpec => ImplementsDocumentStore
<1>1. Init => Abstract!AbsInit
  BY DEF Init, Abstract!AbsInit, Documents, Progress, Exists
<1>2. RefInv /\ RefInv' /\ [PersistingNext]_vars => [Abstract!AbsNext]_(Abstract!absVars)
  <2> SUFFICES ASSUME RefInv, RefInv', [PersistingNext]_vars
               PROVE  Abstract!AbsNext \/ UNCHANGED Abstract!absVars
    OBVIOUS
  <2>1. CASE UNCHANGED vars
    BY <2>1 DEF vars, Abstract!absVars, Documents, Progress, Exists, FieldOf
  <2>2. TypeOK'
    BY DEF RefInv, IndInv
  <2>3. ASSUME NEW r \in Requests, Commit(r)
        PROVE  Abstract!AbsNext
    BY <2>2, <2>3, InsertSimulates, UpdateSimulates, DeleteSimulates,
       TruncateSimulates, TruncateDatabaseSimulates DEF Commit
  <2> QED BY <2>1, <2>3, PrepareSimulates, AnswerSimulates DEF PersistingNext
<1> QED BY <1>1, <1>2, RefInductive, PTL
        DEF PersistingSpec, ImplementsDocumentStore, Abstract!AbsSpec
=============================================================================
