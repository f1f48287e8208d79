------------------------- MODULE EngineAuditProofs -------------------------
(***************************************************************************)
(* The rollbacks of the engine, for any number of requests, types, IDs and *)
(* values: as long as no two requests are in flight together, a failed     *)
(* Insert, Update or Delete leaves exact indices and the documents that    *)
(* were there before it.                                                   *)
(*                                                                         *)
(* The argument: a request that has committed and waits for its            *)
(* persistence call still holds, in its own Fields map and in the entity   *)
(* map, everything that undoes its commit (Undoable).                      *)
(***************************************************************************)
EXTENDS EngineAudit, EngineProofs

InFlight == {r \in Requests : Active(r)}

Document == Values \cup {Nil, NoDocument}

(* The last answer has left the documents that are there now, with d for
   entity i of type t. *)
AnsweredWith(t, i, d) ==
  \A u \in Types, j \in IDs :
    answered[u][j] = IF u = t /\ j = i THEN d ELSE Documents[u][j]

(* The backup of an Update or a Delete is the entity as it is. *)
BackupFresh(r) ==
  req[r].op \in {"update", "delete"} =>
    /\ Exists(req[r].type, req[r].id)
    /\ heap[r] = FieldOf(req[r].type, req[r].id)

(* What undoes the commit of r is at hand: the key of an Insert still maps to
   its own entity; the backup of an Update or a Delete holds the field that
   was answered, and no other entity has taken its unique value. *)
Undoable(r) ==
  LET t == req[r].type
      i == req[r].id
  IN  /\ req[r].op = "insert" =>
           entities[t][i] = r /\ AnsweredWith(t, i, NoDocument)
      /\ req[r].op \in {"update", "delete"} =>
           /\ AnsweredWith(t, i, heap[r])
           /\ Exists(t, i) <=> req[r].op = "update"
           /\ Unique(t) /\ heap[r] \in Values =>
                \A j \in IDs \ {i} : ~Holds(t, j, heap[r])

(* One request at a time. *)
Sequential ==
  /\ Exact
  /\ \A r, s \in Requests : Active(r) /\ Active(s) => r = s
  /\ (\A r \in Requests : pc[r] # "persist") => Documents = answered
  /\ \A r \in Requests :
       /\ pc[r] = "commit" => BackupFresh(r)
       /\ pc[r] = "persist" => Undoable(r)

AuditInv ==
  /\ IsFiniteSet(InFlight)
  /\ answered \in [Types -> [IDs -> Document]]
  /\ OwnersPast
  /\ overlapped \/ Sequential

-----------------------------------------------------------------------------
(* The documents are read through the entity map. *)
LEMMA Reading ==
  ASSUME TypeOK
  PROVE  /\ Documents \in [Types -> [IDs -> Document]]
         /\ \A t \in Types, i \in IDs :
              /\ Exists(t, i) => Documents[t][i] = FieldOf(t, i)
              /\ ~Exists(t, i) => Documents[t][i] = NoDocument
<1>1. ASSUME NEW t \in Types, NEW i \in IDs, Exists(t, i)
      PROVE  FieldOf(t, i) \in Values \cup {Nil}
  BY <1>1 DEF TypeOK, Exists, FieldOf
<1> QED BY <1>1 DEF Documents, Document

(* A first stretch changes no document. *)
LEMMA PrepareDocuments ==
  ASSUME IndInv, NEW r \in Requests, Prepare(r)
  PROVE  /\ Documents' = Documents
         /\ \A t \in Types, i \in IDs :
              /\ Exists(t, i)' <=> Exists(t, i)
              /\ Exists(t, i) => FieldOf(t, i)' = FieldOf(t, i) /\ entities[t][i] # r
<1>1. BaseInv
  BY DEF IndInv, BaseInv
<1>2. ASSUME NEW t \in Types, NEW i \in IDs
      PROVE  /\ Exists(t, i)' <=> Exists(t, i)
             /\ Exists(t, i) => FieldOf(t, i)' = FieldOf(t, i) /\ entities[t][i] # r
  BY <1>1, PrepareReads
<1>3. Documents' = Documents
  BY <1>2 DEF Documents
<1> QED BY <1>2, <1>3

-----------------------------------------------------------------------------
(* The parts of the invariant that every step keeps, overlaps or not. *)

(* At every moment finitely many requests are in flight. *)
LEMMA InFlightFinite ==
  ASSUME IndInv, IsFiniteSet(InFlight), [Next]_vars
  PROVE  IsFiniteSet(InFlight')
<1>1. ASSUME NEW r \in Requests, InFlight' \subseteq InFlight \cup {r}
      PROVE  IsFiniteSet(InFlight')
  <2>1. IsFiniteSet(InFlight \cup {r})
    BY FS_AddElement
  <2> QED BY <1>1, <2>1, FS_Subset
<1>2. ASSUME NEW r \in Requests, \A s \in Requests \ {r} : pc'[s] = pc[s]
      PROVE  InFlight' \subseteq InFlight \cup {r}
  BY <1>2 DEF InFlight, Active
<1>3. ASSUME NEW r \in Requests, Prepare(r)
      PROVE  IsFiniteSet(InFlight')
  BY <1>1, <1>2, <1>3, PrepareShape DEF IndInv
<1>4. ASSUME NEW r \in Requests, Commit(r) \/ Persisted(r) \/ Rollback(r)
      PROVE  IsFiniteSet(InFlight')
  BY <1>1, <1>2, <1>4, StepShape DEF IndInv
<1>5. CASE UNCHANGED vars
  BY <1>5 DEF vars, InFlight, Active
<1> QED BY <1>3, <1>4, <1>5 DEF Next

-----------------------------------------------------------------------------
(* One request at a time. *)

(* What the history variables make of a step of request r. *)
LEMMA AuditShape ==
  ASSUME NEW r \in Requests, pc'[r] # pc[r],
         \A s \in Requests \ {r} : pc'[s] = pc[s],
         Audit, ~overlapped', IsFiniteSet(InFlight')
  PROVE  /\ ~overlapped
         /\ answered' = IF Announced(r) THEN Documents' ELSE answered
         /\ \A x, y \in Requests : Active(x)' /\ Active(y)' => x = y
<1>1. ~overlapped /\ ~(Cardinality(InFlight') > 1)
  BY DEF Audit, InFlight
<1>2. ASSUME NEW x \in Requests, NEW y \in Requests, Active(x)', Active(y)'
      PROVE  x = y
  <2>1. x \in InFlight' /\ y \in InFlight'
    BY <1>2 DEF InFlight
  <2> QED BY <1>1, <2>1, AtMostOne
<1>3. answered' = IF Announced(r) THEN Documents' ELSE answered
  <2>1. (\E s \in Requests : pc[s] # pc'[s] /\ Announced(s)) <=> Announced(r)
    OBVIOUS
  <2> QED BY <2>1 DEF Audit
<1> QED BY <1>1, <1>2, <1>3

(* A request that arrives finds nobody in flight; its backup is fresh. *)
LEMMA PrepareSequential ==
  ASSUME IndInv, AuditInv, NEW r \in Requests, Prepare(r), Audit,
         ~overlapped', IsFiniteSet(InFlight')
  PROVE  Sequential'
<1>1. /\ pc[r] = "idle" /\ pc'[r] \in {"commit", "rejected"}
      /\ \A s \in Requests \ {r} :
           heap'[s] = heap[s] /\ pc'[s] = pc[s] /\ req'[s] = req[s]
      /\ UNCHANGED <<definitions, entities, indices, uniqueIndices>>
  BY PrepareShape DEF IndInv
<1>2. /\ ~overlapped /\ answered' = answered
      /\ \A x, y \in Requests : Active(x)' /\ Active(y)' => x = y
  <2>1. ~Announced(r)
    <3>1. pc'[r] # "ok" /\ pc'[r] # "failed"
      BY <1>1
    <3> QED BY <3>1 DEF Announced
  <2>2. pc'[r] # pc[r]
    BY <1>1
  <2> QED BY <1>1, <2>1, <2>2, AuditShape
<1>3. Sequential
  BY <1>2 DEF AuditInv
<1>4. Exact'
  BY <1>3, PrepareExact DEF Sequential, IndInv, BaseInv, Exact
<1>5. /\ Documents' = Documents
      /\ \A t \in Types, i \in IDs :
           /\ Exists(t, i)' <=> Exists(t, i)
           /\ Exists(t, i) => FieldOf(t, i)' = FieldOf(t, i) /\ entities[t][i] # r
  BY PrepareDocuments
<1>6. (\A s \in Requests : pc'[s] # "persist") => Documents' = answered'
  <2> SUFFICES ASSUME \A s \in Requests : pc'[s] # "persist"
               PROVE  \A s \in Requests : pc[s] # "persist"
    BY <1>2, <1>3, <1>5 DEF Sequential
  <2> QED BY <1>1
<1>7. ASSUME pc'[r] = "commit"
      PROVE  BackupFresh(r)'
  <2>1. PICK q \in Workload :
          \/ InsertPrepare(r, q) \/ UpdatePrepare(r, q) \/ DeletePrepare(r, q)
          \/ TruncatePrepare(r, q) \/ TruncateDatabasePrepare(r, q)
    BY DEF Prepare
  <2>2. q.type \in Types /\ q.id \in IDs /\ q \in Request
    BY WorkloadAssumption DEF Request
  <2>3. req' = [req EXCEPT ![r] = q]
    BY <2>1 DEF InsertPrepare, UpdatePrepare, DeletePrepare, TruncatePrepare,
         TruncateDatabasePrepare, Arrive
  <2>4. req'[r] = q
    BY <2>2, <2>3 DEF IndInv, TypeOK
  <2>5. q.op \in {"update", "delete"} =>
          Exists(q.type, q.id) /\ heap'[r] = FieldOf(q.type, q.id)
    BY <1>7, <2>1 DEF InsertPrepare, UpdatePrepare, DeletePrepare, TruncatePrepare,
         TruncateDatabasePrepare, Arrive, IndInv, TypeOK
  <2> QED BY <1>5, <2>2, <2>4, <2>5 DEF BackupFresh
<1>8. ASSUME NEW s \in Requests \ {r}, pc[s] \in {"commit", "persist"}
      PROVE  req[s].type \in Types /\ req[s].id \in IDs
  BY <1>8 DEF IndInv, Served, Request
<1>9. ASSUME NEW s \in Requests \ {r}, pc'[s] = "commit"
      PROVE  BackupFresh(s)'
  <2>1. BackupFresh(s) /\ req'[s] = req[s] /\ heap'[s] = heap[s]
    BY <1>1, <1>3, <1>9 DEF Sequential
  <2>2. req[s].type \in Types /\ req[s].id \in IDs
    BY <1>1, <1>8, <1>9
  <2> QED BY <1>5, <2>1, <2>2 DEF BackupFresh
<1>10. ASSUME NEW s \in Requests \ {r}, pc'[s] = "persist"
       PROVE  Undoable(s)'
  <2>1. Undoable(s) /\ req'[s] = req[s] /\ heap'[s] = heap[s]
    BY <1>1, <1>3, <1>10 DEF Sequential
  <2>2. req[s].type \in Types /\ req[s].id \in IDs
    BY <1>1, <1>8, <1>10
  <2>3. \A t \in Types, i \in IDs : AnsweredWith(t, i, heap[s])' <=> AnsweredWith(t, i, heap[s])
    BY <1>2, <1>5, <2>1 DEF AnsweredWith
  <2>4. \A t \in Types, i \in IDs : AnsweredWith(t, i, NoDocument)' <=> AnsweredWith(t, i, NoDocument)
    BY <1>2, <1>5 DEF AnsweredWith
  <2>5. \A t \in Types, j \in IDs : Holds(t, j, heap[s])' <=> Holds(t, j, heap[s])
    BY <1>5, <2>1 DEF Holds
  <2>6. \A t \in Types : Unique(t)' <=> Unique(t)
    BY <1>1 DEF Unique, Registered
  <2> QED BY <1>1, <1>5, <2>1, <2>2, <2>3, <2>4, <2>5, <2>6 DEF Undoable
<1>11. \A s \in Requests : /\ pc'[s] = "commit" => BackupFresh(s)'
                           /\ pc'[s] = "persist" => Undoable(s)'
  BY <1>1, <1>7, <1>9, <1>10
<1> QED BY <1>2, <1>4, <1>6, <1>11 DEF Sequential

(* After a commit, an answer or a rollback, only the request itself can still
   be in flight. *)
LEMMA StepSequential ==
  ASSUME IndInv, AuditInv, NEW r \in Requests,
         Commit(r) \/ Persisted(r) \/ Rollback(r), Audit,
         ~overlapped', IsFiniteSet(InFlight'), Exact',
         pc'[r] = "persist" => Undoable(r)',
         pc'[r] # "persist" => Documents' = answered'
  PROVE  Sequential'
<1>1. /\ Active(r) /\ pc'[r] # pc[r]
      /\ pc'[r] \in {"persist", "ok", "rejected", "failed"}
      /\ \A s \in Requests \ {r} : pc'[s] = pc[s]
  BY StepShape DEF IndInv
<1>2. /\ ~overlapped
      /\ \A x, y \in Requests : Active(x)' /\ Active(y)' => x = y
  BY <1>1, AuditShape
<1>3. \A s \in Requests \ {r} : ~Active(s)
  BY <1>1, <1>2 DEF AuditInv, Sequential
<1>4. \A s \in Requests \ {r} : pc'[s] # "commit" /\ pc'[s] # "persist"
  BY <1>1, <1>3 DEF Active
<1>5. pc'[r] # "commit"
  BY <1>1
<1> QED BY <1>2, <1>4, <1>5 DEF Sequential

(* With one request in flight at its commit, the documents are those of the
   last answer, and the commit is announced only when it ends the request. *)
LEMMA CommitShape ==
  ASSUME IndInv, AuditInv, NEW r \in Requests, Commit(r), Audit,
         ~overlapped', IsFiniteSet(InFlight')
  PROVE  /\ Exact /\ Documents = answered /\ BackupFresh(r)
         /\ Exact'
         /\ answered' = IF pc'[r] = "ok" THEN Documents' ELSE answered
<1>1. /\ Active(r) /\ pc'[r] # pc[r]
      /\ pc'[r] \in {"persist", "ok", "rejected", "failed"}
      /\ \A s \in Requests \ {r} : pc'[s] = pc[s]
  BY StepShape DEF IndInv
<1>2. pc[r] = "commit" /\ pc'[r] # "failed"
  BY DEF Commit, InsertCommit, UpdateCommit, DeleteCommit, TruncateCommit,
       TruncateDatabaseCommit, Refuse, IndInv, TypeOK
<1>3. /\ ~overlapped
      /\ answered' = IF Announced(r) THEN Documents' ELSE answered
  BY <1>1, AuditShape
<1>4. Sequential
  BY <1>3 DEF AuditInv
<1>5. \A s \in Requests : pc[s] # "persist"
  BY <1>1, <1>2, <1>4 DEF Sequential, Active
<1>6. Exact /\ Documents = answered /\ BackupFresh(r)
  BY <1>2, <1>4, <1>5 DEF Sequential
<1>7. Exact'
  BY <1>6, CommitExact DEF IndInv, BaseInv, Exact
<1>8. Announced(r) <=> pc'[r] = "ok"
  BY <1>2 DEF Announced
<1> QED BY <1>3, <1>6, <1>7, <1>8

(* A refusal leaves everything as it was. *)
LEMMA RefuseSequential ==
  ASSUME IndInv, AuditInv, NEW r \in Requests, Commit(r), Refuse(r), Audit,
         ~overlapped', IsFiniteSet(InFlight')
  PROVE  Sequential'
<1>1. Documents' = Documents
  BY DEF Refuse, Documents, Exists, FieldOf
<1>2. pc'[r] = "rejected"
  BY DEF Refuse, IndInv, TypeOK
<1>3. Exact' /\ Documents' = answered'
  BY <1>1, <1>2, CommitShape
<1> QED BY <1>2, <1>3, StepSequential

(* An Insert that has committed maps its key to its own entity, which was not
   there before. *)
LEMMA InsertUndoable ==
  ASSUME IndInv, AuditInv, NEW r \in Requests, InsertCommit(r), Audit,
         ~overlapped', IsFiniteSet(InFlight')
  PROVE  Sequential'
<1>1. Commit(r)
  BY DEF Commit
<1> PICK t \in Types, i \in IDs : t = req[r].type /\ i = req[r].id
  BY <1>1, StepShape DEF IndInv
<1>2. UNCHANGED <<definitions, req>>
  BY <1>1, StepShape DEF IndInv
<1>3. CASE Refuse(r)
  BY <1>1, <1>3, RefuseSequential
<1>4. CASE /\ ~Exists(t, i) /\ UNCHANGED heap
           /\ entities' = [entities EXCEPT ![t][i] = r]
           /\ pc' = [pc EXCEPT ![r] = "persist"]
  <2>1. pc'[r] = "persist" /\ req'[r] = req[r] /\ req[r].op = "insert"
    BY <1>2, <1>4 DEF InsertCommit, IndInv, TypeOK
  <2>2. Exact' /\ Documents = answered /\ answered' = answered
    BY <1>1, <2>1, CommitShape
  <2>3. ~Exists(t, i) /\ entities' = [entities EXCEPT ![t][i] = r]
    BY <1>4
  <2>4. \A u \in Types, j \in IDs :
          entities'[u][j] = IF u = t /\ j = i THEN r ELSE entities[u][j]
    BY <1>2, <2>3, PutType DEF IndInv, TypeOK
  <2>5. ASSUME NEW u \in Types, NEW j \in IDs
        PROVE  answered'[u][j] = IF u = t /\ j = i THEN NoDocument ELSE Documents'[u][j]
    <3>1. u = t /\ j = i => answered'[u][j] = NoDocument
      BY <2>2, <2>3 DEF Documents
    <3>2. ~(u = t /\ j = i) => answered'[u][j] = Documents'[u][j]
      BY <1>4, <2>2, <2>4 DEF Documents, Exists, FieldOf
    <3> QED BY <3>1, <3>2
  <2>6. AnsweredWith(t, i, NoDocument)'
    BY <2>5 DEF AnsweredWith
  <2>7. entities'[t][i] = r
    BY <1>2, <2>4
  <2>8. Undoable(r)'
    BY <2>1, <2>6, <2>7 DEF Undoable
  <2> QED BY <1>1, <2>1, <2>2, <2>8, StepSequential
<1> QED BY <1>3, <1>4 DEF InsertCommit

(* An Update that has committed has its backup in its own map, with the field
   that was answered; the unique index said that nobody else had its value. *)
LEMMA UpdateUndoable ==
  ASSUME IndInv, AuditInv, NEW r \in Requests, UpdateCommit(r), Audit,
         ~overlapped', IsFiniteSet(InFlight')
  PROVE  Sequential'
<1>1. Commit(r)
  BY DEF Commit
<1> PICK t \in Types, i \in IDs : t = req[r].type /\ i = req[r].id
  BY <1>1, StepShape DEF IndInv
<1>2. UNCHANGED <<definitions, req>>
  BY <1>1, StepShape DEF IndInv
<1>3. CASE Refuse(r)
  BY <1>1, <1>3, RefuseSequential
<1>4. CASE /\ Exists(t, i) /\ UNCHANGED entities
           /\ heap' = [heap EXCEPT ![entities[t][i]] = Merged(req[r].val, FieldOf(t, i))]
           /\ pc' = [pc EXCEPT ![r] = "persist"]
  <2>1. pc'[r] = "persist" /\ req'[r] = req[r] /\ req[r].op = "update"
        /\ pc[r] = "commit"
    BY <1>2, <1>4 DEF UpdateCommit, IndInv, TypeOK
  <2>2. /\ Exact /\ Exact' /\ Documents = answered /\ answered' = answered
        /\ heap[r] = FieldOf(t, i)
    BY <1>1, <2>1, CommitShape DEF BackupFresh
  <2>3. Exists(t, i) /\ UNCHANGED entities
        /\ \E x : heap' = [heap EXCEPT ![entities[t][i]] = x]
    BY <1>4
  <2>4. heap'[r] = heap[r]
    <3>1. entities[t][i] # r
      BY <1>2, <2>1, <2>3 DEF AuditInv, OwnersPast
    <3> QED BY <2>3, <3>1 DEF IndInv, TypeOK
  <2>5. ASSUME NEW u \in Types, NEW j \in IDs, ~(u = t /\ j = i)
        PROVE  /\ Exists(u, j)' <=> Exists(u, j)
               /\ Exists(u, j) => FieldOf(u, j)' = FieldOf(u, j)
    <3>1. Exists(u, j) => entities[u][j] # entities[t][i]
      BY <1>2, <2>3, <2>5 DEF IndInv, FieldsNotShared
    <3>2. Exists(u, j) => entities[u][j] \in Requests
      BY DEF IndInv, TypeOK, Exists
    <3> QED BY <2>3, <3>1, <3>2 DEF Exists, FieldOf, IndInv, TypeOK
  <2>6. ASSUME NEW u \in Types, NEW j \in IDs
        PROVE  answered'[u][j] = IF u = t /\ j = i THEN heap'[r] ELSE Documents'[u][j]
    <3>1. u = t /\ j = i => answered'[u][j] = heap'[r]
      BY <2>2, <2>3, <2>4 DEF Documents
    <3>2. ~(u = t /\ j = i) => answered'[u][j] = Documents'[u][j]
      BY <2>2, <2>5 DEF Documents
    <3> QED BY <3>1, <3>2
  <2>7. AnsweredWith(t, i, heap[r])'
    BY <2>6 DEF AnsweredWith
  <2>8. Unique(t)' /\ heap'[r] \in Values =>
          \A j \in IDs \ {i} : ~Holds(t, j, heap[r])'
    <3> SUFFICES ASSUME Unique(t), heap[r] \in Values, NEW j \in IDs \ {i}
                 PROVE  ~Holds(t, j, heap[r])
      BY <1>2, <2>4, <2>5 DEF Holds, Unique, Registered
    <3>1. Holds(t, i, heap[r])
      BY <2>2, <2>3 DEF Holds
    <3> QED BY <1>2, <2>2, <3>1 DEF Exact, ExactFor
  <2>9. Exists(t, i)'
    BY <2>3 DEF Exists
  <2>10. Undoable(r)'
    BY <2>1, <2>7, <2>8, <2>9 DEF Undoable
  <2> QED BY <1>1, <2>1, <2>2, <2>10, StepSequential
<1> QED BY <1>3, <1>4 DEF UpdateCommit

(* A Delete that has committed: the same, and the key is empty. *)
LEMMA DeleteUndoable ==
  ASSUME IndInv, AuditInv, NEW r \in Requests, DeleteCommit(r), Audit,
         ~overlapped', IsFiniteSet(InFlight')
  PROVE  Sequential'
<1>1. Commit(r)
  BY DEF Commit
<1> PICK t \in Types, i \in IDs : t = req[r].type /\ i = req[r].id
  BY <1>1, StepShape DEF IndInv
<1>2. UNCHANGED <<definitions, req>>
  BY <1>1, StepShape DEF IndInv
<1>3. CASE Refuse(r)
  BY <1>1, <1>3, RefuseSequential
<1>4. CASE /\ Exists(t, i) /\ UNCHANGED heap
           /\ entities' = [entities EXCEPT ![t][i] = NoObject]
           /\ pc' = [pc EXCEPT ![r] = "persist"]
  <2>1. pc'[r] = "persist" /\ req'[r] = req[r] /\ req[r].op = "delete"
    BY <1>2, <1>4 DEF DeleteCommit, IndInv, TypeOK
  <2>2. /\ Exact /\ Exact' /\ Documents = answered /\ answered' = answered
        /\ heap[r] = FieldOf(t, i)
    BY <1>1, <2>1, CommitShape DEF BackupFresh
  <2>3. Exists(t, i) /\ UNCHANGED heap
        /\ entities' = [entities EXCEPT ![t][i] = NoObject]
    BY <1>4
  <2>4. \A u \in Types, j \in IDs :
          entities'[u][j] = IF u = t /\ j = i THEN NoObject ELSE entities[u][j]
    BY <1>2, <2>3, PutType DEF IndInv, TypeOK
  <2>5. ASSUME NEW u \in Types, NEW j \in IDs
        PROVE  answered'[u][j] = IF u = t /\ j = i THEN heap'[r] ELSE Documents'[u][j]
    <3>1. u = t /\ j = i => answered'[u][j] = heap'[r]
      BY <2>2, <2>3 DEF Documents
    <3>2. ~(u = t /\ j = i) => answered'[u][j] = Documents'[u][j]
      BY <2>2, <2>3, <2>4 DEF Documents, Exists, FieldOf
    <3> QED BY <3>1, <3>2
  <2>6. AnsweredWith(t, i, heap[r])'
    BY <2>5 DEF AnsweredWith
  <2>7. Unique(t)' /\ heap'[r] \in Values =>
          \A j \in IDs \ {i} : ~Holds(t, j, heap[r])'
    <3> SUFFICES ASSUME Unique(t), heap[r] \in Values, NEW j \in IDs \ {i}
                 PROVE  ~Holds(t, j, heap[r])
      BY <1>2, <2>3, <2>4 DEF Holds, Unique, Registered, Exists, FieldOf
    <3>1. Holds(t, i, heap[r])
      BY <2>2, <2>3 DEF Holds
    <3> QED BY <1>2, <2>2, <3>1 DEF Exact, ExactFor
  <2>8. ~Exists(t, i)'
    BY <1>2, <2>4 DEF Exists
  <2>9. Undoable(r)'
    BY <2>1, <2>6, <2>7, <2>8 DEF Undoable
  <2> QED BY <1>1, <2>1, <2>2, <2>9, StepSequential
<1> QED BY <1>3, <1>4 DEF DeleteCommit

(* A truncation has nothing to undo. *)
LEMMA TruncateSequential ==
  ASSUME IndInv, AuditInv, NEW r \in Requests, Audit,
         TruncateCommit(r) \/ TruncateDatabaseCommit(r),
         ~overlapped', IsFiniteSet(InFlight')
  PROVE  Sequential'
<1>1. Commit(r)
  BY DEF Commit
<1>2. req'[r] = req[r] /\ req[r].op \in {"truncate", "truncatedb"}
      /\ pc'[r] \in {"persist", "ok"}
  BY DEF TruncateCommit, TruncateDatabaseCommit, IndInv, TypeOK
<1>3. Exact' /\ (pc'[r] # "persist" => Documents' = answered')
  BY <1>1, <1>2, CommitShape
<1>4. Undoable(r)'
  BY <1>2 DEF Undoable
<1> QED BY <1>1, <1>3, <1>4, StepSequential

-----------------------------------------------------------------------------
(* The end of the persistence call. *)

(* A request that alone waits for its persistence call can be undone; the end
   of the call is announced, or the answer is not recorded. *)
LEMMA ReturnShape ==
  ASSUME IndInv, AuditInv, NEW r \in Requests, Persisted(r) \/ Rollback(r), Audit,
         ~overlapped', IsFiniteSet(InFlight')
  PROVE  /\ Exact /\ Undoable(r) /\ pc'[r] \in {"ok", "failed"}
         /\ answered' = IF Announced(r) THEN Documents' ELSE answered
<1>1. /\ Active(r) /\ pc'[r] # pc[r]
      /\ \A s \in Requests \ {r} : pc'[s] = pc[s]
  BY StepShape DEF IndInv
<1>2. pc[r] = "persist" /\ pc'[r] \in {"ok", "failed"}
  BY DEF Persisted, Rollback, InsertRollback, UpdateRollback, DeleteRollback,
       TruncateFails, PersistFails, IndInv, TypeOK
<1>3. /\ ~overlapped
      /\ answered' = IF Announced(r) THEN Documents' ELSE answered
  BY <1>1, AuditShape
<1>4. Exact /\ Undoable(r)
  BY <1>2, <1>3 DEF AuditInv, Sequential
<1> QED BY <1>2, <1>3, <1>4

(* A success, and the failure of a truncation, which stays in effect. *)
LEMMA AnswerSequential ==
  ASSUME IndInv, AuditInv, NEW r \in Requests, Persisted(r) \/ TruncateFails(r),
         Audit, ~overlapped', IsFiniteSet(InFlight')
  PROVE  Sequential'
<1>1. Persisted(r) \/ Rollback(r)
  BY DEF Rollback
<1>2. UNCHANGED <<definitions, entities, heap, indices, uniqueIndices>>
  BY DEF Persisted, TruncateFails, PersistFails
<1>3. Exact'
  BY <1>1, <1>2, ReturnShape
     DEF Exact, ExactFor, Unique, Indexed, Registered, Holds, Exists, FieldOf
<1>4. Announced(r)
  BY DEF Persisted, TruncateFails, PersistFails, Announced, IndInv, TypeOK
<1>5. Documents' = answered' /\ pc'[r] # "persist"
  BY <1>1, <1>4, ReturnShape
<1> QED BY <1>1, <1>3, <1>5, StepSequential

(* A rollback of an Insert, an Update or a Delete makes the documents those of
   the last answer again. *)
LEMMA RollbackSequential ==
  ASSUME IndInv, IndInv', AuditInv, NEW r \in Requests, Rollback(r),
         Audit, ~overlapped', IsFiniteSet(InFlight'),
         req[r].op \in {"insert", "update", "delete"}, UNCHANGED <<heap, req>>,
         NEW t \in Types, NEW i \in IDs, NEW o \in Requests \cup {NoObject},
         entities' = [entities EXCEPT ![t][i] = o],
         AnsweredWith(t, i, IF o = NoObject THEN NoDocument ELSE heap[o]),
         Exact'
  PROVE  Sequential'
<1>1. ~Announced(r) /\ pc'[r] # "persist"
  <2>1. pc'[r] = "failed"
    BY DEF Rollback, InsertRollback, UpdateRollback, DeleteRollback,
       TruncateFails, PersistFails, IndInv, TypeOK
  <2> QED BY <2>1 DEF Announced
<1>2. answered' = answered
  BY <1>1, ReturnShape
<1>3. \A u \in Types, j \in IDs :
        entities'[u][j] = IF u = t /\ j = i THEN o ELSE entities[u][j]
  BY PutType DEF IndInv, TypeOK
<1>4. ASSUME NEW u \in Types, NEW j \in IDs
      PROVE  Documents'[u][j] = answered[u][j]
  <2>1. Documents'[u][j] = IF entities'[u][j] # NoObject
                             THEN heap[entities'[u][j]] ELSE NoDocument
    BY DEF Documents, Exists, FieldOf
  <2>2. Documents[u][j] = IF entities[u][j] # NoObject
                            THEN heap[entities[u][j]] ELSE NoDocument
    BY DEF Documents, Exists, FieldOf
  <2> QED BY <1>3, <2>1, <2>2 DEF AnsweredWith
<1>5. Documents' \in [Types -> [IDs -> Document]]
  <2>1. ASSUME NEW u \in Types, NEW j \in IDs, Exists(u, j)'
        PROVE  FieldOf(u, j)' \in Values \cup {Nil}
    BY <2>1 DEF IndInv, TypeOK, Exists, FieldOf
  <2> QED BY <2>1 DEF Documents, Document
<1>6. Documents' = answered'
  BY <1>2, <1>4, <1>5, SameTable DEF AuditInv
<1> QED BY <1>1, <1>6, StepSequential

(* The Insert's own entity goes, with its own entries. *)
LEMMA InsertRollbackSequential ==
  ASSUME IndInv, IndInv', AuditInv, NEW r \in Requests, InsertRollback(r), Audit,
         ~overlapped', IsFiniteSet(InFlight')
  PROVE  Sequential'
<1>1. Rollback(r)
  BY DEF Rollback
<1> PICK t \in Types, i \in IDs : t = req[r].type /\ i = req[r].id
  BY <1>1, StepShape DEF IndInv
<1>2. /\ req[r].op = "insert" /\ UNCHANGED <<definitions, heap, req>>
      /\ entities' = [entities EXCEPT ![t][i] = NoObject]
      /\ indices' = [indices EXCEPT ![t] = RemoveIndex(indices[t], t, i, heap[r])]
      /\ uniqueIndices' = [uniqueIndices EXCEPT ![t] =
                             RemoveUnique(uniqueIndices[t], t, heap[r])]
  BY DEF InsertRollback, PersistFails
<1>3. Exact /\ entities[t][i] = r /\ AnsweredWith(t, i, NoDocument)
  BY <1>1, <1>2, ReturnShape DEF Undoable
<1>4. Exists(t, i) /\ heap[r] = FieldOf(t, i)
  BY <1>3, MarkersDistinct DEF Exists, FieldOf
<1>5. Exact'
  BY <1>2, <1>3, <1>4, RemovalExact DEF IndInv, Exact
<1> QED BY <1>1, <1>2, <1>3, <1>5, RollbackSequential

(* The Update's backup takes the place of the entity it changed. *)
LEMMA UpdateRollbackSequential ==
  ASSUME IndInv, IndInv', AuditInv, NEW r \in Requests, UpdateRollback(r), Audit,
         ~overlapped', IsFiniteSet(InFlight')
  PROVE  Sequential'
<1>1. Rollback(r)
  BY DEF Rollback
<1> PICK t \in Types, i \in IDs : t = req[r].type /\ i = req[r].id
  BY <1>1, StepShape DEF IndInv
<1> PICK now : now = IF Exists(t, i) THEN FieldOf(t, i) ELSE Nil
  OBVIOUS
<1>2. /\ req[r].op = "update" /\ UNCHANGED <<definitions, heap, req>>
      /\ entities' = [entities EXCEPT ![t][i] = r]
      /\ indices' = [indices EXCEPT ![t] =
           AddIndex(RemoveIndex(indices[t], t, i, now), t, i, heap[r])]
      /\ uniqueIndices' = [uniqueIndices EXCEPT ![t] =
           AddUnique(RemoveUnique(uniqueIndices[t], t, now), t, i, heap[r])]
  BY DEF UpdateRollback, PersistFails
<1>3. /\ Exact /\ AnsweredWith(t, i, heap[r])
      /\ Unique(t) /\ heap[r] \in Values =>
           \A j \in IDs \ {i} : ~Holds(t, j, heap[r])
  BY <1>1, <1>2, ReturnShape DEF Undoable
<1>4. Exact'
  BY <1>2, <1>3, RestoreExact DEF IndInv, Exact
<1> QED BY <1>1, <1>2, <1>3, <1>4, RollbackSequential, MarkersDistinct

(* The Delete's backup takes the empty place of the entity. *)
LEMMA DeleteRollbackSequential ==
  ASSUME IndInv, IndInv', AuditInv, NEW r \in Requests, DeleteRollback(r), Audit,
         ~overlapped', IsFiniteSet(InFlight')
  PROVE  Sequential'
<1>1. Rollback(r)
  BY DEF Rollback
<1> PICK t \in Types, i \in IDs : t = req[r].type /\ i = req[r].id
  BY <1>1, StepShape DEF IndInv
<1>2. /\ req[r].op = "delete" /\ UNCHANGED <<definitions, heap, req>>
      /\ entities' = [entities EXCEPT ![t][i] = r]
      /\ indices' = [indices EXCEPT ![t] = AddIndex(indices[t], t, i, heap[r])]
      /\ uniqueIndices' = [uniqueIndices EXCEPT ![t] =
           AddUnique(uniqueIndices[t], t, i, heap[r])]
  BY DEF DeleteRollback, PersistFails
<1>3. /\ Exact /\ AnsweredWith(t, i, heap[r]) /\ ~Exists(t, i)
      /\ Unique(t) /\ heap[r] \in Values =>
           \A j \in IDs \ {i} : ~Holds(t, j, heap[r])
  BY <1>1, <1>2, ReturnShape DEF Undoable
<1>4. RemoveIndex(indices[t], t, i, Nil) = indices[t]
      /\ RemoveUnique(uniqueIndices[t], t, Nil) = uniqueIndices[t]
  BY MarkersDistinct DEF RemoveIndex, RemoveUnique
<1>5. Exact'
  BY <1>2, <1>3, <1>4, RestoreExact DEF IndInv, Exact
<1> QED BY <1>1, <1>2, <1>3, <1>5, RollbackSequential, MarkersDistinct

-----------------------------------------------------------------------------
(* A step of the audited engine is a step of the engine. *)
LEMMA AuditIsNext ==
  [AuditNext]_auditVars => [Next]_vars
BY DEF AuditNext, auditVars, Next, Rollback, vars

(* The invariant is inductive. *)
LEMMA AuditInductive == AuditSpec => []AuditInv
<1>1. AuditSpec => Spec
  <2>1. AuditInit => Init
    BY DEF AuditInit
  <2> QED BY <2>1, AuditIsNext, PTL DEF AuditSpec, Spec
<1>2. AuditInit => AuditInv
  <2> SUFFICES ASSUME AuditInit PROVE AuditInv
    OBVIOUS
  <2>1. TypeOK /\ \A r \in Requests : pc[r] = "idle"
    BY TypeInit DEF AuditInit, Init
  <2>2. InFlight = {}
    BY <2>1 DEF InFlight, Active
  <2>3. \A t \in Types, i \in IDs : ~Exists(t, i)
    BY DEF AuditInit, Init, Exists
  <2>4. Exact
    BY <2>3, MarkersDistinct DEF AuditInit, Init, Exact, ExactFor, Holds, EmptyIndex, EmptyUnique
  <2>5. answered = Documents /\ Documents \in [Types -> [IDs -> Document]]
    BY <2>1, Reading DEF AuditInit
  <2>6. Sequential
    BY <2>1, <2>4, <2>5 DEF Sequential, Active
  <2>7. IsFiniteSet(InFlight)
    BY <2>2, FS_EmptySet
  <2> QED BY <2>3, <2>5, <2>6, <2>7 DEF AuditInv, OwnersPast
<1>3. IndInv /\ IndInv' /\ AuditInv /\ [AuditNext]_auditVars => AuditInv'
  <2> SUFFICES ASSUME IndInv, IndInv', AuditInv, [AuditNext]_auditVars
               PROVE  AuditInv'
    OBVIOUS
  <2>1. IsFiniteSet(InFlight') /\ OwnersPast'
    BY AuditIsNext, InFlightFinite, OwnersPastStep DEF AuditInv, IndInv, BaseInv
  <2>2. CASE UNCHANGED auditVars
    <3>1. UNCHANGED <<answered, overlapped>> /\ UNCHANGED vars
      BY <2>2 DEF auditVars
    <3>2. Documents' = Documents
      BY <3>1 DEF vars, Documents, Exists, FieldOf
    <3>3. Sequential' <=> Sequential
      BY <3>1, <3>2 DEF vars, Sequential, Exact, ExactFor, Active, BackupFresh, Undoable,
         AnsweredWith, Holds, Exists, FieldOf, Unique, Indexed, Registered
    <3> QED BY <2>1, <3>1, <3>3 DEF AuditInv
  <2>3. CASE AuditNext
    <3>1. PICK r \in Requests :
            /\ Audit
            /\ \/ Prepare(r) \/ Commit(r) \/ Persisted(r) \/ InsertRollback(r)
               \/ UpdateRollback(r) \/ DeleteRollback(r) \/ TruncateFails(r)
      BY <2>3 DEF AuditNext
    <3>2. answered' \in [Types -> [IDs -> Document]]
      <4>1. Documents' \in [Types -> [IDs -> Document]]
        <5>1. ASSUME NEW u \in Types, NEW j \in IDs, Exists(u, j)'
              PROVE  FieldOf(u, j)' \in Values \cup {Nil}
          BY <5>1 DEF IndInv, TypeOK, Exists, FieldOf
        <5> QED BY <5>1 DEF Documents, Document
      <4> QED BY <3>1, <4>1 DEF Audit, AuditInv
    <3>3. ASSUME ~overlapped' PROVE Sequential'
      BY <2>1, <3>1, <3>3, PrepareSequential, InsertUndoable, UpdateUndoable,
         DeleteUndoable, TruncateSequential, AnswerSequential,
         InsertRollbackSequential, UpdateRollbackSequential,
         DeleteRollbackSequential DEF Commit
    <3> QED BY <2>1, <3>2, <3>3 DEF AuditInv
  <2> QED BY <2>2, <2>3
<1> QED BY <1>1, <1>2, <1>3, Inductive, PTL DEF AuditSpec

(* Requests that do not overlap find exact indices, whichever persistence
   calls fail and are rolled back. *)
THEOREM RollbacksRestore == AuditSpec => []RollbackRestoresIndices
<1>1. AuditInv => RollbackRestoresIndices
  BY ExactMeaning DEF AuditInv, Sequential, RollbackRestoresIndices
<1> QED BY <1>1, AuditInductive, PTL

(* With nobody in flight and no overlap so far, the documents are those of the
   last answer: a request whose persistence call failed has left no trace. *)
THEOREM FailuresUndone == AuditSpec => []FailedLeaveNoTrace
<1>1. AuditInv => FailedLeaveNoTrace
  BY DEF AuditInv, Sequential, FailedLeaveNoTrace, Active
<1> QED BY <1>1, AuditInductive, PTL
=============================================================================
