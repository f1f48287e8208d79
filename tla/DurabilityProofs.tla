-------------------------- MODULE DurabilityProofs --------------------------
(***************************************************************************)
(* The log, the snapshots and the recovery, for all requests, types, IDs,  *)
(* values and definitions, and any bound on crashes, snapshots and         *)
(* transactions: what is in memory and on disk is always well-formed, a    *)
(* recovery applies each transaction as a whole or not at all, and, when   *)
(* requests come one at a time for one type, brings back what was          *)
(* answered.                                                               *)
(*                                                                         *)
(* The argument for the second: walSequence is above every number that was *)
(* given out in this process, so that no entry written in it replaces one  *)
(* of a transaction committed in it (NumbersKept); what is not in the log  *)
(* yet is in the hands of the goroutine that commits (Parts); recovery     *)
(* moves the operations one by one from `todo' to `replayed' (Halves).     *)
(*                                                                         *)
(* The argument for the third: a snapshot is a copy of the store           *)
(* (Copying), and the process that writes it has given out at least as     *)
(* many numbers as there is to be read from it (Numbered).  So what a      *)
(* recovery logs of it anew (Low) does not reach the entries written since *)
(* (High), has no effect when it is met in the log, and these entries make *)
(* the store again what it was, one after the other (Story).               *)
(***************************************************************************)
EXTENDS Durability, FiniteSetTheorems, SequenceTheorems, TLAPS

(* A request that has been admitted carries an operation, a goroutine that
   writes a transaction has something left to write. *)
Carried ==
  /\ txn \in [Requests -> Seq(Operation)]
  /\ \A r \in Requests :
       /\ pc[r] \in {"sequence", "write"} => req[r] \in Operation
       /\ pc[r] \in {"txnsequence", "txnwrite"} => txn[r] # <<>>

TypeInv == TypeOK /\ Carried /\ IsFiniteSet(wal)

-----------------------------------------------------------------------------
(* The operators. *)

LEMMA Empty == EmptyDB \in Database
BY DEF EmptyDB, Database, NoDocs

(* A document table after one entry changed. *)
LEMMA DocsPut ==
  ASSUME NEW x \in [Types -> [IDs -> Values \cup {None}]], NEW t, NEW i,
         NEW v \in Values \cup {None}
  PROVE  [x EXCEPT ![t][i] = v] \in [Types -> [IDs -> Values \cup {None}]]
<1>1. [x[t] EXCEPT ![i] = v] \in [IDs -> Values \cup {None}] \/ t \notin Types
  OBVIOUS
<1> QED BY <1>1

(* What the store makes of an operation is a store. *)
LEMMA ResultType ==
  ASSUME NEW d \in Database, NEW q \in Operation
  PROVE  Result(d, q) \in Database
<1>1. /\ d.defs \in [Types -> Defs \cup {None}]
      /\ d.docs \in [Types -> [IDs -> Values \cup {None}]]
      /\ d = [defs |-> d.defs, docs |-> d.docs]
  BY DEF Database
<1>2. q.val \in Values \cup {None} /\ q.def \in Defs \cup {None} /\ q.op \in Ops
  BY DEF Operation
<1>3. ASSUME NEW x \in [Types -> Defs \cup {None}]
      PROVE  [d EXCEPT !.defs = x] \in Database
  BY <1>1 DEF Database
<1>4. ASSUME NEW x \in [Types -> [IDs -> Values \cup {None}]]
      PROVE  [d EXCEPT !.docs = x] \in Database
  BY <1>1 DEF Database
<1>5. CASE q.op \in {"register", "updatetype"}
  <2>1. [d.defs EXCEPT ![q.type] = q.def] \in [Types -> Defs \cup {None}]
    BY <1>1, <1>2
  <2>2. Result(d, q) = [d EXCEPT !.defs = [d.defs EXCEPT ![q.type] = q.def]]
    BY <1>1, <1>5 DEF Result
  <2> QED BY <1>3, <2>1, <2>2
<1>6. CASE q.op \in {"insert", "update"}
  <2>1. [d.docs EXCEPT ![q.type][q.id] = q.val]
          \in [Types -> [IDs -> Values \cup {None}]]
    BY <1>1, <1>2, DocsPut
  <2>2. Result(d, q) = [d EXCEPT !.docs = [d.docs EXCEPT ![q.type][q.id] = q.val]]
    BY <1>1, <1>6 DEF Result
  <2> QED BY <1>4, <2>1, <2>2
<1>7. CASE q.op = "delete"
  <2>1. [d.docs EXCEPT ![q.type][q.id] = None]
          \in [Types -> [IDs -> Values \cup {None}]]
    BY <1>1, <1>2, DocsPut
  <2>2. Result(d, q) = [d EXCEPT !.docs = [d.docs EXCEPT ![q.type][q.id] = None]]
    BY <1>1, <1>7 DEF Result
  <2> QED BY <1>4, <2>1, <2>2
<1>8. CASE q.op = "truncate"
  <2>1. [d.docs EXCEPT ![q.type] = NoDocs] \in [Types -> [IDs -> Values \cup {None}]]
    BY <1>1 DEF NoDocs
  <2>2. Result(d, q) = [d EXCEPT !.docs = [d.docs EXCEPT ![q.type] = NoDocs]]
    BY <1>1, <1>8 DEF Result
  <2> QED BY <1>4, <2>1, <2>2
<1>9. CASE q.op = "truncatedb"
  <2>1. [t \in Types |-> NoDocs] \in [Types -> [IDs -> Values \cup {None}]]
    BY DEF NoDocs
  <2>2. Result(d, q) = [d EXCEPT !.docs = [t \in Types |-> NoDocs]]
    BY <1>1, <1>9 DEF Result
  <2> QED BY <1>4, <2>1, <2>2
<1> QED BY <1>2, <1>5, <1>6, <1>7, <1>8, <1>9 DEF Ops

(* The log after one more entry. *)
LEMMA LoggedType ==
  ASSUME NEW log, IsFiniteSet(log), log \subseteq LogEntry, NEW e \in LogEntry
  PROVE  Logged(log, e) \subseteq LogEntry /\ IsFiniteSet(Logged(log, e))
<1>1. IsFiniteSet({f \in log : ~SameKey(e, f)})
  BY FS_Subset
<1> QED BY <1>1, FS_AddElement DEF Logged

(* An entry outside of transactions. *)
LEMMA EntryType ==
  ASSUME NEW q \in Operation, NEW n \in Nat
  PROVE  Entry(q, n) \in LogEntry
BY DEF Entry, LogEntry

(* A sequence is its first element and the rest. *)
LEMMA FirstAndRest ==
  ASSUME NEW S, NEW s \in Seq(S), s # <<>>
  PROVE  /\ Head(s) \in S /\ Tail(s) \in Seq(S)
         /\ Len(s) = 1 <=> Tail(s) = <<>>
         /\ ToSet(s) = {Head(s)} \cup ToSet(Tail(s))
<1> PICK n \in Nat : n = Len(s)
  OBVIOUS
<1> PICK t : t = Tail(s)
  OBVIOUS
<1>1. Head(s) \in S /\ t \in Seq(S) /\ n > 0 /\ Len(t) = n - 1
  BY EmptySeq
<1>2. n = 1 <=> t = <<>>
  <2>1. t # <<>> => n - 1 # 0
    BY <1>1, EmptySeq
  <2>2. t = <<>> => n - 1 = 0
    BY <1>1, EmptySeq
  <2> QED BY <1>1, <2>1, <2>2
<1>3. ToSet(s) = {Head(s)} \cup ToSet(t)
  <2>1. /\ DOMAIN s = 1..n /\ DOMAIN t = 1..n - 1 /\ s[1] = Head(s)
        /\ \A k \in 1..n - 1 : t[k] = s[k + 1]
    BY <1>1
  <2>2. ASSUME NEW k \in 1..n PROVE s[k] = Head(s) \/ \E l \in 1..n - 1 : s[k] = t[l]
    <3>1. k = 1 \/ (k - 1 \in 1..n - 1 /\ k - 1 + 1 = k)
      OBVIOUS
    <3> QED BY <2>1, <3>1
  <2>3. ASSUME NEW l \in 1..n - 1 PROVE \E k \in 1..n : t[l] = s[k]
    BY <2>1, l + 1 \in 1..n
  <2>4. 1 \in 1..n
    BY <1>1
  <2>5. ToSet(s) = {s[k] : k \in 1..n} /\ ToSet(t) = {t[k] : k \in 1..n - 1}
    BY <2>1 DEF ToSet
  <2>6. Head(s) \in {s[k] : k \in 1..n}
    BY <2>1, <2>4
  <2>7. {t[l] : l \in 1..n - 1} \subseteq {s[k] : k \in 1..n}
    BY <2>3
  <2>8. {s[k] : k \in 1..n} \subseteq {Head(s)} \cup {t[l] : l \in 1..n - 1}
    BY <2>2
  <2> QED BY <2>5, <2>6, <2>7, <2>8
<1> QED BY <1>1, <1>2, <1>3

-----------------------------------------------------------------------------
(* The steps keep the types. *)

(* What is assumed of the constants. *)
LEMMA WorkloadOps ==
  /\ Workload \subseteq Operation /\ TxnWorkload \subseteq Operation
  /\ Types \subseteq Nat /\ None \notin Requests /\ IsFiniteSet(Types)
BY DurabilityAssumption

(* A request: its change in memory, its number, its log entry. *)
LEMMA RequestTypes ==
  ASSUME TypeInv, NEW r \in Requests,
         \/ \E q \in Workload : Commit(r, q)
         \/ TakeSequence(r)
         \/ WriteEntry(r)
  PROVE  TypeInv'
<1> USE DEF TypeInv, TypeOK, Carried
<1>1. CASE \E q \in Workload : Commit(r, q)
  <2>1. PICK q \in Operation :
          /\ db' = Result(db, q) /\ pc' = [pc EXCEPT ![r] = "sequence"]
          /\ req' = [req EXCEPT ![r] = q]
          /\ UNCHANGED <<phase, walSequence, seqNum, txn, snapVars, todo, wal,
                         snapshot, historyVars>>
    BY <1>1, WorkloadOps DEF Commit
  <2>2. db' \in Database
    BY <2>1, ResultType
  <2> QED BY <2>1, <2>2 DEF snapVars, historyVars
<1>2. CASE TakeSequence(r)
  BY <1>2 DEF TakeSequence, snapVars, historyVars
<1>3. CASE WriteEntry(r)
  <2>1. Entry(req[r], seqNum[r]) \in LogEntry
    BY <1>3, EntryType DEF WriteEntry
  <2>2. wal' \subseteq LogEntry /\ IsFiniteSet(wal')
    BY <1>3, <2>1, LoggedType DEF WriteEntry
  <2> QED BY <1>3, <2>2 DEF WriteEntry, snapVars
<1> QED BY <1>1, <1>2, <1>3

(* A transaction. *)
LEMMA TransactionTypes ==
  ASSUME TypeInv, NEW r \in Requests,
         \/ BeginTransaction(r) \/ AbortTransaction(r) \/ CommitTransaction(r)
         \/ \E q \in TxnWorkload : AddToTransaction(r, q)
         \/ TakeTxnSequence(r) \/ WriteTxnEntry(r) \/ WriteTxnFails(r)
  PROVE  TypeInv'
<1> USE DEF TypeInv, TypeOK, Carried, MoveTxn
<1>1. CASE BeginTransaction(r)
  BY <1>1 DEF BeginTransaction, snapVars, historyVars
<1>2. CASE AbortTransaction(r)
  BY <1>2 DEF AbortTransaction, snapVars, historyVars
<1>3. CASE CommitTransaction(r)
  BY <1>3 DEF CommitTransaction, snapVars
<1>4. CASE \E q \in TxnWorkload : AddToTransaction(r, q)
  <2>1. PICK q \in TxnWorkload : AddToTransaction(r, q)
    BY <1>4
  <2>2. Append(txn[r], q) \in Seq(Operation)
    BY WorkloadOps
  <2> QED BY <2>1, <2>2 DEF AddToTransaction, snapVars, historyVars
<1>5. CASE TakeTxnSequence(r)
  BY <1>5 DEF TakeTxnSequence, snapVars, historyVars
<1>6. CASE WriteTxnEntry(r)
  <2>1. txn[r] # <<>> /\ txn[r] \in Seq(Operation)
    BY <1>6 DEF WriteTxnEntry
  <2>2. Head(txn[r]) \in Operation /\ Tail(txn[r]) \in Seq(Operation)
        /\ (Len(txn[r]) # 1 => Tail(txn[r]) # <<>>)
    BY <2>1, FirstAndRest
  <2>3. wal' \subseteq LogEntry /\ IsFiniteSet(wal')
    <3>1. [seq |-> seqNum[r], what |-> Head(txn[r]), txn |-> r,
           last |-> Len(txn[r]) = 1] \in LogEntry
      BY <2>2 DEF LogEntry
    <3> QED BY <1>6, <3>1, LoggedType DEF WriteTxnEntry
  <2>4. /\ pc' = [pc EXCEPT ![r] = IF Len(txn[r]) = 1 THEN "done" ELSE "txnsequence"]
        /\ txn' = [txn EXCEPT ![r] = Tail(txn[r])]
        /\ seqNum' = [seqNum EXCEPT ![r] = 0]
        /\ UNCHANGED <<phase, db, walSequence, req, snapVars, todo, snapshot,
                       historyVars>>
    BY <1>6 DEF WriteTxnEntry
  <2> QED BY <2>2, <2>3, <2>4 DEF snapVars, historyVars
<1>7. CASE WriteTxnFails(r)
  BY <1>7 DEF WriteTxnFails, snapVars, historyVars
<1> QED BY <1>1, <1>2, <1>3, <1>4, <1>5, <1>6, <1>7

(* A snapshot copies what is in the store. *)
LEMMA SnapshotTypes ==
  ASSUME TypeInv,
         \/ SnapshotBegin \/ SnapshotDefinition \/ SnapshotEntities
         \/ SnapshotWrite \/ SnapshotPrune \/ SnapshotPruneFails \/ SnapshotFails
         \/ CloseManager \/ Shutdown
  PROVE  TypeInv'
<1> USE Empty DEF TypeInv, TypeOK, Carried, requestVars
<1>1. ASSUME ListTypes
      PROVE  /\ snapLeft' \subseteq Types /\ snapBuf' \in Database
             /\ snapPc' = "definition"
  BY <1>1 DEF ListTypes
<1>2. CASE SnapshotBegin
  BY <1>1, <1>2 DEF SnapshotBegin, historyVars
<1>3. CASE SnapshotDefinition
  <2>1. snapBuf' \in Database
    BY <1>3 DEF SnapshotDefinition, Database
  <2> QED BY <1>3, <2>1 DEF SnapshotDefinition, historyVars
<1>4. CASE SnapshotEntities
  <2>1. snapBuf' \in Database
    BY <1>4 DEF SnapshotEntities, Database
  <2> QED BY <1>4, <2>1 DEF SnapshotEntities, historyVars
<1>5. CASE SnapshotWrite
  BY <1>5 DEF SnapshotWrite, historyVars
<1>6. CASE SnapshotPrune
  <2>1. IsFiniteSet(wal')
    BY <1>6, FS_EmptySet DEF SnapshotPrune
  <2> QED BY <1>6, <2>1 DEF SnapshotPrune, historyVars
<1>7. CASE SnapshotFails
  BY <1>7 DEF SnapshotFails, historyVars
<1>8. CASE CloseManager
  BY <1>1, <1>8 DEF CloseManager, historyVars
<1>9. CASE Shutdown
  BY <1>9 DEF Shutdown, snapVars, historyVars
<1>10. CASE SnapshotPruneFails
  BY <1>10 DEF SnapshotPruneFails, historyVars
<1> QED BY <1>2, <1>3, <1>4, <1>5, <1>6, <1>7, <1>8, <1>9, <1>10

(* The end of the process. *)
LEMMA EndTypes ==
  ASSUME TypeInv, NEW stores \in SUBSET Database, End(stores)
  PROVE  TypeInv'
BY Empty DEF TypeInv, TypeOK, Carried, End, Active

(* What recovery reads from the snapshot. *)
LEMMA SnapshotItemsType ==
  ASSUME TypeInv
  PROVE  SnapshotItems \subseteq LogEntry
<1> SUFFICES ASSUME snapshot # None, NEW e \in SnapshotItems PROVE e \in LogEntry
  BY DEF SnapshotItems
<1>0. snapshot \in Database
  BY DEF TypeInv, TypeOK
<1>1. ASSUME NEW t \in Types
      PROVE  Entry([op |-> "register", type |-> t, id |-> None, val |-> None,
                    def |-> snapshot.defs[t]], 2 * t) \in LogEntry
  <2>1. [op |-> "register", type |-> t, id |-> None, val |-> None,
         def |-> snapshot.defs[t]] \in Operation
    BY <1>0 DEF Operation, Ops, Database
  <2>2. 2 * t \in Nat
    BY WorkloadOps
  <2> QED BY <2>1, <2>2, EntryType
<1>2. ASSUME NEW t \in Types, NEW i \in IDs
      PROVE  Entry([op |-> "insert", type |-> t, id |-> i,
                    val |-> snapshot.docs[t][i], def |-> None], 2 * t + 1) \in LogEntry
  <2>1. [op |-> "insert", type |-> t, id |-> i,
         val |-> snapshot.docs[t][i], def |-> None] \in Operation
    BY <1>0 DEF Operation, Ops, Database
  <2>2. 2 * t + 1 \in Nat
    BY WorkloadOps
  <2> QED BY <2>1, <2>2, EntryType
<1> QED BY <1>1, <1>2 DEF SnapshotItems

(* A log entry is replayed as an operation. *)
LEMMA ReplayedAsType ==
  ASSUME NEW e \in LogEntry
  PROVE  /\ e.what \in Operation
         /\ ReplayedAs(e) \subseteq Operation
<1>1. e.what \in Operation
  BY DEF LogEntry
<1>2. ASSUME NEW q \in Operation, NEW t \in Types
      PROVE  [q EXCEPT !.type = t] \in Operation
  BY DEF Operation
<1>3. ASSUME NEW q \in Operation
      PROVE  [q EXCEPT !.op = "register"] \in Operation
  BY DEF Operation, Ops
<1> QED BY <1>1, <1>2, <1>3 DEF ReplayedAs

(* Replay goes through the store, which logs what has an effect. *)
LEMMA ReplayTypes ==
  ASSUME TypeInv, Replay
  PROVE  TypeInv'
<1>1. PICK e \in todo :
        /\ todo' = todo \ {e}
        /\ LET as == IF phase = "snapshot" THEN {e.what} ELSE ReplayedAs(e)
           IN  IF as = {} THEN UNCHANGED <<db, walSequence, wal>>
               ELSE \E q \in as : Redo(q)
  BY DEF Replay
<1>2. e \in LogEntry
  BY DEF TypeInv, TypeOK
<1>3. UNCHANGED <<db, walSequence, wal>> \/ \E q \in Operation : Redo(q)
  BY <1>1, <1>2, ReplayedAsType
<1>4. /\ db' \in Database /\ walSequence' \in Nat
      /\ wal' \subseteq LogEntry /\ IsFiniteSet(wal')
  <2>1. CASE UNCHANGED <<db, walSequence, wal>>
    BY <2>1 DEF TypeInv, TypeOK
  <2>2. ASSUME NEW q \in Operation, Redo(q), Effective(db, q)
        PROVE  /\ db' \in Database /\ walSequence' \in Nat
               /\ wal' \subseteq LogEntry /\ IsFiniteSet(wal')
    <3>1. walSequence + 1 \in Nat /\ db \in Database
      BY DEF TypeInv, TypeOK
    <3>2. Entry(q, walSequence + 1) \in LogEntry
      BY <3>1, EntryType
    <3> QED BY <2>2, <3>1, <3>2, LoggedType, ResultType DEF Redo, TypeInv, TypeOK
  <2> QED BY <1>3, <2>1, <2>2 DEF Redo
<1> QED BY <1>1, <1>4 DEF Replay, TypeInv, TypeOK, Carried, requestVars, snapVars

(* LoadWAL collects entries of the log, some of them renumbered. *)
LEMMA CollectTypes ==
  ASSUME TypeInv, CollectWAL
  PROVE  TypeInv'
<1> DEFINE above == 1 + Cardinality(wal) + walSequence
                     + Cardinality(UNION {1..e.seq : e \in wal})
<1>1. above \in Nat
  <2>1. ASSUME NEW s \in {1..e.seq : e \in wal} PROVE IsFiniteSet(s)
    <3>1. PICK e \in wal : s = 1..e.seq
      BY <2>1
    <3>2. e.seq \in Nat
      BY DEF TypeInv, TypeOK, LogEntry
    <3> QED BY <3>1, <3>2, FS_Interval
  <2>2. IsFiniteSet({1..e.seq : e \in wal})
    <3> DEFINE T == {1..e.seq : e \in wal}
               f == [e \in wal |-> 1..e.seq]
    <3>1. IsFiniteSet(wal)
      BY DEF TypeInv
    <3>2. f \in Surjection(wal, T)
      BY DEF Surjection
    <3> HIDE DEF T, f
    <3>3. IsFiniteSet(T)
      BY <3>1, <3>2, FS_Surjection
    <3> QED BY <3>3 DEF T
  <2>3. IsFiniteSet(UNION {1..e.seq : e \in wal})
    BY <2>1, <2>2, FS_UNION
  <2> QED BY <2>3, FS_CardinalityType DEF TypeInv, TypeOK
<1> HIDE DEF above
<1>2. PICK rank \in [CompleteTransactions -> 1..Cardinality(CompleteTransactions)] :
        todo' = {e \in wal : e.txn = None} \cup
                {[e EXCEPT !.seq = above * rank[e.txn] + e.seq] :
                   e \in {f \in wal : f.txn \in CompleteTransactions}}
  BY DEF CollectWAL, above
<1>3. ASSUME NEW e \in wal, e.txn \in CompleteTransactions
      PROVE  [e EXCEPT !.seq = above * rank[e.txn] + e.seq] \in LogEntry
  <2>1. e \in LogEntry /\ e.seq \in Nat
    BY DEF TypeInv, TypeOK, LogEntry
  <2>2. rank[e.txn] \in Nat
    BY <1>2, <1>3
  <2>3. above * rank[e.txn] + e.seq \in Nat
    BY <1>1, <2>1, <2>2
  <2> HIDE DEF above
  <2> QED BY <2>1, <2>3 DEF LogEntry
<1>4. todo' \subseteq LogEntry
  BY <1>2, <1>3 DEF TypeInv, TypeOK
<1> QED BY <1>4 DEF CollectWAL, TypeInv, TypeOK, Carried, requestVars, snapVars,
     historyVars

(* Every step keeps the types. *)
LEMMA TypeStep ==
  ASSUME TypeInv, [Next]_vars
  PROVE  TypeInv'
<1>1. CASE UNCHANGED vars
  BY <1>1 DEF vars, TypeInv, TypeOK, Carried, requestVars, snapVars, historyVars
<1>2. ASSUME NEW stores, End(stores), stores \subseteq Database PROVE TypeInv'
  BY <1>2, EndTypes
<1>3. CASE CloseStore
  <2>1. {db} \subseteq Database
    BY DEF TypeInv, TypeOK
  <2> QED BY <1>2, <1>3, <2>1 DEF CloseStore
<1>4. CASE Crash
  <2> DEFINE stores == IF phase \in {"snapshot", "wal"} THEN allowed
                       ELSE IF InFlight = {} THEN {db}
                       ELSE IF Concurrency = 1 THEN {db, answered} ELSE {}
  <2>1. stores \subseteq Database
    BY DEF TypeInv, TypeOK
  <2>2. End(stores)
    BY <1>4 DEF Crash
  <2> HIDE DEF stores
  <2> QED BY <1>2, <2>1, <2>2
<1>5. CASE Restart
  BY <1>5, SnapshotItemsType DEF Restart, TypeInv, TypeOK, Carried, requestVars,
     snapVars
<1>6. CASE Serve
  BY <1>6 DEF Serve, TypeInv, TypeOK, Carried, requestVars, snapVars
<1> QED BY <1>1, <1>3, <1>4, <1>5, <1>6, RequestTypes, TransactionTypes,
     SnapshotTypes, ReplayTypes, CollectTypes DEF Next

(* The inductive invariant of the types. *)
LEMMA TypeInductive == Spec => []TypeInv
<1>1. Init => TypeInv
  BY Empty, FS_EmptySet DEF Init, TypeInv, TypeOK, Carried
<1>2. TypeInv /\ [Next]_vars => TypeInv'
  BY TypeStep
<1> QED BY <1>1, <1>2, PTL DEF Spec

(* What is in memory, in the log, in a snapshot and in the hands of recovery
   is well-formed in every state, wherever the process ended before. *)
THEOREM TypeCorrect == Spec => []TypeOK
<1>1. TypeInv => TypeOK
  BY DEF TypeInv
<1> QED BY <1>1, TypeInductive, PTL

-----------------------------------------------------------------------------
(* The transactions. *)

(* The process is down or recovers; the log entry of r is about to be written;
   r writes the entries of a transaction. *)
Quiet == phase \in {"down", "snapshot", "wal"}
Writing(r) == pc[r] \in {"write", "txnwrite"}
Committing(r) == pc[r] \in {"txnsequence", "txnwrite"}

(* The numbers in the hands of the goroutines are all different. *)
NumbersTaken ==
  \A r \in Requests : Writing(r) =>
    /\ seqNum[r] <= walSequence
    /\ \A s \in Requests \ {r} : Writing(s) => seqNum[r] # seqNum[s]

(* Nobody has, and nobody will get, the number of an entry that belongs to a
   transaction of this process. *)
NumbersKept ==
  ~Quiet =>
    \A c \in committed, e \in wal : e.txn = c.by =>
      /\ e.seq <= walSequence
      /\ \A r \in Requests : Writing(r) => seqNum[r] # e.seq

(* A goroutine has one transaction in its life, and entries of it are in the
   log only after it began to commit. *)
Begun ==
  /\ \A e \in wal : e.txn \in Requests => Committing(e.txn) \/ pc[e.txn] = "done"
  /\ \A c \in committed :
       c.by \in Requests /\ (Committing(c.by) \/ pc[c.by] = "done")
  /\ \A c, d \in committed : c.by = d.by => c = d

(* The operations of the entries of transaction r. *)
OpsOf(entries, r) == {e.what : e \in {f \in entries : f.txn = r}}

(* Every operation of a transaction is in the log, or the goroutine still has
   it, or the last entry of the transaction was never written. *)
Parts(c) ==
  /\ OpsOf(wal, c.by) \subseteq c.ops
  /\ Committing(c.by) => /\ c.ops = OpsOf(wal, c.by) \cup ToSet(txn[c.by])
                         /\ \A e \in wal : e.txn = c.by => ~e.last
  /\ (\E e \in wal : e.txn = c.by /\ e.last) => OpsOf(wal, c.by) = c.ops

ReplayedOps(c) == {op \in c.ops : <<c.by, op>> \in replayed}

(* While the log is replayed: of a transaction nothing was or will be applied,
   or everything has been or will be. *)
Halves(c) ==
  \/ OpsOf(todo, c.by) = {} /\ ReplayedOps(c) = {}
  \/ OpsOf(todo, c.by) \cup ReplayedOps(c) = c.ops

TxnInv ==
  /\ NumbersTaken /\ NumbersKept /\ Begun
  /\ Quiet => \A r \in Requests : ~Active(r)
  /\ snapPc = "prune" => snapshot # None
  /\ snapshot = None =>
       /\ phase = "snapshot" => todo = {} /\ replayed = {}
       /\ phase # "wal" => \A c \in committed : Parts(c)
       /\ phase = "wal" => \A c \in committed : Halves(c)

(* A step of one goroutine that neither writes nor begins to commit. *)
LEMMA OwnStep ==
  ASSUME TypeInv, TypeInv', TxnInv, NEW r \in Requests,
         UNCHANGED <<phase, snapPc, todo, wal, snapshot, committed, replayed>>,
         \A s \in Requests \ {r} :
           pc'[s] = pc[s] /\ txn'[s] = txn[s] /\ seqNum'[s] = seqNum[s],
         Active(r)' => ~Quiet,
         \/ walSequence' = walSequence /\ ~Writing(r)'
         \/ walSequence' = walSequence + 1 /\ seqNum'[r] = walSequence + 1,
         Committing(r) \/ pc[r] = "done" => Committing(r)' \/ pc'[r] = "done",
         Committing(r)' => Committing(r) /\ txn'[r] = txn[r]
  PROVE  TxnInv'
<1>0. /\ walSequence \in Nat /\ walSequence' \in Nat
      /\ \A s \in Requests : seqNum[s] \in Nat /\ seqNum'[s] \in Nat
      /\ \A e \in wal : e.seq \in Nat
  BY DEF TypeInv, TypeOK, LogEntry
<1>1. \A s \in Requests \ {r} : /\ Writing(s)' <=> Writing(s)
                                /\ Committing(s)' <=> Committing(s)
                                /\ Active(s)' <=> Active(s)
  BY DEF Writing, Committing, Active
<1>2. NumbersTaken'
  BY <1>0, <1>1 DEF TxnInv, NumbersTaken
<1>3. NumbersKept'
  BY <1>0, <1>1 DEF TxnInv, NumbersKept, Quiet
<1>4. Begun'
  BY <1>1 DEF TxnInv, Begun
<1>5. (Quiet => \A s \in Requests : ~Active(s))'
  BY <1>1 DEF TxnInv, Quiet
<1>6. ASSUME NEW c \in committed, Parts(c), c.by \in Requests
      PROVE  Parts(c)'
  <2>1. Committing(c.by)' => Committing(c.by) /\ txn'[c.by] = txn[c.by]
    BY <1>1, <1>6
  <2> QED BY <1>6, <2>1 DEF Parts, OpsOf
<1>7. ASSUME NEW c \in committed, Halves(c)
      PROVE  Halves(c)'
  BY <1>7 DEF Halves, OpsOf, ReplayedOps
<1> QED BY <1>2, <1>3, <1>4, <1>5, <1>6, <1>7 DEF TxnInv, Begun

(* The steps of a request or a transaction before and between the writes. *)
LEMMA BeforeWrites ==
  ASSUME TypeInv, TypeInv', TxnInv, NEW r \in Requests,
         \/ \E q \in Workload : Commit(r, q)
         \/ \E q \in TxnWorkload : AddToTransaction(r, q)
         \/ TakeSequence(r) \/ TakeTxnSequence(r)
         \/ BeginTransaction(r) \/ AbortTransaction(r) \/ WriteTxnFails(r)
  PROVE  TxnInv'
<1> USE DEF TypeInv, TypeOK, Carried, MoveTxn, snapVars, historyVars, Admitted
<1>1. /\ UNCHANGED <<phase, snapPc, todo, wal, snapshot, committed, replayed>>
      /\ \A s \in Requests \ {r} :
           pc'[s] = pc[s] /\ txn'[s] = txn[s] /\ seqNum'[s] = seqNum[s]
  BY DEF Commit, AddToTransaction, TakeSequence, TakeTxnSequence,
     BeginTransaction, AbortTransaction, WriteTxnFails
<1>2. phase = "serving" \/ Active(r)
  BY DEF Commit, AddToTransaction, TakeSequence, TakeTxnSequence,
     BeginTransaction, AbortTransaction, WriteTxnFails, Active
<1>3. ~Quiet
  BY <1>2 DEF TxnInv, Quiet
<1>4. \/ walSequence' = walSequence /\ ~Writing(r)'
      \/ walSequence' = walSequence + 1 /\ seqNum'[r] = walSequence + 1
  BY DEF Commit, AddToTransaction, TakeSequence, TakeTxnSequence,
     BeginTransaction, AbortTransaction, WriteTxnFails, Writing
<1>5. /\ Committing(r) \/ pc[r] = "done" => Committing(r)' \/ pc'[r] = "done"
      /\ Committing(r)' => Committing(r) /\ txn'[r] = txn[r]
  BY DEF Commit, AddToTransaction, TakeSequence, TakeTxnSequence,
     BeginTransaction, AbortTransaction, WriteTxnFails, Committing
<1> QED BY <1>1, <1>3, <1>4, <1>5, OwnStep

(* The entries are taken out of currentTxns: no entry of the transaction is in
   the log. *)
LEMMA CommitTransactionKeeps ==
  ASSUME TypeInv, TypeInv', TxnInv, NEW r \in Requests, CommitTransaction(r)
  PROVE  TxnInv'
<1> DEFINE new == [by |-> r, ops |-> ToSet(txn[r])]
<1>1. /\ pc[r] = "txn" /\ pc' = [pc EXCEPT ![r] = "txnsequence"]
      /\ txn' = [txn EXCEPT ![r] = txn[r]]
      /\ committed' = committed \cup {new}
      /\ UNCHANGED <<phase, walSequence, seqNum, snapPc, todo, wal, snapshot, replayed>>
  BY DEF CommitTransaction, MoveTxn, snapVars
<1>2. /\ pc'[r] = "txnsequence" /\ txn' = txn
      /\ \A s \in Requests \ {r} : pc'[s] = pc[s]
  BY <1>1 DEF TypeInv, TypeOK, Carried
<1>3. /\ \A e \in wal : e.txn # r
      /\ \A c \in committed : c.by # r
  BY <1>1 DEF TxnInv, Begun, Committing
<1>4. ~Quiet
  BY <1>1 DEF TxnInv, Active
<1>5. NumbersTaken'
  BY <1>1, <1>2 DEF TxnInv, NumbersTaken, Writing
<1>6. NumbersKept'
  BY <1>1, <1>2, <1>3 DEF TxnInv, NumbersKept, Writing, Quiet
<1>7. Begun'
  BY <1>1, <1>2, <1>3 DEF TxnInv, Begun, Committing
<1>8. ASSUME NEW c \in committed, Parts(c)
      PROVE  Parts(c)'
  <2>1. c.by \in Requests \ {r}
    BY <1>3 DEF TxnInv, Begun
  <2> QED BY <1>1, <1>2, <1>8, <2>1 DEF Parts, OpsOf, Committing
<1>9. ASSUME NEW c, c = new
      PROVE  Parts(c)'
  <2>1. OpsOf(wal, r) = {}
    BY <1>3 DEF OpsOf
  <2> QED BY <1>1, <1>2, <1>3, <1>9, <2>1 DEF Parts, OpsOf
<1> HIDE DEF new
<1>10. ASSUME snapshot = None, phase # "wal", NEW c \in committed'
       PROVE  Parts(c)'
  <2>1. CASE c \in committed
    <3>1. Parts(c)
      BY <1>10, <2>1 DEF TxnInv
    <3> QED BY <1>8, <2>1, <3>1
  <2>2. c = new \/ c \in committed
    BY <1>1
  <2> QED BY <1>9, <2>1, <2>2
<1> QED BY <1>1, <1>4, <1>5, <1>6, <1>7, <1>10 DEF TxnInv, Quiet

(* An entry written under another number leaves those of a transaction. *)
LEMMA OthersStay ==
  ASSUME NEW log, NEW e, NEW a, \A f \in log : f.txn = a => f.seq # e.seq
  PROVE  \A f : f \in Logged(log, e) /\ f.txn = a
                <=> (f \in log /\ f.txn = a) \/ (f = e /\ e.txn = a)
BY DEF Logged, SameKey

(* The entries of a transaction decide about its parts. *)
LEMMA SameParts ==
  ASSUME NEW c, Parts(c),
         \A f : f \in wal' /\ f.txn = c.by <=> f \in wal /\ f.txn = c.by,
         Committing(c.by)' => Committing(c.by) /\ txn'[c.by] = txn[c.by]
  PROVE  Parts(c)'
<1>1. OpsOf(wal, c.by)' = OpsOf(wal, c.by)
  BY DEF OpsOf
<1> QED BY <1>1 DEF Parts

(* The log entry of a request: it replaces none of a transaction of this
   process. *)
LEMMA WriteEntryKeeps ==
  ASSUME TypeInv, TypeInv', TxnInv, NEW r \in Requests, WriteEntry(r)
  PROVE  TxnInv'
<1> DEFINE e == Entry(req[r], seqNum[r])
<1>1. /\ pc[r] = "write" /\ pc' = [pc EXCEPT ![r] = "done"]
      /\ wal' = Logged(wal, e)
      /\ UNCHANGED <<phase, walSequence, txn, snapPc, todo, snapshot, committed, replayed>>
      /\ \A s \in Requests \ {r} : seqNum'[s] = seqNum[s]
  BY DEF WriteEntry, snapVars, TypeInv, TypeOK
<1>2. /\ pc'[r] = "done" /\ \A s \in Requests \ {r} : pc'[s] = pc[s]
  BY <1>1 DEF TypeInv, TypeOK
<1>3. ~Quiet
  BY <1>1 DEF TxnInv, Active
<1>4. e.txn = None /\ e.seq = seqNum[r] /\ None \notin Requests
  BY WorkloadOps DEF Entry
<1> HIDE DEF e
<1>5. ASSUME NEW f \in wal' PROVE f \in wal \/ f = e
  BY <1>1 DEF Logged
<1>6. NumbersTaken'
  BY <1>1, <1>2 DEF TxnInv, NumbersTaken, Writing
<1>7. NumbersKept'
  BY <1>1, <1>2, <1>4, <1>5 DEF TxnInv, NumbersKept, Begun, Writing, Quiet
<1>8. Begun'
  BY <1>1, <1>2, <1>4, <1>5 DEF TxnInv, Begun, Committing
<1>9. ASSUME NEW c \in committed, Parts(c)
      PROVE  Parts(c)'
  <2>1. c.by \in Requests
    BY DEF TxnInv, Begun
  <2>2. \A f \in wal : f.txn = c.by => f.seq # e.seq
    BY <1>1, <1>3, <1>4 DEF TxnInv, NumbersKept, Writing
  <2>3. \A f : f \in wal' /\ f.txn = c.by <=> f \in wal /\ f.txn = c.by
    BY <1>1, <1>4, <2>1, <2>2, OthersStay
  <2>4. Committing(c.by)' => Committing(c.by) /\ txn'[c.by] = txn[c.by]
    BY <1>1, <1>2, <2>1 DEF Committing
  <2> QED BY <1>9, <2>3, <2>4, SameParts
<1> QED BY <1>1, <1>2, <1>3, <1>6, <1>7, <1>8, <1>9 DEF TxnInv, Quiet, Active

(* The next entry of a transaction moves one operation from the goroutine to
   the log. *)
LEMMA WriteTxnEntryKeeps ==
  ASSUME TypeInv, TypeInv', TxnInv, NEW r \in Requests, WriteTxnEntry(r)
  PROVE  TxnInv'
<1> DEFINE e == [seq |-> seqNum[r], what |-> Head(txn[r]), txn |-> r,
                 last |-> Len(txn[r]) = 1]
<1>1. /\ pc[r] = "txnwrite"
      /\ pc' = [pc EXCEPT ![r] = IF Len(txn[r]) = 1 THEN "done" ELSE "txnsequence"]
      /\ txn' = [txn EXCEPT ![r] = Tail(txn[r])]
      /\ wal' = Logged(wal, e)
      /\ UNCHANGED <<phase, walSequence, snapPc, todo, snapshot, committed, replayed>>
      /\ \A s \in Requests \ {r} : seqNum'[s] = seqNum[s]
  BY DEF WriteTxnEntry, MoveTxn, snapVars, historyVars, TypeInv, TypeOK
<1>2. /\ pc'[r] = IF Len(txn[r]) = 1 THEN "done" ELSE "txnsequence"
      /\ txn'[r] = Tail(txn[r])
      /\ \A s \in Requests \ {r} : pc'[s] = pc[s] /\ txn'[s] = txn[s]
  BY <1>1 DEF TypeInv, TypeOK, Carried
<1>3. ~Quiet
  BY <1>1 DEF TxnInv, Active
<1>4. /\ e.txn = r /\ e.seq = seqNum[r] /\ e.what = Head(txn[r])
      /\ e.last <=> Len(txn[r]) = 1
  OBVIOUS
<1> HIDE DEF e
<1>5. ASSUME NEW f \in wal' PROVE f \in wal \/ f = e
  BY <1>1 DEF Logged
<1>6. NumbersTaken'
  BY <1>1, <1>2 DEF TxnInv, NumbersTaken, Writing
<1>7. NumbersKept'
  BY <1>1, <1>2, <1>4, <1>5 DEF TxnInv, NumbersKept, NumbersTaken, Writing, Quiet
<1>8. Begun'
  BY <1>1, <1>2, <1>4, <1>5 DEF TxnInv, Begun, Committing
<1>9. ASSUME NEW c \in committed, Parts(c)
      PROVE  Parts(c)'
  <2>1. c.by \in Requests
    BY DEF TxnInv, Begun
  <2>2. \A f \in wal : f.txn = c.by => f.seq # e.seq
    BY <1>1, <1>3, <1>4 DEF TxnInv, NumbersKept, Writing
  <2>3. CASE c.by # r
    <3>1. \A f : f \in wal' /\ f.txn = c.by <=> f \in wal /\ f.txn = c.by
      <4>1. \A f : f \in Logged(wal, e) /\ f.txn = c.by
                    <=> (f \in wal /\ f.txn = c.by) \/ (f = e /\ e.txn = c.by)
        BY <2>2, OthersStay
      <4> QED BY <1>1, <1>4, <2>3, <4>1
    <3>2. Committing(c.by)' => Committing(c.by) /\ txn'[c.by] = txn[c.by]
      BY <1>2, <2>1, <2>3 DEF Committing
    <3> QED BY <1>9, <3>1, <3>2, SameParts
  <2>4. CASE c.by = r
    <3>1. \A f \in wal : f.txn = r => f.seq # e.seq
      BY <2>2, <2>4
    <3>2. \A f : f \in wal' /\ f.txn = r <=> (f \in wal /\ f.txn = r) \/ f = e
      <4>1. \A f : f \in Logged(wal, e) /\ f.txn = r
                    <=> (f \in wal /\ f.txn = r) \/ (f = e /\ e.txn = r)
        BY <3>1, OthersStay
      <4> QED BY <1>1, <1>4, <4>1
    <3>3. OpsOf(wal', r) = OpsOf(wal, r) \cup {Head(txn[r])}
      BY <1>4, <3>2 DEF OpsOf
    <3>4. Committing(r)
      BY <1>1 DEF Committing
    <3>5. c.ops = OpsOf(wal, r) \cup ToSet(txn[r]) /\ \A f \in wal : f.txn = r => ~f.last
      BY <1>9, <2>4, <3>4 DEF Parts
    <3>6. /\ Len(txn[r]) = 1 <=> Tail(txn[r]) = <<>>
          /\ ToSet(txn[r]) = {Head(txn[r])} \cup ToSet(Tail(txn[r]))
      <4>1. txn[r] # <<>> /\ txn[r] \in Seq(Operation)
        BY <3>4 DEF TypeInv, Carried, Committing
      <4> QED BY <4>1, FirstAndRest
    <3>7. c.ops = OpsOf(wal', r) \cup ToSet(txn'[r])
      BY <1>2, <3>3, <3>5, <3>6
    <3>8. Committing(r)' => Len(txn[r]) # 1
      BY <1>2 DEF Committing
    <3>9. Len(txn[r]) = 1 => ToSet(txn'[r]) = {}
      BY <1>2, <3>6 DEF ToSet
    <3>10. (\E f \in wal' : f.txn = r /\ f.last) => Len(txn[r]) = 1
      BY <1>4, <3>2, <3>5
    <3>11. OpsOf(wal, c.by)' = OpsOf(wal', r)
      BY <2>4 DEF OpsOf
    <3> QED BY <2>4, <3>7, <3>8, <3>9, <3>10, <3>11 DEF Parts
  <2> QED BY <2>3, <2>4
<1> QED BY <1>1, <1>2, <1>3, <1>6, <1>7, <1>8, <1>9 DEF TxnInv, Quiet, Active

(* A snapshot that has been written excuses from the rest. *)
LEMMA SnapshotKeeps ==
  ASSUME TypeInv, TypeInv', TxnInv,
         \/ SnapshotBegin \/ SnapshotDefinition \/ SnapshotEntities
         \/ SnapshotWrite \/ SnapshotPrune \/ SnapshotPruneFails \/ SnapshotFails
         \/ CloseManager \/ Shutdown
  PROVE  TxnInv'
<1>1. /\ UNCHANGED <<walSequence, requestVars, todo, committed, replayed>>
      /\ phase' = phase \/ (~Quiet /\ ~Quiet' /\ phase' # "snapshot" /\ phase' # "wal")
  BY DEF SnapshotBegin, SnapshotDefinition, SnapshotEntities, SnapshotWrite,
     SnapshotPrune, SnapshotPruneFails, SnapshotFails, CloseManager, Shutdown,
     historyVars, Quiet
<1>2. snapPc' = "prune" => snapshot' # None
  <2>1. CASE SnapshotWrite
    BY <2>1, NoneAssumption DEF SnapshotWrite, TypeInv, TypeOK
  <2> QED BY <2>1 DEF SnapshotBegin, SnapshotDefinition, SnapshotEntities,
       SnapshotPrune, SnapshotPruneFails,
       SnapshotFails, CloseManager, Shutdown, ListTypes, TxnInv, snapVars
<1>3. snapshot' # None \/ UNCHANGED <<wal, snapshot>>
  <2>1. CASE SnapshotWrite
    BY <2>1, NoneAssumption DEF SnapshotWrite, TypeInv, TypeOK
  <2> QED BY <2>1 DEF SnapshotBegin, SnapshotDefinition, SnapshotEntities,
       SnapshotPrune, SnapshotPruneFails,
       SnapshotFails, CloseManager, Shutdown, TxnInv
<1>4. wal' \subseteq wal
  BY DEF SnapshotBegin, SnapshotDefinition, SnapshotEntities, SnapshotWrite,
     SnapshotPrune, SnapshotPruneFails, SnapshotFails, CloseManager, Shutdown
<1>5. NumbersTaken' /\ NumbersKept' /\ Begun'
  BY <1>1, <1>4 DEF TxnInv, NumbersTaken, NumbersKept, Begun, Writing, Committing,
     Quiet, requestVars
<1>6. (Quiet => \A r \in Requests : ~Active(r))'
  BY <1>1 DEF TxnInv, Quiet, Active, requestVars
<1>7. ASSUME snapshot' = None
      PROVE  /\ phase' = "snapshot" => todo' = {} /\ replayed' = {}
             /\ phase' # "wal" => \A c \in committed : Parts(c)'
             /\ phase' = "wal" => \A c \in committed : Halves(c)'
  <2>1. UNCHANGED <<wal, snapshot>>
    BY <1>3, <1>7
  <2>2. \A c \in committed : Parts(c)' <=> Parts(c)
    BY <1>1, <2>1 DEF Parts, OpsOf, Committing, requestVars
  <2>3. \A c \in committed : Halves(c)' <=> Halves(c)
    BY <1>1 DEF Halves, OpsOf, ReplayedOps
  <2> QED BY <1>1, <1>7, <2>1, <2>2, <2>3 DEF TxnInv, Quiet
<1> QED BY <1>1, <1>2, <1>5, <1>6, <1>7 DEF TxnInv

(* The end of the process: a transaction whose last entry is not in the log
   will not be replayed. *)
LEMMA EndKeeps ==
  ASSUME TypeInv, TypeInv', TxnInv, NEW stores, End(stores)
  PROVE  TxnInv'
<1>1. /\ phase' = "down" /\ snapPc' = "idle" /\ UNCHANGED <<wal, snapshot>>
      /\ \A r \in Requests : pc'[r] = IF Active(r) THEN "done" ELSE pc[r]
      /\ committed' = IF phase \in {"snapshot", "wal"} THEN {} ELSE committed
  BY DEF End
<1>2. \A r \in Requests : ~Active(r)' /\ ~Writing(r)' /\ ~Committing(r)'
  BY <1>1 DEF Active, Writing, Committing
<1>3. NumbersTaken' /\ NumbersKept'
  BY <1>1, <1>2 DEF NumbersTaken, NumbersKept, Quiet
<1>4. \A r \in Requests : Committing(r) \/ pc[r] = "done" => pc'[r] = "done"
  BY <1>1 DEF Committing, Active
<1>5. Begun'
  BY <1>1, <1>2, <1>4 DEF TxnInv, Begun
<1>6. ASSUME snapshot = None, NEW c \in committed'
      PROVE  Parts(c)'
  <2>1. c \in committed /\ phase # "wal"
    BY <1>1
  <2>2. c.by \in Requests /\ Parts(c)
    BY <1>6, <2>1 DEF TxnInv, Begun
  <2> QED BY <1>1, <1>2, <2>2, SameParts
<1> QED BY <1>1, <1>2, <1>3, <1>5, <1>6 DEF TxnInv, Quiet

(* What recovery applies moves from `todo' to `replayed'; what it logs anew
   belongs to no transaction. *)
LEMMA ReplayKeeps ==
  ASSUME TypeInv, TypeInv', TxnInv, Replay
  PROVE  TxnInv'
<1>1. PICK e \in todo :
        /\ todo' = todo \ {e}
        /\ LET as == IF phase = "snapshot" THEN {e.what} ELSE ReplayedAs(e)
           IN  IF as = {} THEN UNCHANGED <<db, walSequence, wal>>
               ELSE \E q \in as : Redo(q)
        /\ replayed' = replayed \cup
             {<<c.by, e.what>> : c \in {d \in committed : d.by = e.txn}}
  BY DEF Replay
<1>2. /\ UNCHANGED <<phase, requestVars, snapPc, snapshot, committed>>
      /\ phase \in {"snapshot", "wal"}
  BY DEF Replay, snapVars
<1>3. UNCHANGED wal \/ \E q : wal' = Logged(wal, Entry(q, walSequence + 1))
  BY <1>1 DEF Redo
<1>4. ASSUME NEW f \in wal', f.txn \in Requests
      PROVE  f \in wal
  <2>1. ASSUME NEW q, NEW n PROVE Entry(q, n).txn = None
    BY DEF Entry
  <2> QED BY <1>3, <1>4, <2>1, WorkloadOps DEF Logged
<1>5. Quiet /\ Quiet'
  BY <1>2 DEF Quiet
<1>6. NumbersTaken' /\ NumbersKept'
  BY <1>2, <1>5 DEF TxnInv, NumbersTaken, NumbersKept, Writing, Active, requestVars
<1>7. Begun'
  BY <1>2, <1>4 DEF TxnInv, Begun, Committing, requestVars
<1>8. ASSUME NEW c \in committed, Halves(c)
      PROVE  Halves(c)'
  <2>1. CASE e.txn = c.by
    <3>1. e.what \in OpsOf(todo, c.by)
      BY <2>1 DEF OpsOf
    <3>2. OpsOf(todo, c.by) \cup ReplayedOps(c) = c.ops
      BY <1>8, <3>1 DEF Halves
    <3>3. <<c.by, e.what>> \in replayed'
      BY <1>1, <2>1
    <3>4. e.what \in ReplayedOps(c)'
      BY <3>1, <3>2, <3>3 DEF ReplayedOps
    <3>5. OpsOf(todo, c.by) \subseteq OpsOf(todo', c.by) \cup {e.what}
      BY <1>1 DEF OpsOf
    <3>6. OpsOf(todo', c.by) \subseteq OpsOf(todo, c.by)
      BY <1>1 DEF OpsOf
    <3>7. ReplayedOps(c) \subseteq ReplayedOps(c)' /\ ReplayedOps(c)' \subseteq c.ops
      BY <1>1 DEF ReplayedOps
    <3>8. OpsOf(todo, c.by)' = OpsOf(todo', c.by)
      BY DEF OpsOf
    <3> QED BY <3>2, <3>4, <3>5, <3>6, <3>7, <3>8 DEF Halves
  <2>2. CASE e.txn # c.by
    <3>1. OpsOf(todo, c.by)' = OpsOf(todo, c.by)
      BY <1>1, <2>2 DEF OpsOf
    <3>2. \A op : <<c.by, op>> \in replayed' <=> <<c.by, op>> \in replayed
      BY <1>1, <2>2
    <3>3. ReplayedOps(c)' = ReplayedOps(c)
      BY <3>2 DEF ReplayedOps
    <3> QED BY <1>8, <3>1, <3>3 DEF Halves
  <2> QED BY <2>1, <2>2
<1>9. snapshot = None => phase = "wal"
  BY <1>1, <1>2 DEF TxnInv
<1>10. (Quiet => \A r \in Requests : ~Active(r))'
  BY <1>2, <1>5 DEF TxnInv, Active, requestVars
<1> QED BY <1>2, <1>6, <1>7, <1>8, <1>9, <1>10 DEF TxnInv

(* LoadWAL takes all entries of a transaction, or none. *)
LEMMA CollectKeeps ==
  ASSUME TypeInv, TypeInv', TxnInv, CollectWAL
  PROVE  TxnInv'
<1>1. /\ phase = "snapshot" /\ phase' = "wal"
      /\ UNCHANGED <<walSequence, requestVars, snapPc, wal, snapshot, committed, replayed>>
  BY DEF CollectWAL, snapVars, historyVars
<1> DEFINE above == 1 + Cardinality(wal) + walSequence
                     + Cardinality(UNION {1..e.seq : e \in wal})
<1>2. PICK n \in [CompleteTransactions -> 1..Cardinality(CompleteTransactions)] :
        todo' = {e \in wal : e.txn = None} \cup
                {[e EXCEPT !.seq = above * n[e.txn] + e.seq] :
                   e \in {f \in wal : f.txn \in CompleteTransactions}}
  BY DEF CollectWAL, above
<1> HIDE DEF above
<1>3. ASSUME NEW c \in committed, Parts(c), replayed = {}
      PROVE  Halves(c)'
  <2>1. c.by \in Requests /\ c.by # None
    BY WorkloadOps DEF TxnInv, Begun
  <2>2. OpsOf(todo', c.by) = IF c.by \in CompleteTransactions THEN OpsOf(wal, c.by) ELSE {}
    <3>2. ASSUME NEW e \in wal, NEW m
          PROVE  [e EXCEPT !.seq = m].txn = e.txn /\ [e EXCEPT !.seq = m].what = e.what
      BY DEF TypeInv, TypeOK, LogEntry
    <3>3. ASSUME NEW g \in todo', g.txn = c.by
          PROVE  \E f \in wal : /\ f.txn = c.by /\ f.txn \in CompleteTransactions
                                /\ g.what = f.what
      <4>1. \/ g \in wal /\ g.txn = None
            \/ \E f \in wal : /\ f.txn \in CompleteTransactions
                              /\ g = [f EXCEPT !.seq = above * n[f.txn] + f.seq]
        BY <1>2
      <4>2. PICK f \in wal : /\ f.txn \in CompleteTransactions
                             /\ g = [f EXCEPT !.seq = above * n[f.txn] + f.seq]
        BY <2>1, <3>3, <4>1
      <4>3. g.txn = f.txn /\ g.what = f.what
        BY <3>2, <4>2
      <4> QED BY <3>3, <4>2, <4>3
    <3>4. ASSUME NEW f \in wal, f.txn = c.by, f.txn \in CompleteTransactions
          PROVE  \E g \in todo' : g.txn = c.by /\ g.what = f.what
      <4>1. [f EXCEPT !.seq = above * n[f.txn] + f.seq] \in todo'
        BY <1>2, <3>4
      <4>2. /\ [f EXCEPT !.seq = above * n[f.txn] + f.seq].txn = c.by
            /\ [f EXCEPT !.seq = above * n[f.txn] + f.seq].what = f.what
        BY <3>2, <3>4
      <4> QED BY <4>1, <4>2
    <3> QED BY <3>3, <3>4 DEF OpsOf
  <2>3. c.by \in CompleteTransactions => OpsOf(wal, c.by) = c.ops
    BY <1>3 DEF Parts, CompleteTransactions
  <2>4. ReplayedOps(c)' = {}
    BY <1>1, <1>3 DEF ReplayedOps
  <2>5. OpsOf(todo, c.by)' = OpsOf(todo', c.by)
    BY DEF OpsOf
  <2> QED BY <2>2, <2>3, <2>4, <2>5 DEF Halves
<1>4. Quiet /\ Quiet'
  BY <1>1 DEF Quiet
<1>5. NumbersTaken' /\ NumbersKept' /\ Begun'
  BY <1>1, <1>4 DEF TxnInv, NumbersTaken, NumbersKept, Begun, Writing, Committing,
     requestVars
<1>6. (Quiet => \A r \in Requests : ~Active(r))'
  BY <1>1, <1>4 DEF TxnInv, Active, requestVars
<1> QED BY <1>1, <1>3, <1>5, <1>6 DEF TxnInv

(* Every step keeps the invariant. *)
LEMMA TxnStep ==
  ASSUME TypeInv, TypeInv', TxnInv, [Next]_vars
  PROVE  TxnInv'
<1>1. CASE UNCHANGED vars
  <2>1. UNCHANGED <<phase, walSequence, pc, seqNum, txn, snapPc, todo, wal, snapshot,
                    committed, replayed>>
    BY <1>1 DEF vars, requestVars, snapVars, historyVars
  <2>2. NumbersTaken' /\ NumbersKept' /\ Begun'
    BY <2>1 DEF TxnInv, NumbersTaken, NumbersKept, Begun, Writing, Committing, Quiet
  <2>3. \A c \in committed : (Parts(c)' <=> Parts(c)) /\ (Halves(c)' <=> Halves(c))
    BY <2>1 DEF Parts, Halves, OpsOf, ReplayedOps, Committing
  <2> QED BY <2>1, <2>2, <2>3 DEF TxnInv, Quiet, Active
<1>2. CASE CloseStore \/ Crash
  BY <1>2, EndKeeps DEF CloseStore, Crash
<1>3. CASE Restart
  <2>1. /\ phase = "down" /\ phase' = "snapshot"
        /\ snapshot = None => todo' = {} /\ replayed' = {}
        /\ UNCHANGED <<walSequence, pc, seqNum, txn, snapPc, wal, snapshot, committed>>
    BY <1>3 DEF Restart, SnapshotItems, requestVars, snapVars
  <2>2. NumbersTaken' /\ NumbersKept' /\ Begun'
    BY <2>1 DEF TxnInv, NumbersTaken, NumbersKept, Begun, Writing, Committing, Quiet
  <2>3. \A c \in committed : Parts(c)' <=> Parts(c)
    BY <2>1 DEF Parts, OpsOf, Committing
  <2> QED BY <2>1, <2>2, <2>3 DEF TxnInv, Quiet, Active
<1>4. CASE Serve
  <2>1. /\ phase = "wal" /\ phase' = "serving" /\ committed' = {}
        /\ UNCHANGED <<walSequence, pc, seqNum, txn, snapPc, wal, snapshot>>
    BY <1>4 DEF Serve, requestVars, snapVars
  <2>2. NumbersTaken' /\ NumbersKept' /\ Begun'
    BY <2>1 DEF TxnInv, NumbersTaken, NumbersKept, Begun, Writing, Committing, Quiet
  <2> QED BY <2>1, <2>2 DEF TxnInv, Quiet, Active
<1> QED BY <1>1, <1>2, <1>3, <1>4, BeforeWrites, CommitTransactionKeeps, WriteEntryKeeps,
     WriteTxnEntryKeeps, SnapshotKeeps, ReplayKeeps, CollectKeeps DEF Next

(* Both invariants together. *)
LEMMA TxnInductive == Spec => [](TypeInv /\ TxnInv)
<1>1. Init => TxnInv
  BY DEF Init, TxnInv, NumbersTaken, NumbersKept, Begun, Writing, Quiet
<1>2. TypeInv /\ TxnInv /\ TypeInv' /\ [Next]_vars => TxnInv'
  BY TxnStep
<1> QED BY <1>1, <1>2, TypeInductive, PTL DEF Spec

(* Wherever the process ended while the transactions were written, and whatever
   the other requests wrote in between: the recovery applies all operations of
   a transaction or none. *)
THEOREM TransactionsWhole == Spec => []TransactionsAtomic
<1>1. TxnInv => TransactionsAtomic
  <2> SUFFICES ASSUME TxnInv, phase = "wal", todo = {}, snapshot = None,
                      NEW c \in committed
               PROVE  ReplayedOps(c) = {} \/ ReplayedOps(c) = c.ops
    BY DEF TransactionsAtomic, ReplayedOps
  <2>1. Halves(c) /\ OpsOf(todo, c.by) = {}
    BY DEF TxnInv, OpsOf
  <2> QED BY <2>1 DEF Halves
<1> QED BY <1>1, TxnInductive, PTL

-----------------------------------------------------------------------------
(* The sequence numbers of the first process. *)

FirstInv ==
  /\ crashes \in Nat
  /\ crashes = 0 =>
       /\ ~Quiet
       /\ \A e \in wal : /\ e.seq <= walSequence
                         /\ \A r \in Requests : Writing(r) => seqNum[r] # e.seq
       /\ \A e, f \in wal : e.seq = f.seq => e = f

(* A number is taken, or a log entry written under a number that was taken. *)
LEMMA FirstNumbers ==
  ASSUME TypeInv, TypeInv', TxnInv, FirstInv, NEW r \in Requests,
         UNCHANGED <<phase, crashes>>,
         \A s \in Requests \ {r} : pc'[s] = pc[s] /\ seqNum'[s] = seqNum[s],
         \/ /\ wal' = wal
            /\ \/ walSequence' = walSequence /\ ~Writing(r)'
               \/ walSequence' = walSequence + 1 /\ seqNum'[r] = walSequence + 1
         \/ /\ walSequence' = walSequence /\ Writing(r) /\ ~Writing(r)'
            /\ \E e : e.seq = seqNum[r] /\ wal' = Logged(wal, e)
  PROVE  FirstInv'
<1> SUFFICES ASSUME crashes = 0
             PROVE  /\ ~Quiet'
                    /\ \A e \in wal' :
                         /\ e.seq <= walSequence'
                         /\ \A s \in Requests : Writing(s)' => seqNum'[s] # e.seq
                    /\ \A e, f \in wal' : e.seq = f.seq => e = f
  BY DEF FirstInv
<1>0. /\ walSequence \in Nat /\ walSequence' \in Nat
      /\ \A s \in Requests : seqNum[s] \in Nat
      /\ \A e \in wal : e.seq \in Nat
  BY DEF TypeInv, TypeOK, LogEntry
<1>1. \A s \in Requests \ {r} : Writing(s)' => Writing(s)
  BY DEF Writing
<1>2. ~Quiet'
  BY DEF FirstInv, Quiet
<1>3. CASE wal' = wal
  BY <1>0, <1>1, <1>2, <1>3 DEF FirstInv, TxnInv, NumbersTaken
<1>4. ASSUME walSequence' = walSequence, Writing(r), ~Writing(r)', NEW e, e.seq = seqNum[r],
             wal' = Logged(wal, e)
      PROVE  /\ \A f \in wal' :
                  /\ f.seq <= walSequence'
                  /\ \A s \in Requests : Writing(s)' => seqNum'[s] # f.seq
             /\ \A f, g \in wal' : f.seq = g.seq => f = g
  <2>1. \A f \in wal' : f = e \/ (f \in wal /\ f.seq # e.seq)
    BY <1>4 DEF Logged, FirstInv
  <2>2. \A s \in Requests \ {r} : Writing(s) => seqNum[s] # e.seq
    BY <1>4 DEF TxnInv, NumbersTaken
  <2>3. e.seq <= walSequence
    BY <1>4 DEF TxnInv, NumbersTaken
  <2> QED BY <1>1, <1>4, <2>1, <2>2, <2>3 DEF FirstInv
<1> QED BY <1>2, <1>3, <1>4

(* Every step keeps it. *)
LEMMA FirstStep ==
  ASSUME TypeInv, TypeInv', TxnInv, FirstInv, [Next]_vars
  PROVE  FirstInv'
<1>1. ASSUME NEW r \in Requests,
             \/ \E q \in Workload : Commit(r, q)
             \/ \E q \in TxnWorkload : AddToTransaction(r, q)
             \/ TakeSequence(r) \/ TakeTxnSequence(r) \/ CommitTransaction(r)
             \/ BeginTransaction(r) \/ AbortTransaction(r) \/ WriteTxnFails(r)
      PROVE  FirstInv'
  <2> USE DEF TypeInv, TypeOK, Carried, MoveTxn, snapVars, historyVars
  <2>1. /\ UNCHANGED <<phase, crashes, wal>>
        /\ \A s \in Requests \ {r} : pc'[s] = pc[s] /\ seqNum'[s] = seqNum[s]
    BY <1>1 DEF Commit, AddToTransaction, TakeSequence, TakeTxnSequence, CommitTransaction,
       BeginTransaction, AbortTransaction, WriteTxnFails
  <2>2. \/ walSequence' = walSequence /\ ~Writing(r)'
        \/ walSequence' = walSequence + 1 /\ seqNum'[r] = walSequence + 1
    BY <1>1 DEF Commit, AddToTransaction, TakeSequence, TakeTxnSequence, CommitTransaction,
       BeginTransaction, AbortTransaction, WriteTxnFails, Writing
  <2> QED BY <2>1, <2>2, FirstNumbers
<1>2. ASSUME NEW r \in Requests, WriteEntry(r)
      PROVE  FirstInv'
  <2>1. Entry(req[r], seqNum[r]).seq = seqNum[r]
    BY DEF Entry
  <2>2. /\ UNCHANGED <<phase, crashes, walSequence>>
        /\ \A s \in Requests \ {r} : pc'[s] = pc[s] /\ seqNum'[s] = seqNum[s]
        /\ Writing(r) /\ ~Writing(r)'
        /\ \E e : e.seq = seqNum[r] /\ wal' = Logged(wal, e)
    BY <1>2, <2>1 DEF WriteEntry, Writing, TypeInv, TypeOK
  <2> QED BY <2>2, FirstNumbers
<1>3. ASSUME NEW r \in Requests, WriteTxnEntry(r)
      PROVE  FirstInv'
  <2>1. /\ UNCHANGED <<phase, crashes, walSequence>>
        /\ \A s \in Requests \ {r} : pc'[s] = pc[s] /\ seqNum'[s] = seqNum[s]
        /\ Writing(r) /\ ~Writing(r)'
        /\ \E e : e.seq = seqNum[r] /\ wal' = Logged(wal, e)
    BY <1>3 DEF WriteTxnEntry, MoveTxn, Writing, TypeInv, TypeOK, historyVars
  <2> QED BY <2>1, FirstNumbers
<1>4. ASSUME UNCHANGED <<walSequence, pc, seqNum, crashes>>, wal' \subseteq wal,
             Quiet' => Quiet
      PROVE  FirstInv'
  BY <1>4 DEF FirstInv, Writing
<1>5. CASE \/ SnapshotBegin \/ SnapshotDefinition \/ SnapshotEntities
           \/ SnapshotWrite \/ SnapshotPrune \/ SnapshotPruneFails
           \/ SnapshotFails \/ CloseManager \/ Shutdown \/ UNCHANGED vars
  <2>1. /\ UNCHANGED <<walSequence, pc, seqNum, crashes>> /\ wal' \subseteq wal
        /\ Quiet' => Quiet
    BY <1>5 DEF SnapshotBegin, SnapshotDefinition, SnapshotEntities, SnapshotWrite,
       SnapshotPrune, SnapshotPruneFails, SnapshotFails, CloseManager, Shutdown,
       historyVars, requestVars, vars, Quiet
  <2> QED BY <1>4, <2>1
<1>6. CASE CloseStore \/ Crash
  BY <1>6 DEF CloseStore, Crash, End, FirstInv
<1>7. CASE Restart \/ Replay \/ CollectWAL \/ Serve
  BY <1>7 DEF Restart, Replay, CollectWAL, Serve, FirstInv, Quiet, historyVars
<1> QED BY <1>1, <1>2, <1>3, <1>5, <1>6, <1>7 DEF Next

-----------------------------------------------------------------------------
(* What a snapshot holds, and how it is built up again.  A place is a
   definition (no ID) or an entity. *)

Places(d) ==
  {<<t, None>> : t \in {u \in Types : d.defs[u] # None}}
    \cup {p \in Types \X IDs : Has(d, p[1], p[2])}

Size(d) == Cardinality(Places(d))

(* A store that can be: an entity has a type. *)
Sound(d) ==
  /\ d \in Database /\ IsFiniteSet(Places(d))
  /\ \A t \in Types : \A i \in IDs : Has(d, t, i) => d.defs[t] # None

(* What recovery reads at a place. *)
Item(d, p) ==
  IF p[2] = None
    THEN Entry([op |-> "register", type |-> p[1], id |-> None, val |-> None,
                def |-> d.defs[p[1]]], 2 * p[1])
    ELSE Entry([op |-> "insert", type |-> p[1], id |-> p[2],
                val |-> d.docs[p[1]][p[2]], def |-> None], 2 * p[1] + 1)

(* The store `base' without what is still missing. *)
Partial(d, base, missing) ==
  /\ d \in Database
  /\ \A t \in Types :
       /\ d.defs[t] = IF <<t, None>> \in missing THEN None ELSE base.defs[t]
       /\ \A i \in IDs :
            d.docs[t][i] = IF <<t, i>> \in missing THEN None ELSE base.docs[t][i]

(* Which places a store has. *)
LEMMA PlaceIn ==
  ASSUME NEW d
  PROVE  /\ \A t \in Types : <<t, None>> \in Places(d) <=> d.defs[t] # None
         /\ \A t \in Types : \A i \in IDs : <<t, i>> \in Places(d) <=> Has(d, t, i)
         /\ \A p \in Places(d) : /\ p = <<p[1], p[2]>> /\ p[1] \in Types
                                 /\ p[2] \in IDs \cup {None}
<1>1. None \notin IDs
  BY DurabilityAssumption
<1> QED BY <1>1 DEF Places

(* Two stores with the same definitions and entities are the same. *)
LEMMA SameStore ==
  ASSUME NEW d \in Database, NEW e \in Database,
         \A t \in Types : d.defs[t] = e.defs[t] /\ \A i \in IDs : d.docs[t][i] = e.docs[t][i]
  PROVE  d = e
<1>1. /\ d = [defs |-> d.defs, docs |-> d.docs] /\ e = [defs |-> e.defs, docs |-> e.docs]
      /\ d.defs \in [Types -> Defs \cup {None}] /\ e.defs \in [Types -> Defs \cup {None}]
      /\ d.docs \in [Types -> [IDs -> Values \cup {None}]]
      /\ e.docs \in [Types -> [IDs -> Values \cup {None}]]
  BY DEF Database
<1>2. d.defs = e.defs
  BY <1>1
<1>3. \A t \in Types : d.docs[t] = e.docs[t]
  BY <1>1
<1>4. d.docs = e.docs
  BY <1>1, <1>3
<1> QED BY <1>1, <1>2, <1>4

(* The empty store has nothing to read. *)
LEMMA EmptySound == Sound(EmptyDB) /\ Places(EmptyDB) = {} /\ Size(EmptyDB) = 0
<1>1. Places(EmptyDB) = {}
  BY DEF Places, EmptyDB, NoDocs, Has
<1> QED BY <1>1, Empty, FS_EmptySet DEF Sound, Size, EmptyDB, NoDocs, Has

(* A store with nothing to read is the empty one. *)
LEMMA NothingLeft ==
  ASSUME NEW d, Sound(d), Places(d) = {}
  PROVE  d = EmptyDB
<1>1. \A t \in Types : d.defs[t] = None /\ \A i \in IDs : d.docs[t][i] = None
  BY PlaceIn DEF Has
<1> QED BY <1>1, Empty, SameStore DEF Sound, EmptyDB, NoDocs

(* An operation adds at most one place, and an entity keeps its type. *)
LEMMA ResultSound ==
  ASSUME NEW d, Sound(d), NEW q \in Operation, Named(q), Effective(d, q)
  PROVE  Sound(Result(d, q)) /\ Size(Result(d, q)) \in Nat
         /\ Size(d) \in Nat /\ Size(Result(d, q)) <= Size(d) + 1
<1> PICK e : e = Result(d, q)
  OBVIOUS
<1>1. /\ d.defs \in [Types -> Defs \cup {None}]
      /\ d.docs \in [Types -> [IDs -> Values \cup {None}]]
      /\ d \in Database
  BY DEF Sound, Database
<1>2. e \in Database /\ q.op \in Ops
  BY <1>1, ResultType DEF Operation
<1>3. None \notin Defs /\ None \notin Values
  BY DurabilityAssumption
<1>4. \E x : /\ Places(e) \subseteq Places(d) \cup {x}
             /\ \A t \in Types : \A i \in IDs : Has(e, t, i) => e.defs[t] # None
  <2>1. ASSUME NEW x,
               \A t \in Types :
                 /\ e.defs[t] # None => d.defs[t] # None \/ x = <<t, None>>
                 /\ \A i \in IDs : Has(e, t, i) => Has(d, t, i) \/ x = <<t, i>>
        PROVE  Places(e) \subseteq Places(d) \cup {x}
    <3> SUFFICES ASSUME NEW p \in Places(e) PROVE p \in Places(d) \/ p = x
      OBVIOUS
    <3>1. p = <<p[1], p[2]>> /\ p[1] \in Types /\ p[2] \in IDs \cup {None}
      BY PlaceIn
    <3>2. CASE p[2] = None
      <4>1. e.defs[p[1]] # None
        BY <3>1, <3>2, PlaceIn
      <4> QED BY <2>1, <3>1, <3>2, <4>1, PlaceIn
    <3>3. CASE p[2] \in IDs
      <4>1. Has(e, p[1], p[2])
        BY <3>1, <3>3, PlaceIn
      <4> QED BY <2>1, <3>1, <3>3, <4>1, PlaceIn
    <3> QED BY <3>1, <3>2, <3>3
  <2>2. CASE q.op \in {"register", "updatetype"}
    <3>1. e = [d EXCEPT !.defs[q.type] = q.def] /\ q.type \in Types /\ q.def \in Defs
      BY <2>2 DEF Result, Named
    <3>2. /\ e.docs = d.docs /\ e.defs[q.type] # None
          /\ \A t \in Types \ {q.type} : e.defs[t] = d.defs[t]
      BY <1>1, <1>3, <3>1
    <3> QED BY <2>1, <3>2 DEF Has, Sound
  <2>3. CASE q.op \in {"insert", "update", "delete"}
    <3>1. q.type \in Types /\ q.id \in IDs
      BY <2>3 DEF Named
    <3>2. d.defs[q.type] # None
      BY <2>3, <3>1 DEF Effective, Sound
    <3>3. PICK v : e = [d EXCEPT !.docs[q.type][q.id] = v]
      BY <2>3 DEF Result
    <3>4. /\ e.defs = d.defs
          /\ \A t \in Types : \A i \in IDs :
               t # q.type \/ i # q.id => e.docs[t][i] = d.docs[t][i]
      BY <1>1, <3>1, <3>3
    <3>5. \A t \in Types : \A i \in IDs :
            Has(e, t, i) => Has(d, t, i) \/ <<q.type, q.id>> = <<t, i>>
      BY <3>4 DEF Has
    <3>6. Places(e) \subseteq Places(d) \cup {<<q.type, q.id>>}
      BY <2>1, <3>4, <3>5
    <3>7. \A t \in Types : \A i \in IDs : Has(e, t, i) => e.defs[t] # None
      BY <3>2, <3>4, <3>5 DEF Sound
    <3> QED BY <3>6, <3>7
  <2>4. CASE q.op = "truncate"
    <3>1. e = [d EXCEPT !.docs[q.type] = NoDocs]
      BY <2>4 DEF Result
    <3>2. /\ e.defs = d.defs
          /\ \A t \in Types : \A i \in IDs : e.docs[t][i] # None => e.docs[t][i] = d.docs[t][i]
      BY <1>1, <3>1 DEF NoDocs
    <3> QED BY <2>1, <3>2 DEF Has, Sound
  <2>5. CASE q.op = "truncatedb"
    <3>1. e = [d EXCEPT !.docs = [t \in Types |-> NoDocs]]
      BY <2>5 DEF Result
    <3>2. e.defs = d.defs /\ \A t \in Types : \A i \in IDs : e.docs[t][i] = None
      BY <1>1, <3>1 DEF NoDocs
    <3> QED BY <2>1, <3>2 DEF Has
  <2> QED BY <1>2, <2>2, <2>3, <2>4, <2>5 DEF Ops
<1>5. PICK x : Places(e) \subseteq Places(d) \cup {x}
  BY <1>4
<1>6. /\ IsFiniteSet(Places(d) \cup {x}) /\ Size(d) \in Nat
      /\ Cardinality(Places(d) \cup {x}) \in Nat
      /\ Cardinality(Places(d) \cup {x}) <= Size(d) + 1
  <2>1. IsFiniteSet(Places(d)) /\ Size(d) \in Nat
    BY FS_CardinalityType DEF Sound, Size
  <2>2. /\ IsFiniteSet(Places(d) \cup {x})
        /\ \/ Cardinality(Places(d) \cup {x}) = Size(d)
           \/ Cardinality(Places(d) \cup {x}) = Size(d) + 1
    BY <2>1, FS_AddElement DEF Size
  <2> QED BY <2>1, <2>2
<1>7. IsFiniteSet(Places(e)) /\ Size(e) <= Size(d) + 1 /\ Size(e) \in Nat
  BY <1>5, <1>6, FS_Subset, FS_CardinalityType DEF Size
<1> QED BY <1>2, <1>4, <1>6, <1>7 DEF Sound

(* An item stands for its place. *)
LEMMA ItemIs ==
  ASSUME NEW d, Sound(d), NEW p \in Places(d)
  PROVE  /\ Item(d, p).what \in Operation /\ Named(Item(d, p).what)
         /\ Item(d, p).what.type = p[1] /\ Item(d, p).what.id = p[2]
         /\ p[2] = None => /\ Item(d, p).what.op = "register" /\ Item(d, p).seq = 2 * p[1]
                           /\ Item(d, p).what.def = d.defs[p[1]]
         /\ p[2] # None => /\ Item(d, p).what.op = "insert" /\ Item(d, p).seq = 2 * p[1] + 1
                           /\ Item(d, p).what.val = d.docs[p[1]][p[2]]
<1>1. /\ d.defs \in [Types -> Defs \cup {None}]
      /\ d.docs \in [Types -> [IDs -> Values \cup {None}]]
  BY DEF Sound, Database
<1>2. p = <<p[1], p[2]>> /\ p[1] \in Types /\ p[2] \in IDs \cup {None}
  BY PlaceIn
<1>3. CASE p[2] = None
  <2>1. d.defs[p[1]] \in Defs
    BY <1>1, <1>2, <1>3, PlaceIn
  <2> QED BY <1>2, <1>3, <2>1 DEF Item, Entry, Operation, Ops, Named
<1>4. CASE p[2] # None
  <2>1. d.docs[p[1]][p[2]] \in Values
    BY <1>1, <1>2, <1>4, PlaceIn DEF Has
  <2> QED BY <1>2, <1>4, <2>1 DEF Item, Entry, Operation, Ops, Named
<1> QED BY <1>3, <1>4

(* The items of a store are told apart by their places. *)
LEMMA ItemsDiffer ==
  ASSUME NEW d, Sound(d), NEW p \in Places(d), NEW q \in Places(d), Item(d, p) = Item(d, q)
  PROVE  p = q
<1>1. p = <<p[1], p[2]>> /\ q = <<q[1], q[2]>>
  BY PlaceIn
<1>2. p[1] = q[1] /\ p[2] = q[2]
  BY ItemIs
<1> QED BY <1>1, <1>2

(* An item has the effect that its place is no longer missing, if the type is
   there. *)
LEMMA ItemRebuilds ==
  ASSUME NEW base, Sound(base), NEW missing \in SUBSET Places(base), NEW d,
         Partial(d, base, missing), NEW p \in missing,
         p[2] # None => <<p[1], None>> \notin missing
  PROVE  /\ Effective(d, Item(base, p).what)
         /\ Partial(Result(d, Item(base, p).what), base, missing \ {p})
<1> PICK q : q = Item(base, p).what
  OBVIOUS
<1> PICK e : e = Result(d, q)
  OBVIOUS
<1>1. /\ d.defs \in [Types -> Defs \cup {None}]
      /\ d.docs \in [Types -> [IDs -> Values \cup {None}]]
      /\ d \in Database
  BY DEF Partial, Database
<1>2. p \in Places(base) /\ p = <<p[1], p[2]>> /\ p[1] \in Types /\ p[2] \in IDs \cup {None}
  BY PlaceIn
<1>3. /\ q \in Operation /\ q.type = p[1] /\ q.id = p[2]
      /\ p[2] = None => q.op = "register" /\ q.def = base.defs[p[1]]
      /\ p[2] # None => q.op = "insert" /\ q.val = base.docs[p[1]][p[2]]
  BY <1>2, ItemIs
<1>4. e \in Database
  BY <1>1, <1>3, ResultType
<1>5. CASE p[2] = None
  <2>1. d.defs[p[1]] = None
    BY <1>2, <1>5 DEF Partial
  <2>2. Effective(d, q)
    BY <1>3, <1>5, <2>1 DEF Effective
  <2>3. e = [d EXCEPT !.defs[p[1]] = base.defs[p[1]]]
    BY <1>3, <1>5 DEF Result
  <2>4. /\ e.docs = d.docs /\ e.defs[p[1]] = base.defs[p[1]]
        /\ \A t \in Types : t # p[1] => e.defs[t] = d.defs[t]
    BY <1>1, <1>2, <2>3
  <2>5. None \notin IDs
    BY DurabilityAssumption
  <2>6. ASSUME NEW t \in Types
        PROVE  /\ e.defs[t] = IF <<t, None>> \in missing \ {p} THEN None ELSE base.defs[t]
               /\ \A i \in IDs : e.docs[t][i] =
                    IF <<t, i>> \in missing \ {p} THEN None ELSE base.docs[t][i]
    <3>1. \A i \in IDs : <<t, i>> # p
      BY <1>2, <1>5, <2>5
    <3>2. t = p[1] <=> <<t, None>> = p
      BY <1>2, <1>5
    <3> QED BY <2>4, <3>1, <3>2 DEF Partial
  <2> QED BY <1>4, <2>2, <2>6 DEF Partial
<1>6. CASE p[2] # None
  <2>1. d.docs[p[1]][p[2]] = None /\ p[2] \in IDs
    BY <1>2, <1>6 DEF Partial
  <2>2. Has(base, p[1], p[2])
    BY <1>2, <2>1, PlaceIn
  <2>3. d.defs[p[1]] # None
    BY <1>2, <1>6, <2>1, <2>2 DEF Partial, Sound
  <2>4. Effective(d, q)
    BY <1>3, <1>6, <2>1, <2>3 DEF Effective, Has
  <2>5. e = [d EXCEPT !.docs[p[1]][p[2]] = base.docs[p[1]][p[2]]]
    BY <1>3, <1>6 DEF Result
  <2>6. /\ e.defs = d.defs /\ e.docs[p[1]][p[2]] = base.docs[p[1]][p[2]]
        /\ \A t \in Types : \A i \in IDs :
             t # p[1] \/ i # p[2] => e.docs[t][i] = d.docs[t][i]
    BY <1>1, <1>2, <2>1, <2>5
  <2>7. ASSUME NEW t \in Types
        PROVE  /\ e.defs[t] = IF <<t, None>> \in missing \ {p} THEN None ELSE base.defs[t]
               /\ \A i \in IDs : e.docs[t][i] =
                    IF <<t, i>> \in missing \ {p} THEN None ELSE base.docs[t][i]
    <3>1. <<t, None>> # p
      BY <1>2, <1>6
    <3>2. \A i \in IDs : <<t, i>> = p <=> t = p[1] /\ i = p[2]
      BY <1>2
    <3> QED BY <2>6, <3>1, <3>2 DEF Partial
  <2> QED BY <1>4, <2>4, <2>7 DEF Partial
<1> QED BY <1>5, <1>6

(* All of it is missing, or nothing. *)
LEMMA PartialEnds ==
  ASSUME NEW base, Sound(base)
  PROVE  /\ Partial(EmptyDB, base, Places(base))
         /\ \A d : Partial(d, base, {}) => d = base
<1>1. base \in Database
  BY DEF Sound
<1>2. Partial(EmptyDB, base, Places(base))
  BY Empty, PlaceIn DEF Partial, EmptyDB, NoDocs, Has
<1>3. ASSUME NEW d, Partial(d, base, {}) PROVE d = base
  BY <1>1, <1>3, SameStore DEF Partial
<1> QED BY <1>2, <1>3

-----------------------------------------------------------------------------
(* Requests that come one at a time, for one type; snapshots are taken when no
   request is in flight, if any is taken at all. *)
Calm == OneByOne /\ txns = 0 /\ (snapshot = None \/ ~LiveSnapshots)

(* The store's change is in memory and not in the log yet. *)
Pending(r) == pc[r] \in {"sequence", "write"}

(* What recovery starts from. *)
Base == IF snapshot = None THEN EmptyDB ELSE snapshot

OneInFlight ==
  /\ \A r, s \in Requests : Active(r) /\ Active(s) => r = s
  /\ \A r \in Requests : ~Committing(r)
  /\ phase = "closing" => \A r \in Requests : ~Active(r)

AllNamed ==
  /\ \A e \in wal \cup todo : Named(e.what)
  /\ \A r \in Requests : Pending(r) => Named(req[r])

Marks ==
  /\ unsettled \in Nat
  /\ snapshot = None => unsettled = 0
  /\ snapPc = "prune" => unsettled # 0
  /\ Quiet => unsettled # 1

(* A snapshot is a copy of the store. *)
Copying ==
  ~LiveSnapshots /\ snapPc # "idle" =>
    /\ ~Quiet /\ \A r \in Requests : ~Active(r)
    /\ snapPc = "prune" => snapshot = db
    /\ snapPc # "prune" => \A t \in Types \ snapLeft :
         snapBuf.defs[t] = db.defs[t] /\ snapBuf.docs[t] = db.docs[t]
    /\ snapPc = "entities" =>
         snapLeft # {} /\ \A t \in snapLeft : snapBuf.defs[t] = db.defs[t]

(* There are at least as many sequence numbers as there is to be read from a
   snapshot: recovery's do not reach those of later entries. *)
Numbered ==
  /\ Sound(db) /\ Sound(Base)
  /\ Size(db) <= walSequence + 1
  /\ (\A r \in Requests : pc[r] # "sequence") => Size(db) <= walSequence

(* Nothing is in the log when nothing happened since the snapshot. *)
Settled ==
  /\ ~Quiet /\ (\A r \in Requests : ~Pending(r)) =>
       answered = db /\ (wal = {} => db = Base)
  /\ phase = "down" => db = EmptyDB /\ walSequence = 0 /\ todo = {}
  /\ phase = "snapshot" /\ wal = {} => db = EmptyDB /\ todo = SnapshotItems
  /\ phase = "wal" /\ wal = {} => db = Base /\ todo = {}

Kept == OneInFlight /\ AllNamed /\ Marks /\ Copying /\ Numbered /\ Settled

(* A request can only begin when no other is in flight. *)
LEMMA NobodyElse ==
  ASSUME TypeInv, OneByOne, OneInFlight, NEW r \in Requests, Admitted(r)
  PROVE  \A s \in Requests : ~Active(s)
<1>1. IsFiniteSet(InFlight)
  <2>1. CASE InFlight = {}
    BY <2>1, FS_EmptySet
  <2>2. CASE \E s \in Requests : InFlight = {s}
    BY <2>2, FS_Singleton
  <2> QED BY <2>1, <2>2 DEF InFlight, OneInFlight
<1>2. Cardinality(InFlight) \in Nat /\ Cardinality(InFlight) < 1
  BY <1>1, FS_CardinalityType DEF Admitted, OneByOne
<1>3. InFlight = {}
  BY <1>1, <1>2, FS_EmptySet
<1> QED BY <1>3 DEF InFlight

(* There is one type. *)
LEMMA TheType ==
  ASSUME OneByOne
  PROVE  \E t : Types = {t}
BY DurabilityAssumption, FS_Singleton DEF OneByOne

(* What recovery reads are the items of the base. *)
LEMMA ItemsOfBase ==
  ASSUME TypeInv
  PROVE  SnapshotItems = {Item(Base, p) : p \in Places(Base)}
<1>1. CASE snapshot = None
  BY <1>1, EmptySound DEF SnapshotItems, Base
<1>2. CASE snapshot # None
  <2>0. None \notin IDs
    BY DurabilityAssumption
  <2>1. Base = snapshot
    BY <1>2 DEF Base
  <2> DEFINE definitions == {<<t, None>> : t \in {u \in Types : snapshot.defs[u] # None}}
             entities == {p \in Types \X IDs : Has(snapshot, p[1], p[2])}
             register(t) == Entry([op |-> "register", type |-> t, id |-> None, val |-> None,
                                   def |-> snapshot.defs[t]], 2 * t)
             insert(p) == Entry([op |-> "insert", type |-> p[1], id |-> p[2],
                                 val |-> snapshot.docs[p[1]][p[2]], def |-> None],
                                2 * p[1] + 1)
  <2>2. Places(Base) = definitions \cup entities
    BY <2>1 DEF Places
  <2>3. \A p \in entities : Item(Base, p) = insert(p)
    BY <2>0, <2>1 DEF Item
  <2>4. \A t \in Types : Item(Base, <<t, None>>) = register(t)
    BY <2>1 DEF Item
  <2>5. SnapshotItems = {register(t) : t \in {u \in Types : snapshot.defs[u] # None}}
                          \cup {insert(p) : p \in entities}
    BY <1>2 DEF SnapshotItems
  <2>6. {Item(Base, p) : p \in entities} = {insert(p) : p \in entities}
    BY <2>3
  <2>7. {Item(Base, p) : p \in definitions}
          = {register(t) : t \in {u \in Types : snapshot.defs[u] # None}}
    BY <2>4
  <2> HIDE DEF definitions, entities, register, insert
  <2> QED BY <2>2, <2>5, <2>6, <2>7
<1> QED BY <1>1, <1>2

(* What is replayed has the names of what was logged. *)
LEMMA ReplayedNamed ==
  ASSUME NEW e, e.what \in Operation, Named(e.what), NEW q \in ReplayedAs(e)
  PROVE  Named(q) /\ q \in Operation
<1> PICK w \in Operation : w = e.what
  OBVIOUS
<1>1. CASE q = w
  BY <1>1
<1>2. CASE w.op = "update" /\ \E t \in Types : q = [w EXCEPT !.type = t]
  BY <1>2 DEF Named, Operation
<1>3. CASE w.op = "updatetype" /\ q = [w EXCEPT !.op = "register"]
  BY <1>3 DEF Named, Operation, Ops
<1> QED BY <1>1, <1>2, <1>3 DEF ReplayedAs

(* A change in memory, the number for it, and what is not about the log. *)
LEMMA KeptRequests ==
  ASSUME TypeInv, TxnInv, Calm, Kept, NEW r \in Requests,
         \/ \E q \in Workload : Commit(r, q)
         \/ \E q \in TxnWorkload : AddToTransaction(r, q)
         \/ TakeSequence(r)
         \/ BeginTransaction(r) \/ AbortTransaction(r)
  PROVE  /\ Kept' /\ ~Quiet /\ ~Quiet'
         /\ UNCHANGED <<phase, wal, todo, answered, snapshot, unsettled, snapPc>>
         /\ \A s \in Requests \ {r} :
              ~Pending(s) /\ ~Pending(s)' /\ pc'[s] = pc[s] /\ req'[s] = req[s]
<1> USE DEF TypeInv, TypeOK, Carried, MoveTxn, snapVars, historyVars
<1>1. /\ UNCHANGED <<phase, wal, todo, answered, snapshot, unsettled, snapPc, snapLeft,
                     snapBuf>>
      /\ \A s \in Requests \ {r} : pc'[s] = pc[s] /\ req'[s] = req[s]
      /\ pc'[r] \in {"sequence", "write", "txn", "done"}
  BY DEF Commit, AddToTransaction, TakeSequence, BeginTransaction, AbortTransaction
<1>2. OneInFlight /\ AllNamed /\ Marks /\ Copying /\ Numbered /\ Settled
  BY DEF Kept
<1>3. Active(r) \/ (Admitted(r) /\ pc[r] = "idle" /\ phase = "serving")
  BY DEF Commit, AddToTransaction, TakeSequence, BeginTransaction, AbortTransaction,
     Admitted, Active
<1>4. ~Quiet /\ ~Quiet' /\ phase' # "closing"
  BY <1>1, <1>2, <1>3 DEF TxnInv, Quiet, OneInFlight
<1>5. \A s \in Requests \ {r} : ~Active(s)
  <2>1. Active(r) => \A s \in Requests \ {r} : ~Active(s)
    BY <1>2 DEF OneInFlight
  <2>2. CASE Admitted(r)
    BY <1>2, <2>2, NobodyElse DEF Calm
  <2> QED BY <1>3, <2>1, <2>2
<1>6. \A s \in Requests \ {r} : ~Active(s)' /\ ~Pending(s) /\ ~Pending(s)' /\ ~Committing(s)'
  BY <1>1, <1>5 DEF Active, Pending, Committing
<1>7. OneInFlight'
  BY <1>1, <1>4, <1>6 DEF OneInFlight, Committing
<1>8. Copying'
  <2>1. ~LiveSnapshots => snapPc = "idle"
    BY <1>2, <1>3 DEF Copying, Admitted
  <2> QED BY <1>1, <2>1 DEF Copying
<1>9. Marks'
  BY <1>1, <1>2, <1>4 DEF Marks
<1>10. Base' = Base
  BY <1>1 DEF Base
<1>11. CASE \E q \in Workload : Commit(r, q)
  <2>1. PICK q \in Workload : Commit(r, q)
    BY <1>11
  <2>2. Named(q) /\ q \in Operation
    BY DurabilityAssumption
  <2>3. /\ pc[r] = "idle" /\ pc'[r] = "sequence" /\ req'[r] = q
        /\ walSequence' = walSequence /\ Effective(db, q) /\ db' = Result(db, q)
    BY <2>1 DEF Commit, Admitted
  <2>4. AllNamed'
    BY <1>1, <1>2, <1>6, <2>2, <2>3 DEF AllNamed
  <2>5. Size(db) <= walSequence
    BY <1>2, <1>6, <2>3 DEF Numbered, Pending
  <2>6. Sound(db') /\ Size(db') <= walSequence' + 1
    <3>1. Sound(db)
      BY <1>2 DEF Numbered
    <3>2. /\ Sound(Result(db, q)) /\ Size(Result(db, q)) \in Nat /\ Size(db) \in Nat
          /\ Size(Result(db, q)) <= Size(db) + 1
      BY <2>2, <2>3, <3>1, ResultSound
    <3> QED BY <2>3, <2>5, <3>2
  <2>7. Numbered'
    BY <1>2, <1>10, <2>3, <2>6 DEF Numbered
  <2>8. Settled'
    BY <1>4, <2>3 DEF Settled, Pending, Quiet
  <2> QED BY <1>1, <1>4, <1>6, <1>7, <1>8, <1>9, <2>4, <2>7, <2>8 DEF Kept
<1>12. CASE TakeSequence(r)
  <2>1. /\ pc[r] = "sequence" /\ pc'[r] = "write" /\ req'[r] = req[r] /\ db' = db
        /\ walSequence' = walSequence + 1
    BY <1>12 DEF TakeSequence
  <2>2. AllNamed'
    BY <1>1, <1>2, <1>6, <2>1 DEF AllNamed, Pending
  <2>3. Size(db) \in Nat
    BY <1>2, FS_CardinalityType DEF Numbered, Sound, Size
  <2>4. Numbered'
    BY <1>2, <1>10, <2>1, <2>3 DEF Numbered
  <2>5. Settled'
    BY <1>4, <2>1 DEF Settled, Pending, Quiet
  <2> QED BY <1>1, <1>4, <1>6, <1>7, <1>8, <1>9, <2>2, <2>4, <2>5 DEF Kept
<1>13. CASE \/ \E q \in TxnWorkload : AddToTransaction(r, q)
            \/ BeginTransaction(r) \/ AbortTransaction(r)
  <2>1. /\ ~Pending(r) /\ ~Pending(r)' /\ UNCHANGED <<walSequence, db>>
    BY <1>13 DEF AddToTransaction, BeginTransaction, AbortTransaction, Admitted, Pending
  <2>2. AllNamed'
    BY <1>1, <1>2, <1>6, <2>1 DEF AllNamed
  <2>3. Numbered'
    BY <1>2, <1>6, <1>10, <2>1 DEF Numbered, Pending
  <2>4. Settled'
    BY <1>1, <1>2, <1>4, <1>6, <1>10, <2>1 DEF Settled, Quiet
  <2> QED BY <1>1, <1>4, <1>6, <1>7, <1>8, <1>9, <2>2, <2>3, <2>4 DEF Kept
<1> QED BY <1>11, <1>12, <1>13

(* The log entry of a request. *)
LEMMA KeptWrite ==
  ASSUME TypeInv, TypeInv', TxnInv, Calm, Kept, NEW r \in Requests, WriteEntry(r)
  PROVE  Kept' /\ \A s \in Requests : ~Active(s)'
<1>1. /\ pc[r] = "write" /\ pc'[r] = "done"
      /\ \A s \in Requests \ {r} : pc'[s] = pc[s]
      /\ wal' = Logged(wal, Entry(req[r], seqNum[r])) /\ answered' = db
      /\ UNCHANGED <<phase, db, walSequence, snapshot, unsettled, todo, snapPc, snapLeft,
                     snapBuf>>
  BY DEF WriteEntry, TypeInv, TypeOK, snapVars
<1>2. OneInFlight /\ AllNamed /\ Marks /\ Copying /\ Numbered /\ Settled
  BY DEF Kept
<1>3. ~Quiet /\ ~Quiet' /\ Active(r)
  BY <1>1 DEF TxnInv, Active, Quiet
<1>4. \A s \in Requests : ~Active(s)' /\ ~Pending(s)' /\ ~Committing(s)'
  BY <1>1, <1>2 DEF OneInFlight, Active, Pending, Committing
<1>5. OneInFlight'
  BY <1>4 DEF OneInFlight
<1>6. AllNamed'
  <2>1. Entry(req[r], seqNum[r]).what = req[r] /\ Pending(r)
    BY <1>1 DEF Entry, Pending
  <2>2. \A e \in wal' : e \in wal \/ e = Entry(req[r], seqNum[r])
    BY <1>1 DEF Logged
  <2> QED BY <1>1, <1>2, <1>4, <2>1, <2>2 DEF AllNamed
<1>7. Copying'
  BY <1>1, <1>2, <1>3 DEF Copying
<1>8. Numbered'
  <2>1. Base' = Base
    BY <1>1 DEF Base
  <2>2. pc[r] # "sequence" /\ \A s \in Requests : pc[s] # "sequence"
    BY <1>1, <1>2 DEF OneInFlight, Active
  <2> QED BY <1>1, <1>2, <2>1, <2>2 DEF Numbered
<1>9. wal' # {}
  BY <1>1 DEF Logged
<1>10. Settled' /\ Marks'
  BY <1>1, <1>2, <1>3, <1>9 DEF Settled, Marks, Quiet
<1> QED BY <1>4, <1>5, <1>6, <1>7, <1>8, <1>10 DEF Kept

(* The store is listed, nothing of it is copied yet. *)
LEMMA Listed ==
  ASSUME TypeInv, Kept, ListTypes, UNCHANGED db
  PROVE  \A t \in Types \ snapLeft' :
           snapBuf'.defs[t] = db'.defs[t] /\ snapBuf'.docs[t] = db'.docs[t]
<1> SUFFICES ASSUME NEW t \in Types, t \notin snapLeft'
             PROVE  EmptyDB.defs[t] = db.defs[t] /\ EmptyDB.docs[t] = db.docs[t]
  BY DEF ListTypes
<1>1. db.defs[t] = None
  BY DEF ListTypes
<1>2. \A i \in IDs : db.docs[t][i] = None
  BY <1>1 DEF Kept, Numbered, Sound, Has
<1>3. db.docs[t] \in [IDs -> Values \cup {None}]
  BY DEF TypeInv, TypeOK, Database
<1> QED BY <1>1, <1>2, <1>3 DEF EmptyDB, NoDocs

(* A snapshot is begun, goes on, or fails; requests are no longer taken. *)
LEMMA KeptSnapshot ==
  ASSUME TypeInv, TypeInv', TxnInv, Calm, Kept,
         \/ SnapshotBegin \/ SnapshotDefinition \/ SnapshotEntities \/ SnapshotFails
         \/ CloseManager \/ Shutdown \/ UNCHANGED vars
  PROVE  /\ Kept'
         /\ UNCHANGED <<wal, walSequence, db, answered, todo, allowed, pc, req, seqNum,
                        snapshot, unsettled>>
         /\ phase' = phase \/ (~Quiet /\ ~Quiet')
         /\ snapPc' = "prune" <=> snapPc = "prune"
<1>1. /\ UNCHANGED <<wal, walSequence, db, answered, todo, allowed, pc, req, seqNum,
                     snapshot, unsettled>>
      /\ \/ phase' = phase
         \/ ~Quiet /\ ~Quiet' /\ (phase' = "closing" => InFlight = {})
      /\ snapPc' = "prune" <=> snapPc = "prune"
  BY DEF SnapshotBegin, SnapshotDefinition, SnapshotEntities, SnapshotFails,
     CloseManager, Shutdown, ListTypes, historyVars, requestVars, snapVars, vars, Quiet
<1>2. OneInFlight /\ AllNamed /\ Marks /\ Copying /\ Numbered /\ Settled
  BY DEF Kept
<1>3. OneInFlight'
  BY <1>1, <1>2 DEF OneInFlight, Active, Committing, InFlight
<1>4. AllNamed' /\ Numbered'
  BY <1>1, <1>2 DEF AllNamed, Numbered, Pending, Base
<1>5. Marks'
  BY <1>1, <1>2 DEF Marks, Quiet
<1>6. Settled'
  <2>1. SnapshotItems' = SnapshotItems /\ Base' = Base
    BY <1>1 DEF SnapshotItems, Base, Has
  <2>2. \A s \in Requests : Pending(s)' <=> Pending(s)
    BY <1>1 DEF Pending
  <2>3. CASE phase' = phase
    BY <1>1, <1>2, <2>1, <2>2, <2>3 DEF Settled, Quiet
  <2>4. CASE ~Quiet /\ ~Quiet'
    BY <1>1, <1>2, <2>1, <2>2, <2>4 DEF Settled, Quiet
  <2> QED BY <1>1, <2>3, <2>4
<1>7. Copying'
  <2> SUFFICES ASSUME ~LiveSnapshots, snapPc' # "idle" PROVE Copying'
    BY DEF Copying
  <2>1. CASE SnapshotBegin \/ CloseManager
    <3>1. ListTypes /\ InFlight = {} /\ ~Quiet /\ ~Quiet'
      BY <2>1 DEF SnapshotBegin, CloseManager, Quiet
    <3>2. snapPc' = "definition" /\ \A s \in Requests : ~Active(s)'
      BY <1>1, <3>1 DEF ListTypes, InFlight, Active
    <3> QED BY <1>1, <3>1, <3>2, Listed DEF Copying
  <2> PICK t : Types = {t}
    BY TheType DEF Calm
  <2>2. \A s \in Requests : Active(s)' <=> Active(s)
    BY <1>1 DEF Active
  <2>3. ASSUME snapLeft # {} PROVE snapLeft = {t} /\ NextType = t
    <3>1. snapLeft = {t}
      BY <2>3 DEF TypeInv, TypeOK
    <3>2. t <= t
      BY WorkloadOps
    <3> QED BY <3>1, <3>2 DEF NextType
  <2>4. CASE SnapshotDefinition
    <3>1. /\ snapPc = "definition" /\ snapLeft # {} /\ snapPc' = "entities"
          /\ snapBuf' = [snapBuf EXCEPT !.defs[NextType] = db.defs[NextType]]
          /\ UNCHANGED <<phase, snapLeft>>
      BY <2>4 DEF SnapshotDefinition
    <3>2. snapBuf \in Database
      BY DEF TypeInv, TypeOK
    <3>3. snapBuf'.defs[t] = db.defs[t] /\ snapLeft = {t}
      BY <2>3, <3>1, <3>2 DEF Database
    <3> QED BY <1>1, <1>2, <2>2, <3>1, <3>3 DEF Copying, Quiet
  <2>5. CASE SnapshotEntities
    <3>1. /\ snapPc = "entities" /\ snapPc' = "definition" /\ phase' = phase
          /\ snapBuf' = [snapBuf EXCEPT !.docs[NextType] = db.docs[NextType]]
      BY <2>5 DEF SnapshotEntities
    <3>2. snapBuf \in Database /\ snapLeft = {t} /\ snapBuf.defs[t] = db.defs[t]
          /\ NextType = t
      BY <1>2, <2>3, <3>1 DEF TypeInv, TypeOK, Copying
    <3>3. snapBuf'.defs[t] = db.defs[t] /\ snapBuf'.docs[t] = db.docs[t]
      BY <3>1, <3>2 DEF Database
    <3> QED BY <1>1, <1>2, <2>2, <3>1, <3>3 DEF Copying, Quiet
  <2>6. CASE SnapshotFails
    BY <2>6 DEF SnapshotFails
  <2>7. CASE Shutdown \/ UNCHANGED vars
    <3>1. UNCHANGED <<snapPc, snapLeft, snapBuf>> /\ (~Quiet => ~Quiet')
      BY <2>7 DEF Shutdown, vars, snapVars, Quiet
    <3> QED BY <1>1, <1>2, <2>2, <3>1 DEF Copying
  <2> QED BY <2>1, <2>4, <2>5, <2>6, <2>7
<1> QED BY <1>1, <1>3, <1>4, <1>5, <1>6, <1>7 DEF Kept

(* The snapshot is the store; the log may be pruned or not. *)
LEMMA KeptSnapshotWrite ==
  ASSUME TypeInv, TypeInv', TxnInv, Calm, Calm', Kept,
         SnapshotWrite \/ SnapshotPrune \/ SnapshotPruneFails
  PROVE  /\ Kept' /\ ~Quiet' /\ \A r \in Requests : ~Active(r)'
         /\ SnapshotWrite => unsettled' # 0 /\ snapPc' = "prune"
         /\ SnapshotPrune => /\ Base' = db' /\ answered' = db' /\ wal' = {}
                             /\ Size(db') <= walSequence' /\ unsettled' # 0
         /\ SnapshotPruneFails => unsettled' \notin {0, 1}
<1>1. /\ UNCHANGED <<phase, db, walSequence, answered, todo, pc, req>>
      /\ snapPc # "idle" /\ unsettled' \in {1, unsettled, unsettled + 1}
      /\ wal' \subseteq wal
  BY DEF SnapshotWrite, SnapshotPrune, SnapshotPruneFails, requestVars, historyVars
<1>2. OneInFlight /\ AllNamed /\ Marks /\ Copying /\ Numbered /\ Settled
  BY DEF Kept
<1>3. ~LiveSnapshots
  <2>1. CASE SnapshotWrite
    BY <2>1, NoneAssumption DEF SnapshotWrite, Calm, TypeInv, TypeOK
  <2>2. CASE snapPc = "prune"
    BY <2>2 DEF Calm, TxnInv
  <2> QED BY <2>1, <2>2 DEF SnapshotPrune, SnapshotPruneFails
<1>4. ~Quiet /\ ~Quiet' /\ \A r \in Requests : ~Active(r) /\ ~Active(r)'
  BY <1>1, <1>2, <1>3 DEF Copying, Quiet, Active
<1>5. OneInFlight' /\ AllNamed'
  BY <1>1, <1>2 DEF OneInFlight, AllNamed, Active, Committing, Pending
<1>6. Size(db) <= walSequence /\ answered = db
  BY <1>2, <1>4 DEF Numbered, Settled, Active, Pending
<1>7. snapshot' = db' /\ (SnapshotWrite \/ snapshot = db)
  <2>1. CASE SnapshotWrite
    <3>1. /\ \A t \in Types : snapBuf.defs[t] = db.defs[t] /\ snapBuf.docs[t] = db.docs[t]
          /\ snapshot' = snapBuf
      BY <1>2, <1>3, <2>1 DEF SnapshotWrite, Copying
    <3>2. snapBuf \in Database /\ db \in Database
      BY DEF TypeInv, TypeOK
    <3>3. snapBuf = db
      BY <3>1, <3>2, SameStore
    <3> QED BY <1>1, <2>1, <3>1, <3>3
  <2>2. CASE SnapshotPrune \/ SnapshotPruneFails
    BY <1>1, <1>2, <1>3, <2>2 DEF SnapshotPrune, SnapshotPruneFails, Copying
  <2> QED BY <2>1, <2>2
<1>8. Base' = db'
  <2>1. db' # None
    BY <1>1, NoneAssumption DEF TypeInv, TypeOK
  <2> QED BY <1>7, <2>1 DEF Base
<1>9. Numbered' /\ Settled'
  BY <1>1, <1>2, <1>4, <1>6, <1>8 DEF Numbered, Settled, Quiet
<1>10. CASE SnapshotWrite
  <2>1. snapPc' = "prune" /\ unsettled' # 0 /\ unsettled' \in Nat
    BY <1>2, <1>10 DEF SnapshotWrite, Marks
  <2>2. Copying' /\ Marks'
    <3>1. snapshot' # None
      BY <1>7, <1>1, NoneAssumption DEF TypeInv, TypeOK
    <3> QED BY <1>4, <1>7, <2>1, <3>1 DEF Copying, Marks
  <2>3. ~SnapshotPrune /\ ~SnapshotPruneFails
    BY <1>10 DEF SnapshotWrite, SnapshotPrune, SnapshotPruneFails
  <2> QED BY <1>4, <1>5, <1>9, <2>1, <2>2, <2>3 DEF Kept
<1>11. CASE SnapshotPrune
  <2>1. /\ snapPc = "prune" /\ snapPc' = "idle" /\ UNCHANGED <<unsettled, snapshot>>
        /\ wal' = {}
    BY <1>11 DEF SnapshotPrune
  <2>2. Copying' /\ Marks'
    BY <1>2, <1>4, <2>1 DEF Copying, Marks
  <2>3. ~SnapshotWrite /\ ~SnapshotPruneFails
    BY <1>11, <2>1 DEF SnapshotWrite, SnapshotPruneFails, Marks, Kept
  <2>4. unsettled' # 0
    BY <1>2, <2>1 DEF Marks
  <2> QED BY <1>1, <1>4, <1>5, <1>6, <1>8, <1>9, <2>1, <2>2, <2>3, <2>4 DEF Kept
<1>12. CASE SnapshotPruneFails
  <2>1. /\ snapPc = "prune" /\ snapPc' = "idle" /\ unsettled' = unsettled + 1
        /\ UNCHANGED snapshot
    BY <1>12 DEF SnapshotPruneFails
  <2>2. unsettled' \notin {0, 1} /\ unsettled' \in Nat
    BY <1>2, <2>1 DEF Marks
  <2>3. Copying' /\ Marks'
    <3>1. snapshot # None
      BY <2>1 DEF TxnInv
    <3> QED BY <1>4, <2>1, <2>2, <3>1 DEF Copying, Marks
  <2>4. ~SnapshotWrite /\ ~SnapshotPrune
    BY <1>2, <1>12, <2>1 DEF SnapshotWrite, SnapshotPrune, Marks
  <2> QED BY <1>4, <1>5, <1>9, <2>2, <2>3, <2>4 DEF Kept
<1> QED BY <1>10, <1>11, <1>12

(* The process ends. *)
LEMMA KeptEnd ==
  ASSUME TypeInv, TypeInv', TxnInv, Calm, Kept, CloseStore \/ Crash
  PROVE  Kept'
<1>1. /\ phase' = "down" /\ UNCHANGED <<wal, snapshot>>
      /\ walSequence' = 0 /\ db' = EmptyDB /\ todo' = {} /\ snapPc' = "idle"
      /\ \A r \in Requests : pc'[r] = IF Active(r) THEN "done" ELSE pc[r]
  BY DEF CloseStore, Crash, End
<1>2. OneInFlight /\ AllNamed /\ Marks /\ Copying /\ Numbered /\ Settled
  BY DEF Kept
<1>3. \A r \in Requests : ~Active(r)' /\ ~Pending(r)' /\ ~Committing(r)'
  BY <1>1 DEF Active, Pending, Committing
<1>4. unsettled' \in Nat \ {1} /\ (unsettled = 0 => unsettled' = 0)
  <2>1. CASE CloseStore
    BY <1>2, <2>1 DEF CloseStore, Marks
  <2>2. CASE Crash
    BY <1>2, <2>2 DEF Crash, Marks
  <2> QED BY <2>1, <2>2
<1>5. OneInFlight' /\ AllNamed' /\ Marks' /\ Copying'
  BY <1>1, <1>2, <1>3, <1>4 DEF OneInFlight, AllNamed, Marks, Copying
<1>6. Numbered' /\ Settled'
  BY <1>1, <1>2, EmptySound DEF Numbered, Settled, Base, Quiet
<1> QED BY <1>5, <1>6 DEF Kept

(* A recovery begins, reads the log, and ends. *)
LEMMA KeptRecovery ==
  ASSUME TypeInv, TypeInv', TxnInv, Calm, Kept, Restart \/ CollectWAL \/ Serve
  PROVE  Kept'
<1>1. /\ UNCHANGED <<wal, walSequence, db, pc, snapshot, unsettled, snapPc>>
      /\ Quiet /\ phase' # "closing"
      /\ \A r \in Requests : ~Active(r) /\ ~Active(r)' /\ ~Pending(r)' /\ ~Committing(r)'
  BY DEF Restart, CollectWAL, Serve, requestVars, snapVars, Quiet, TxnInv, Active, Pending,
     Committing
<1>2. OneInFlight /\ AllNamed /\ Marks /\ Copying /\ Numbered /\ Settled
  BY DEF Kept
<1>3. Base' = Base /\ Sound(Base)
  BY <1>1, <1>2 DEF Base, Numbered
<1>4. OneInFlight' /\ Marks' /\ Copying' /\ Numbered'
  BY <1>1, <1>2, <1>3 DEF OneInFlight, Marks, Copying, Numbered
<1>5. CASE Restart
  <2>1. phase = "down" /\ phase' = "snapshot" /\ todo' = SnapshotItems
    BY <1>5 DEF Restart
  <2>2. SnapshotItems' = SnapshotItems
    BY <1>1 DEF SnapshotItems, Has
  <2>3. AllNamed'
    BY <1>1, <1>2, <1>3, <2>1, ItemsOfBase, ItemIs DEF AllNamed
  <2>4. Settled'
    BY <1>1, <1>2, <2>1, <2>2 DEF Settled, Quiet
  <2> QED BY <1>4, <2>3, <2>4 DEF Kept
<1>6. CASE CollectWAL
  <2>1. phase = "snapshot" /\ phase' = "wal" /\ todo = {}
    BY <1>6 DEF CollectWAL
  <2> DEFINE above == 1 + Cardinality(wal) + walSequence
                       + Cardinality(UNION {1..e.seq : e \in wal})
  <2>2. PICK m : todo' = {e \in wal : e.txn = None} \cup
                   {[e EXCEPT !.seq = above * m[e.txn] + e.seq] :
                      e \in {f \in wal : f.txn \in CompleteTransactions}}
    BY <1>6 DEF CollectWAL, above
  <2> HIDE DEF above
  <2>3. \A e \in todo' : \E f \in wal : e.what = f.what
    <3>1. \A f \in wal : f \in LogEntry
      BY DEF TypeInv, TypeOK
    <3>2. ASSUME NEW f \in LogEntry, NEW k PROVE [f EXCEPT !.seq = k].what = f.what
      BY DEF LogEntry
    <3> SUFFICES ASSUME NEW e \in todo' PROVE \E f \in wal : e.what = f.what
      OBVIOUS
    <3>3. CASE e \in wal
      BY <3>3
    <3>4. CASE \E f \in wal : e = [f EXCEPT !.seq = above * m[f.txn] + f.seq]
      <4>1. PICK f \in wal : e = [f EXCEPT !.seq = above * m[f.txn] + f.seq]
        BY <3>4
      <4>2. PICK k : k = above * m[f.txn] + f.seq
        OBVIOUS
      <4>3. f \in LogEntry /\ e = [f EXCEPT !.seq = k]
        BY <3>1, <4>1, <4>2
      <4> QED BY <3>2, <4>3
    <3> QED BY <2>2, <3>3, <3>4
  <2>4. AllNamed'
    BY <1>1, <1>2, <2>3 DEF AllNamed
  <2>5. wal = {} => db = Base /\ todo' = {}
    <3> SUFFICES ASSUME wal = {} PROVE db = Base /\ todo' = {}
      OBVIOUS
    <3>1. todo' = {}
      BY <2>3
    <3>2. db = EmptyDB /\ SnapshotItems = {}
      BY <1>2, <2>1 DEF Settled
    <3>3. Places(Base) = {}
      BY <3>2, ItemsOfBase
    <3> QED BY <1>3, <3>1, <3>2, <3>3, NothingLeft
  <2>6. Settled'
    BY <1>1, <1>3, <2>1, <2>5 DEF Settled, Quiet
  <2> QED BY <1>4, <2>4, <2>6 DEF Kept
<1>7. CASE Serve
  <2>1. /\ phase = "wal" /\ phase' = "serving" /\ answered' = db /\ UNCHANGED todo
    BY <1>7 DEF Serve
  <2>2. AllNamed' /\ Settled'
    BY <1>1, <1>2, <1>3, <2>1 DEF AllNamed, Settled, Quiet
  <2> QED BY <1>4, <2>2 DEF Kept
<1> QED BY <1>5, <1>6, <1>7

(* The item with the lowest number is a definition, as long as one is missing. *)
LEMMA FirstItem ==
  ASSUME NEW base, Sound(base), NEW missing \in SUBSET Places(base), NEW p \in missing,
         \A s \in missing : Item(base, p).seq <= Item(base, s).seq
  PROVE  p[2] # None => <<p[1], None>> \notin missing
<1> SUFFICES ASSUME p[2] # None, <<p[1], None>> \in missing PROVE FALSE
  OBVIOUS
<1> PICK s : s = <<p[1], None>>
  OBVIOUS
<1>1. s \in missing /\ s[2] = None /\ s[1] = p[1]
  OBVIOUS
<1>2. Item(base, p).seq = 2 * p[1] + 1 /\ Item(base, s).seq = 2 * p[1]
  BY <1>1, ItemIs
<1>3. p[1] \in Nat
  BY PlaceIn, WorkloadOps
<1> QED BY <1>1, <1>2, <1>3

(* An item or an entry is replayed. *)
LEMMA KeptReplay ==
  ASSUME TypeInv, TypeInv', TxnInv, Calm, Kept, Replay
  PROVE  Kept'
<1>1. /\ UNCHANGED <<phase, pc, req, snapshot, unsettled, snapPc>>
      /\ Quiet /\ phase # "down" /\ \A r \in Requests : ~Active(r) /\ ~Active(r)'
  BY DEF Replay, requestVars, snapVars, Quiet, TxnInv, Active
<1>2. OneInFlight /\ AllNamed /\ Marks /\ Copying /\ Numbered /\ Settled
  BY DEF Kept
<1>3. PICK e \in todo :
        /\ \A f \in todo : e.seq <= f.seq
        /\ todo' = todo \ {e}
        /\ LET as == IF phase = "snapshot" THEN {e.what} ELSE ReplayedAs(e)
           IN  IF as = {} THEN UNCHANGED <<db, walSequence, wal>>
               ELSE \E q \in as : Redo(q)
  BY DEF Replay
<1>4. e.what \in Operation /\ Named(e.what)
  BY <1>2 DEF TypeInv, TypeOK, LogEntry, AllNamed
<1>5. \/ UNCHANGED <<db, walSequence, wal>>
      \/ \E q \in Operation :
           /\ Named(q) /\ Effective(db, q) /\ db' = Result(db, q)
           /\ walSequence' = walSequence + 1
           /\ wal' = Logged(wal, Entry(q, walSequence + 1))
  BY <1>3, <1>4, ReplayedNamed DEF Redo
<1>6. Base' = Base /\ Sound(Base) /\ Sound(db) /\ walSequence \in Nat
  BY <1>1, <1>2 DEF Base, Numbered, TypeInv, TypeOK
<1>7. OneInFlight' /\ Marks' /\ Copying'
  BY <1>1, <1>2 DEF OneInFlight, Marks, Copying, Quiet, Active, Committing
<1>8. Size(db) <= walSequence
  BY <1>1, <1>2 DEF Numbered, Active
<1>9. /\ Sound(db') /\ Size(db') <= walSequence'
      /\ \A f \in wal' : Named(f.what)
      /\ wal' # wal => wal' # {}
  <2>1. CASE UNCHANGED <<db, walSequence, wal>>
    BY <1>2, <1>6, <1>8, <2>1 DEF AllNamed
  <2>2. ASSUME NEW q \in Operation, Named(q), Effective(db, q), db' = Result(db, q),
               walSequence' = walSequence + 1, wal' = Logged(wal, Entry(q, walSequence + 1))
        PROVE  /\ Sound(db') /\ Size(db') <= walSequence' /\ wal' # {}
               /\ \A f \in wal' : Named(f.what)
    <3>1. /\ Sound(Result(db, q)) /\ Size(Result(db, q)) \in Nat /\ Size(db) \in Nat
          /\ Size(Result(db, q)) <= Size(db) + 1
      BY <1>6, <2>2, ResultSound
    <3>2. Entry(q, walSequence + 1).what = q
      BY DEF Entry
    <3>3. \A f \in wal' : f \in wal \/ f = Entry(q, walSequence + 1)
      BY <2>2 DEF Logged
    <3>4. wal' # {}
      BY <2>2 DEF Logged
    <3> QED BY <1>2, <1>6, <1>8, <2>2, <3>1, <3>2, <3>3, <3>4 DEF AllNamed
  <2> QED BY <1>5, <2>1, <2>2
<1>10. AllNamed'
  <2>1. \A r \in Requests : ~Pending(r)'
    BY <1>1 DEF Active, Pending
  <2>2. \A f \in todo' : Named(f.what)
    BY <1>2, <1>3 DEF AllNamed
  <2> QED BY <1>9, <2>1, <2>2 DEF AllNamed
<1>11. Numbered'
  <2>1. Size(db') \in Nat /\ walSequence' \in Nat
    BY <1>9, FS_CardinalityType DEF Sound, Size, TypeInv, TypeOK
  <2> QED BY <1>6, <1>9, <2>1 DEF Numbered
<1>12. wal' # {}
  <2>0. CASE wal # {}
    BY <1>9, <2>0
  <2> SUFFICES ASSUME wal = {} PROVE wal' # {}
    BY <2>0
  <2>1. phase = "snapshot" /\ db = EmptyDB /\ todo = SnapshotItems
    BY <1>1, <1>2, <1>3 DEF Settled, Quiet
  <2>2. PICK p \in Places(Base) : e = Item(Base, p)
    BY <1>3, <2>1, ItemsOfBase
  <2>3. \A s \in Places(Base) : Item(Base, p).seq <= Item(Base, s).seq
    BY <1>3, <2>1, <2>2, ItemsOfBase
  <2> PICK base : base = Base
    OBVIOUS
  <2>4. Effective(EmptyDB, Item(base, p).what)
    <3>1. p[2] # None => <<p[1], None>> \notin Places(base)
      BY <1>6, <2>2, <2>3, FirstItem
    <3>2. Partial(EmptyDB, base, Places(base))
      BY <1>6, PartialEnds
    <3> QED BY <1>6, <2>2, <3>1, <3>2, ItemRebuilds
  <2>5. Redo(e.what)
    BY <1>3, <2>1
  <2> QED BY <2>1, <2>2, <2>4, <2>5 DEF Redo, Logged
<1>13. Settled'
  BY <1>1, <1>12 DEF Settled, Quiet
<1> QED BY <1>7, <1>10, <1>11, <1>13 DEF Kept

-----------------------------------------------------------------------------
(* The log of these requests: what recovery logged of the snapshot, and above
   it the sequence of what the store made of the requests since.  Recovery
   makes the same of it again, entry by entry. *)

(* `ops' are the operations since the snapshot and ds[k] is the store after the
   first k of them. *)
History(n, ops, ds, base) ==
  /\ ds[0] = base
  /\ \A k \in 1..n : /\ Named(ops[k]) /\ Effective(ds[k - 1], ops[k])
                     /\ ds[k] = Result(ds[k - 1], ops[k])

(* The entries of all operations but the first j: operation k has number m + k. *)
High(n, j, ops, m) == {Entry(ops[k], m + k) : k \in j + 1..n}

(* What a recovery logs of the snapshot. *)
Low(base) == {Entry(Item(base, p).what, k) : p \in Places(base), k \in 1..Size(base)}

(* These entries, perhaps beside what was logged of the snapshot. *)
Above(log, high, base) == high \subseteq log /\ log \subseteq high \cup Low(base)

Recovering(n, m, ops, ds) ==
  Quiet =>
    /\ allowed = {} \/ ds[n] \in allowed
    /\ phase = "snapshot" => \E missing \in SUBSET Places(Base) :
         /\ todo = {Item(Base, p) : p \in missing}
         /\ walSequence = Size(Base) - Cardinality(missing)
         /\ Partial(db, Base, missing)
    /\ phase = "wal" => \E j \in 0..n :
         /\ db = ds[j] /\ walSequence = Size(Base) + j
         /\ Above(todo, High(n, j, ops, m), Base)
         /\ j # 0 => todo = High(n, j, ops, m)

InService(n, m, ds) ==
  ~Quiet =>
    /\ answered = ds[n]
    /\ (\A r \in Requests : ~Pending(r)) => walSequence = m + n /\ db = ds[n]
    /\ \A r \in Requests : Pending(r) =>
         /\ Named(req[r]) /\ Effective(ds[n], req[r]) /\ db = Result(ds[n], req[r])
         /\ pc[r] = "sequence" => walSequence = m + n
         /\ pc[r] = "write" => walSequence = m + n + 1 /\ seqNum[r] = m + n + 1

(* A recovery from a snapshot whose entries had other numbers leaves both in
   the log; it goes by what it read before. *)
Story(n, m, ops, ds) ==
  /\ Size(Base) <= m
  /\ History(n, ops, ds, Base)
  /\ phase # "wal" \/ m = Size(Base) => Above(wal, High(n, 0, ops, m), Base)
  /\ Recovering(n, m, ops, ds) /\ InService(n, m, ds)

Histories(n) == [1..n -> Operation] \X [0..n -> Database]

Recorded ==
  \E n, m \in Nat : \E h \in Histories(n) :
    Story(n, m, h[1], h[2]) /\ (unsettled = 0 => m = Size(Base))

(* The log tells what the store was: in the process that took the snapshot from
   its pruning on, in the recovery after that, and when no snapshot has been
   taken since the last shutdown. *)
Judged ==
  \/ unsettled = 0
  \/ unsettled = 1 /\ snapPc # "prune"
  \/ unsettled = 2 /\ Quiet

LogInv == txns \in Nat /\ (Calm => Kept /\ (Judged => Recorded))

(* The entry with the next number is replayed as what the store had made of
   it: nothing is skipped, and it goes into the log where it was. *)
LEMMA ReplayedExactly ==
  ASSUME OneByOne, NEW q \in Operation, NEW n, Named(q), Effective(db, q)
  PROVE  ReplayedAs(Entry(q, n)) = {q}
<1> PICK t : Types = {t}
  BY TheType
<1>1. Entry(q, n).what = q
  BY DEF Entry
<1>2. None \notin IDs
  BY DurabilityAssumption
<1>3. q.op \in Ops
  BY DEF Operation
<1>4. CASE q.op = "insert"
  <2>1. q.type = t /\ ~Has(db, t, q.id)
    BY <1>4 DEF Named, Effective
  <2>2. {u \in Types : q.id # None /\ Has(db, u, q.id)} = {}
    BY <2>1
  <2> QED BY <1>1, <1>4, <2>2 DEF ReplayedAs
<1>5. CASE q.op = "update"
  <2>1. q.type = t /\ Has(db, t, q.id) /\ q.id # None
    BY <1>2, <1>5 DEF Named, Effective
  <2>2. {u \in Types : q.id # None /\ Has(db, u, q.id)} = {t}
    BY <2>1
  <2>3. [q EXCEPT !.type = t] = q
    BY <2>1 DEF Operation
  <2>4. {[q EXCEPT !.type = u] : u \in {t}} = {q}
    BY <2>3
  <2> QED BY <1>1, <1>5, <2>2, <2>4 DEF ReplayedAs
<1>6. CASE q.op = "updatetype"
  BY <1>1, <1>6 DEF ReplayedAs, Effective
<1>7. CASE q.op \notin {"insert", "update", "updatetype"}
  BY <1>1, <1>7 DEF ReplayedAs
<1> QED BY <1>4, <1>5, <1>6, <1>7

(* Entries are in the order of their numbers. *)
LEMMA HighEntries ==
  ASSUME NEW n \in Nat, NEW j \in Nat, NEW ops, NEW m \in Nat
  PROVE  /\ \A k \in j + 1..n : Entry(ops[k], m + k) \in High(n, j, ops, m)
         /\ \A e \in High(n, j, ops, m) :
              \E k \in j + 1..n : /\ e = Entry(ops[k], m + k) /\ e.seq = m + k
                                  /\ e.txn = None /\ ~e.last
<1>1. ASSUME NEW q, NEW k
      PROVE  Entry(q, k).seq = k /\ Entry(q, k).txn = None /\ ~Entry(q, k).last
  BY DEF Entry
<1>2. ASSUME NEW e \in High(n, j, ops, m)
      PROVE  \E k \in j + 1..n : /\ e = Entry(ops[k], m + k) /\ e.seq = m + k
                                /\ e.txn = None /\ ~e.last
  <2>1. PICK k \in j + 1..n : e = Entry(ops[k], m + k)
    BY DEF High
  <2>2. e.seq = m + k /\ e.txn = None /\ ~e.last
    BY <1>1, <2>1
  <2> QED BY <2>1, <2>2
<1>3. \A k \in j + 1..n : Entry(ops[k], m + k) \in High(n, j, ops, m)
  BY DEF High
<1> QED BY <1>2, <1>3

(* What was logged of the snapshot has lower numbers. *)
LEMMA LowEntries ==
  ASSUME NEW base, Sound(base), NEW e \in Low(base)
  PROVE  /\ e.seq \in 1..Size(base) /\ Size(base) \in Nat
         /\ e.txn = None /\ ~e.last
         /\ \E p \in Places(base) : e.what = Item(base, p).what
<1>1. ASSUME NEW q, NEW k
      PROVE  Entry(q, k).seq = k /\ Entry(q, k).txn = None /\ ~Entry(q, k).last
             /\ Entry(q, k).what = q
  BY DEF Entry
<1>2. PICK p \in Places(base), k \in 1..Size(base) : e = Entry(Item(base, p).what, k)
  BY DEF Low
<1> PICK q : q = Item(base, p).what
  OBVIOUS
<1>3. Size(base) \in Nat
  BY FS_CardinalityType DEF Sound, Size
<1>4. e.seq = k /\ e.txn = None /\ ~e.last /\ e.what = q
  <2>1. e = Entry(q, k)
    BY <1>2
  <2> QED BY <1>1, <2>1
<1> QED BY <1>2, <1>3, <1>4

(* It has no effect on what the snapshot has been built up to. *)
LEMMA LowNoEffect ==
  ASSUME Sound(db), NEW e \in Low(db), NEW q \in ReplayedAs(e)
  PROVE  ~Effective(db, q)
<1>1. PICK p \in Places(db) : e.what = Item(db, p).what
  BY LowEntries
<1>2. p = <<p[1], p[2]>> /\ p[1] \in Types /\ p[2] \in IDs \cup {None}
  BY PlaceIn
<1>3. CASE p[2] = None
  <2>1. q = e.what /\ q.op = "register" /\ q.type = p[1]
    BY <1>1, <1>3, ItemIs DEF ReplayedAs
  <2>2. db.defs[p[1]] # None
    BY <1>2, <1>3, PlaceIn
  <2> QED BY <2>1, <2>2 DEF Effective
<1>4. CASE p[2] # None
  <2>1. e.what.op = "insert" /\ e.what.id = p[2]
    BY <1>1, <1>4, ItemIs
  <2>2. Has(db, p[1], p[2])
    BY <1>2, <1>4, PlaceIn
  <2>3. {t \in Types : e.what.id # None /\ Has(db, t, e.what.id)} # {}
    BY <1>2, <1>4, <2>1, <2>2
  <2>4. ReplayedAs(e) = {}
    BY <2>1, <2>3 DEF ReplayedAs
  <2> QED BY <2>4
<1> QED BY <1>3, <1>4

(* A step that leaves log and recovery alone. *)
LEMMA SameLog ==
  ASSUME Recorded, UNCHANGED <<wal, snapshot>>, ~Quiet, ~Quiet',
         unsettled' = 0 => unsettled = 0,
         ASSUME NEW n \in Nat, NEW m \in Nat, NEW h \in Histories(n), InService(n, m, h[2])
         PROVE  InService(n, m, h[2])'
  PROVE  Recorded'
<1>1. PICK n \in Nat, m \in Nat : \E h \in Histories(n) :
        Story(n, m, h[1], h[2]) /\ (unsettled = 0 => m = Size(Base))
  BY DEF Recorded
<1>2. PICK h \in Histories(n) :
        Story(n, m, h[1], h[2]) /\ (unsettled = 0 => m = Size(Base))
  BY <1>1
<1>3. InService(n, m, h[2])'
  BY <1>2 DEF Story
<1>4. Base' = Base
  BY DEF Base
<1>5. Story(n, m, h[1], h[2])'
  <2>1. Size(Base') <= m /\ History(n, h[1], h[2], Base')
    BY <1>2, <1>4 DEF Story
  <2>2. phase # "wal"
    BY DEF Quiet
  <2>3. Above(wal', High(n, 0, h[1], m), Base')
    BY <1>2, <1>4, <2>2 DEF Story
  <2>4. Recovering(n, m, h[1], h[2])'
    BY DEF Recovering
  <2> QED BY <1>3, <2>1, <2>3, <2>4 DEF Story
<1>6. unsettled' = 0 => m = Size(Base')
  BY <1>2, <1>4
<1>7. \E g \in Histories(n) : Story(n, m, g[1], g[2])' /\ (unsettled' = 0 => m = Size(Base'))
  BY <1>5, <1>6
<1> QED BY <1>7 DEF Recorded, Histories

(* A change in memory, the number for it, and what is not about the log. *)
LEMMA LogRequests ==
  ASSUME TypeInv, TxnInv, Calm, Kept, Recorded, NEW r \in Requests,
         \/ \E q \in Workload : Commit(r, q)
         \/ \E q \in TxnWorkload : AddToTransaction(r, q)
         \/ TakeSequence(r)
         \/ BeginTransaction(r) \/ AbortTransaction(r)
  PROVE  Recorded'
<1> USE DEF TypeInv, TypeOK, Carried, MoveTxn, snapVars, historyVars
<1>1. /\ ~Quiet /\ ~Quiet'
      /\ UNCHANGED <<phase, wal, answered, snapshot, unsettled>>
      /\ \A s \in Requests \ {r} :
           ~Pending(s) /\ ~Pending(s)' /\ pc'[s] = pc[s] /\ req'[s] = req[s]
  BY KeptRequests
<1>2. ASSUME NEW n \in Nat, NEW m \in Nat, NEW h \in Histories(n), InService(n, m, h[2])
      PROVE  InService(n, m, h[2])'
  <2> DEFINE ds == h[2]
  <2>1. InService(n, m, ds)
    BY <1>2
  <2> HIDE DEF ds
  <2>2. CASE \E q \in Workload : Commit(r, q)
    <3>1. PICK q \in Workload : Commit(r, q)
      BY <2>2
    <3>2. ~Pending(r)
      BY <3>1 DEF Commit, Admitted, Pending
    <3>3. walSequence = m + n /\ db = ds[n] /\ answered = ds[n]
      BY <1>1, <2>1, <3>2 DEF InService
    <3>4. Named(q)
      BY DurabilityAssumption
    <3>5. /\ pc'[r] = "sequence" /\ req'[r] = q /\ walSequence' = walSequence
          /\ Effective(ds[n], q) /\ db' = Result(ds[n], q) /\ answered' = ds[n]
      BY <3>1, <3>3 DEF Commit
    <3>6. InService(n, m, ds)'
      BY <1>1, <3>3, <3>4, <3>5 DEF InService, Pending, Named, Effective, Has
    <3> QED BY <3>6 DEF ds
  <2>3. CASE TakeSequence(r)
    <3>1. /\ pc[r] = "sequence" /\ pc'[r] = "write" /\ req'[r] = req[r] /\ db' = db
          /\ walSequence' = walSequence + 1 /\ seqNum'[r] = walSequence + 1
      BY <2>3 DEF TakeSequence
    <3>2. /\ Named(req[r]) /\ Effective(ds[n], req[r]) /\ db = Result(ds[n], req[r])
          /\ walSequence = m + n /\ answered = ds[n]
      BY <1>1, <2>1, <3>1 DEF InService, Pending
    <3>3. InService(n, m, ds)'
      BY <1>1, <3>1, <3>2 DEF InService, Pending, Named, Effective, Has
    <3> QED BY <3>3 DEF ds
  <2>4. CASE \/ \E q \in TxnWorkload : AddToTransaction(r, q)
             \/ BeginTransaction(r) \/ AbortTransaction(r)
    <3>1. ~Pending(r) /\ ~Pending(r)' /\ walSequence' = walSequence /\ db' = db
      BY <2>4 DEF AddToTransaction, BeginTransaction, AbortTransaction, Admitted, Pending
    <3>2. InService(n, m, ds)'
      BY <1>1, <2>1, <3>1 DEF InService
    <3> QED BY <3>2 DEF ds
  <2> QED BY <2>2, <2>3, <2>4
<1> QED BY <1>1, <1>2, SameLog

(* The log entry of a request is the next one of the history. *)
LEMMA LogWrite ==
  ASSUME TypeInv, TypeInv', TxnInv, Calm, Kept, Recorded, NEW r \in Requests, WriteEntry(r)
  PROVE  Recorded'
<1>1. /\ pc[r] = "write" /\ wal' = Logged(wal, Entry(req[r], seqNum[r]))
      /\ answered' = db /\ UNCHANGED <<phase, db, walSequence, snapshot, unsettled>>
  BY DEF WriteEntry, snapVars
<1>2. \A s \in Requests : ~Active(s)' /\ ~Pending(s)'
  BY KeptWrite DEF Active, Pending
<1>3. ~Quiet /\ ~Quiet'
  BY <1>1 DEF TxnInv, Active, Quiet
<1>4. Base' = Base /\ Sound(Base)
  BY <1>1 DEF Base, Kept, Numbered
<1>5. PICK n \in Nat, m \in Nat : \E h \in Histories(n) :
        Story(n, m, h[1], h[2]) /\ (unsettled = 0 => m = Size(Base))
  BY DEF Recorded
<1>6. PICK h \in Histories(n) :
        Story(n, m, h[1], h[2]) /\ (unsettled = 0 => m = Size(Base))
  BY <1>5
<1> DEFINE ops == h[1]
           ds == h[2]
<1> PICK q, d, base : q = req[r] /\ d = db /\ base = Base
  OBVIOUS
<1>8. /\ Size(base) <= m /\ History(n, ops, ds, base) /\ InService(n, m, ds)
      /\ Above(wal, High(n, 0, ops, m), base)
      /\ ops \in [1..n -> Operation] /\ ds \in [0..n -> Database]
      /\ q \in Operation /\ d \in Database
  BY <1>1, <1>3, <1>6 DEF Story, Histories, TypeInv, TypeOK, Carried, Quiet
<1>9. /\ Named(q) /\ Effective(ds[n], q) /\ d = Result(ds[n], q)
      /\ walSequence = m + n + 1 /\ seqNum[r] = m + n + 1
  BY <1>1, <1>3, <1>8 DEF InService, Pending
<1> HIDE DEF ops, ds
<1> DEFINE longer == [k \in 1..n + 1 |-> IF k = n + 1 THEN q ELSE ops[k]]
           later == [k \in 0..n + 1 |-> IF k = n + 1 THEN d ELSE ds[k]]
<1>10. PICK h2 \in Histories(n + 1) : h2[1] = longer /\ h2[2] = later
  <2>1. longer \in [1..n + 1 -> Operation]
    BY <1>8
  <2>2. later \in [0..n + 1 -> Database]
    BY <1>8
  <2> HIDE DEF longer, later
  <2>3. <<longer, later>> \in Histories(n + 1)
    BY <2>1, <2>2 DEF Histories
  <2>4. <<longer, later>>[1] = longer /\ <<longer, later>>[2] = later
    OBVIOUS
  <2> QED BY <2>3, <2>4
<1> DEFINE ops2 == h2[1]
           ds2 == h2[2]
<1>11. /\ \A k \in 1..n : ops2[k] = ops[k] /\ ds2[k] = ds[k] /\ ds2[k - 1] = ds[k - 1]
       /\ ops2[n + 1] = q /\ ds2[n + 1] = d /\ ds2[n] = ds[n] /\ ds2[0] = ds[0]
       /\ n + 1 - 1 = n /\ 1..n + 1 = 1..n \cup {n + 1}
  BY <1>5, <1>10
<1> HIDE DEF ops2, ds2
<1>12. History(n + 1, ops2, ds2, base)
  <2>1. ASSUME NEW k \in 1..n + 1
        PROVE  /\ Named(ops2[k]) /\ Effective(ds2[k - 1], ops2[k])
               /\ ds2[k] = Result(ds2[k - 1], ops2[k])
    <3>1. CASE k \in 1..n
      BY <1>8, <1>11, <3>1 DEF History
    <3>2. CASE k = n + 1
      <4>1. ds2[k - 1] = ds[n] /\ ops2[k] = q /\ ds2[k] = d
        BY <1>11, <3>2
      <4> QED BY <1>9, <4>1
    <3> QED BY <1>11, <3>1, <3>2
  <2> QED BY <1>8, <1>11, <2>1 DEF History
<1>13. Above(wal', High(n + 1, 0, ops2, m), base)
  <2>1. High(n + 1, 0, ops2, m) = High(n, 0, ops, m) \cup {Entry(q, m + n + 1)}
    <3>1. 0 + 1..n = 1..n /\ 0 + 1..n + 1 = 1..n + 1 /\ m + n + 1 = m + (n + 1)
      OBVIOUS
    <3> QED BY <1>11, <3>1 DEF High
  <2>2. \A e \in wal : e.seq # m + n + 1
    <3>1. \A e \in High(n, 0, ops, m) : e.seq # m + n + 1
      <4> SUFFICES ASSUME NEW e \in High(n, 0, ops, m) PROVE e.seq # m + n + 1
        OBVIOUS
      <4>0. 0 \in Nat
        OBVIOUS
      <4>1. PICK k \in 0 + 1..n : e = Entry(ops[k], m + k) /\ e.seq = m + k
        <5>1. \E k \in 0 + 1..n : /\ e = Entry(ops[k], m + k) /\ e.seq = m + k
                                  /\ e.txn = None /\ ~e.last
          BY <1>5, <4>0, HighEntries
        <5> QED BY <5>1
      <4> QED BY <1>5, <4>1
    <3>2. \A e \in Low(base) : e.seq # m + n + 1
      <4>1. \A e \in Low(base) : e.seq \in 1..Size(base) /\ Size(base) \in Nat
        BY <1>4, <1>5, LowEntries
      <4> QED BY <1>5, <1>8, <4>1
    <3> QED BY <1>8, <3>1, <3>2 DEF Above
  <2>3. Entry(q, m + n + 1).seq = m + n + 1
    BY DEF Entry
  <2>4. wal' = wal \cup {Entry(q, m + n + 1)}
    BY <1>1, <1>9, <2>2, <2>3 DEF Logged, SameKey
  <2> QED BY <1>8, <2>1, <2>4 DEF Above
<1>14. Story(n + 1, m, ops2, ds2)'
  <2>1. Recovering(n + 1, m, ops2, ds2)'
    BY <1>3 DEF Recovering
  <2>2. InService(n + 1, m, ds2)'
    BY <1>1, <1>2, <1>9, <1>11 DEF InService
  <2>3. base = Base'
    BY <1>4
  <2> QED BY <1>8, <1>12, <1>13, <2>1, <2>2, <2>3 DEF Story
<1>15. n + 1 \in Nat /\ (unsettled' = 0 => m = Size(Base'))
  BY <1>1, <1>4, <1>6
<1>16. \E g \in Histories(n + 1) :
         Story(n + 1, m, g[1], g[2])' /\ (unsettled' = 0 => m = Size(Base'))
  BY <1>10, <1>14, <1>15 DEF ops2, ds2
<1> QED BY <1>15, <1>16 DEF Recorded, Histories

(* A snapshot is begun, goes on, or fails. *)
LEMMA LogSnapshot ==
  ASSUME TypeInv, TypeInv', TxnInv, Calm, Kept, Recorded,
         \/ SnapshotBegin \/ SnapshotDefinition \/ SnapshotEntities \/ SnapshotFails
         \/ CloseManager \/ Shutdown \/ UNCHANGED vars
  PROVE  Recorded'
<1>1. /\ UNCHANGED <<wal, walSequence, db, answered, todo, allowed, pc, req, seqNum,
                     snapshot, unsettled>>
      /\ phase' = phase \/ (~Quiet /\ ~Quiet')
  BY KeptSnapshot
<1>2. CASE ~Quiet /\ ~Quiet'
  <2>1. ASSUME NEW n \in Nat, NEW m \in Nat, NEW h \in Histories(n), InService(n, m, h[2])
        PROVE  InService(n, m, h[2])'
    <3>1. \A r \in Requests : Pending(r)' <=> Pending(r)
      BY <1>1 DEF Pending
    <3> QED BY <1>1, <1>2, <2>1, <3>1 DEF InService, Named, Effective, Has
  <2> QED BY <1>1, <1>2, <2>1, SameLog
<1>3. CASE phase' = phase
  <2>1. PICK n \in Nat, m \in Nat : \E h \in Histories(n) :
          Story(n, m, h[1], h[2]) /\ (unsettled = 0 => m = Size(Base))
    BY DEF Recorded
  <2>2. PICK h \in Histories(n) :
          Story(n, m, h[1], h[2]) /\ (unsettled = 0 => m = Size(Base))
    BY <2>1
  <2>3. Base' = Base
    BY <1>1 DEF Base
  <2>4. Recovering(n, m, h[1], h[2])'
    <3>1. (Quiet' <=> Quiet) /\ Recovering(n, m, h[1], h[2])
      BY <1>3, <2>2 DEF Quiet, Story
    <3> QED BY <1>1, <1>3, <2>3, <3>1 DEF Recovering
  <2>5. InService(n, m, h[2])'
    <3>1. (Quiet' <=> Quiet) /\ \A r \in Requests : Pending(r)' <=> Pending(r)
      BY <1>1, <1>3 DEF Quiet, Pending
    <3> QED BY <1>1, <2>2, <3>1 DEF InService, Story, Named, Effective, Has
  <2>6. Story(n, m, h[1], h[2])'
    BY <1>1, <1>3, <2>2, <2>3, <2>4, <2>5 DEF Story
  <2> QED BY <1>1, <2>2, <2>3, <2>6 DEF Recorded, Histories
<1> QED BY <1>1, <1>2, <1>3

(* A history begins: the store is the snapshot, and nothing is above the
   numbers that have been given out. *)
LEMMA Begins ==
  ASSUME NEW base, Sound(base), NEW m \in Nat, Size(base) <= m
  PROVE  \E h \in Histories(0) :
           /\ History(0, h[1], h[2], base) /\ h[2][0] = base
           /\ High(0, 0, h[1], m) = {}
<1> PICK ops, ds : ops = [k \in 1..0 |-> base] /\ ds = [k \in 0..0 |-> base]
  OBVIOUS
<1>1. ops \in [1..0 -> Operation] /\ ds \in [0..0 -> Database] /\ ds[0] = base
  BY DEF Sound
<1>2. PICK h : h = <<ops, ds>>
  OBVIOUS
<1>3. h \in Histories(0) /\ h[1] = ops /\ h[2] = ds
  BY <1>1, <1>2 DEF Histories
<1>4. 1..0 = {} /\ 0 + 1..0 = {}
  OBVIOUS
<1>5. History(0, h[1], h[2], base) /\ High(0, 0, h[1], m) = {}
  BY <1>1, <1>3, <1>4 DEF History, High
<1> QED BY <1>1, <1>3, <1>5

(* The log is pruned: the history begins with the snapshot. *)
LEMMA LogPrune ==
  ASSUME TypeInv, TypeInv', TxnInv, Calm, Calm', Kept, SnapshotPrune
  PROVE  Recorded'
<1>1. /\ Kept' /\ ~Quiet' /\ \A r \in Requests : ~Pending(r)'
      /\ Base' = db' /\ answered' = db' /\ wal' = {}
      /\ Size(db') <= walSequence' /\ unsettled' # 0
  BY KeptSnapshotWrite DEF Active, Pending
<1> PICK base : base = Base'
  OBVIOUS
<1> PICK m \in Nat : m = walSequence'
  BY DEF TypeInv, TypeOK
<1>2. Sound(base) /\ Size(base) <= m
  BY <1>1 DEF Kept, Numbered
<1>3. PICK h \in Histories(0) :
        /\ History(0, h[1], h[2], base) /\ h[2][0] = base
        /\ High(0, 0, h[1], m) = {}
  BY <1>2, Begins
<1>4. Above(wal', High(0, 0, h[1], m), base)
  BY <1>1, <1>3 DEF Above
<1>5. Recovering(0, m, h[1], h[2])'
  BY <1>1 DEF Recovering
<1>6. InService(0, m, h[2])'
  <2>1. \A k \in Nat : k + 0 = k
    OBVIOUS
  <2>2. m + 0 = m
    BY ONLY m \in Nat, <2>1
  <2> QED BY <1>1, <1>3, <2>2 DEF InService
<1>7. Story(0, m, h[1], h[2])'
  BY <1>2, <1>3, <1>4, <1>5, <1>6 DEF Story
<1>8. 0 \in Nat
  OBVIOUS
<1> QED BY <1>1, <1>7, <1>8 DEF Recorded, Histories

(* The process ends: in the log is what was answered. *)
LEMMA LogEnd ==
  ASSUME TypeInv, TypeInv', TxnInv, Calm, Kept, Judged => Recorded, Judged',
         CloseStore \/ Crash
  PROVE  Recorded'
<1>1. /\ phase' = "down" /\ UNCHANGED <<wal, snapshot>> /\ Quiet'
  BY DEF CloseStore, Crash, End, Quiet
<1>2. OneInFlight /\ Marks /\ Numbered /\ Settled
  BY DEF Kept
<1>3. Base' = Base /\ Sound(Base)
  BY <1>1, <1>2 DEF Base, Numbered
<1>4. CASE CloseStore /\ unsettled # 0 /\ wal = {}
  <2>1. allowed' = {db} /\ phase = "closing" /\ unsettled' = 0
    BY <1>4 DEF CloseStore, End
  <2>2. ~Quiet /\ \A r \in Requests : ~Pending(r)
    BY <1>2, <2>1 DEF Quiet, OneInFlight, Active, Pending
  <2>3. db = Base
    BY <1>2, <1>4, <2>2 DEF Settled
  <2> PICK base : base = Base
    OBVIOUS
  <2> PICK m : m = Size(base)
    OBVIOUS
  <2>4. m \in Nat /\ m <= m
    BY <1>3, FS_CardinalityType DEF Sound, Size
  <2>5. PICK h \in Histories(0) :
          /\ History(0, h[1], h[2], base) /\ h[2][0] = base
          /\ High(0, 0, h[1], m) = {}
    BY <1>3, <2>4, Begins
  <2>6. Above(wal', High(0, 0, h[1], m), base)
    BY <1>1, <1>4, <2>5 DEF Above
  <2>7. Recovering(0, m, h[1], h[2])'
    BY <1>1, <2>1, <2>3, <2>5 DEF Recovering
  <2>8. InService(0, m, h[2])'
    BY <1>1 DEF InService
  <2>9. Story(0, m, h[1], h[2])'
    BY <1>3, <2>4, <2>5, <2>6, <2>7, <2>8 DEF Story
  <2>10. 0 \in Nat
    OBVIOUS
  <2>11. unsettled' = 0 => m = Size(Base')
    BY <1>3
  <2> QED BY <2>4, <2>9, <2>10, <2>11 DEF Recorded, Histories
<1>5. CASE ~(CloseStore /\ unsettled # 0 /\ wal = {})
  <2>1. /\ unsettled' = 0 => unsettled = 0
        /\ Judged
    <3>1. CASE CloseStore
      <4>1. snapPc = "idle" /\ unsettled' = IF unsettled = 0 THEN 0 ELSE unsettled + 1
        BY <1>5, <3>1 DEF CloseStore
      <4>2. unsettled' \in {0, 1, 2}
        BY DEF Judged
      <4> QED BY <1>2, <4>1, <4>2 DEF Judged, Marks
    <3>2. CASE Crash
      <4>1. unsettled' = IF unsettled = 0 THEN 0
                         ELSE unsettled + (IF snapPc = "prune" THEN 2 ELSE 1)
        BY <3>2 DEF Crash
      <4>2. unsettled' \in {0, 1, 2}
        BY DEF Judged
      <4> QED BY <1>2, <4>1, <4>2 DEF Judged, Marks
    <3> QED BY <3>1, <3>2
  <2>2. PICK n \in Nat, m \in Nat : \E h \in Histories(n) :
          Story(n, m, h[1], h[2]) /\ (unsettled = 0 => m = Size(Base))
    BY <2>1 DEF Recorded
  <2>3. PICK h \in Histories(n) :
          Story(n, m, h[1], h[2]) /\ (unsettled = 0 => m = Size(Base))
    BY <2>2
  <2>4. allowed' = {} \/ h[2][n] \in allowed'
    <3>1. ASSUME ~Quiet, \A r \in Requests : ~Active(r)
          PROVE  db = h[2][n]
      BY <2>3, <3>1 DEF Story, InService, Active, Pending
    <3>2. CASE CloseStore
      <4>1. allowed' = {db} /\ phase = "closing"
        BY <3>2 DEF CloseStore, End
      <4>2. ~Quiet /\ \A r \in Requests : ~Active(r)
        BY <1>2, <4>1 DEF Quiet, OneInFlight
      <4> QED BY <3>1, <4>1, <4>2
    <3>3. CASE Crash
      <4>1. /\ phase # "down"
            /\ allowed' = IF phase \in {"snapshot", "wal"} THEN allowed
                          ELSE IF InFlight = {} THEN {db}
                          ELSE IF Concurrency = 1 THEN {db, answered} ELSE {}
        BY <3>3 DEF Crash, End
      <4>2. CASE Quiet
        BY <2>3, <4>1, <4>2 DEF Story, Recovering, Quiet
      <4>3. CASE ~Quiet
        <5>1. h[2][n] = answered
          BY <2>3, <4>3 DEF Story, InService
        <5> QED BY <3>1, <4>1, <4>3, <5>1 DEF Quiet, InFlight, Calm, OneByOne
      <4> QED BY <4>2, <4>3
    <3> QED BY <3>2, <3>3
  <2>5. CASE phase # "wal" \/ m = Size(Base)
    <3>1. Recovering(n, m, h[1], h[2])'
      BY <1>1, <2>4 DEF Recovering
    <3>2. InService(n, m, h[2])'
      BY <1>1 DEF InService
    <3>3. Above(wal, High(n, 0, h[1], m), Base)
      BY <2>3, <2>5 DEF Story
    <3>4. Story(n, m, h[1], h[2])'
      BY <1>1, <1>3, <2>3, <3>1, <3>2, <3>3 DEF Story
    <3>5. unsettled' = 0 => m = Size(Base')
      BY <1>3, <2>1, <2>3
    <3> QED BY <3>4, <3>5 DEF Recorded, Histories
  <2>6. CASE phase = "wal" /\ m # Size(Base)
    <3>1. Quiet /\ Crash /\ unsettled # 0
      BY <2>3, <2>6 DEF Quiet, CloseStore
    <3>2. unsettled' > 2
      BY <1>2, <3>1 DEF Crash, Marks
    <3> QED BY <3>2 DEF Judged
  <2> QED BY <2>5, <2>6
<1> QED BY <1>4, <1>5

(* A recovery begins. *)
LEMMA LogRestart ==
  ASSUME TypeInv, TypeInv', TxnInv, Calm, Kept, Recorded, Restart
  PROVE  Recorded'
<1>1. /\ phase = "down" /\ phase' = "snapshot" /\ todo' = SnapshotItems /\ Quiet /\ Quiet'
      /\ UNCHANGED <<wal, walSequence, db, snapshot, allowed, unsettled>>
  BY DEF Restart, snapVars, Quiet
<1>2. Base' = Base /\ Sound(Base) /\ db = EmptyDB /\ walSequence = 0
  BY <1>1 DEF Base, Kept, Numbered, Settled
<1>3. PICK n \in Nat, m \in Nat : \E h \in Histories(n) :
        Story(n, m, h[1], h[2]) /\ (unsettled = 0 => m = Size(Base))
  BY DEF Recorded
<1>4. PICK h \in Histories(n) :
        Story(n, m, h[1], h[2]) /\ (unsettled = 0 => m = Size(Base))
  BY <1>3
<1> PICK base : base = Base
  OBVIOUS
<1>5. Recovering(n, m, h[1], h[2])'
  <2>1. \E missing \in SUBSET Places(base) :
          /\ todo' = {Item(base, p) : p \in missing}
          /\ walSequence' = Size(base) - Cardinality(missing)
          /\ Partial(db', base, missing)
    <3>1. todo' = {Item(base, p) : p \in Places(base)}
      BY <1>1, ItemsOfBase
    <3>2. Partial(db', base, Places(base))
      BY <1>1, <1>2, PartialEnds
    <3>3. Cardinality(Places(base)) \in Nat
      BY <1>2, FS_CardinalityType DEF Sound
    <3>4. walSequence' = Size(base) - Cardinality(Places(base))
      BY <1>1, <1>2, <3>3 DEF Size
    <3> QED BY <3>1, <3>2, <3>4
  <2>2. allowed' = {} \/ h[2][n] \in allowed'
    BY <1>1, <1>4 DEF Story, Recovering
  <2> QED BY <1>1, <1>2, <2>1, <2>2 DEF Recovering
<1>6. InService(n, m, h[2])'
  BY <1>1 DEF InService
<1>7. Above(wal, High(n, 0, h[1], m), Base)
  BY <1>1, <1>4 DEF Story
<1>8. Story(n, m, h[1], h[2])'
  BY <1>1, <1>2, <1>4, <1>5, <1>6, <1>7 DEF Story
<1>9. unsettled' = 0 => m = Size(Base')
  BY <1>1, <1>2, <1>4
<1> QED BY <1>8, <1>9 DEF Recorded, Histories

(* The snapshot is in, and the log is read. *)
LEMMA LogCollect ==
  ASSUME TypeInv, TypeInv', TxnInv, Calm, Kept, Recorded, CollectWAL
  PROVE  Recorded'
<1>1. /\ phase = "snapshot" /\ phase' = "wal" /\ todo = {} /\ Quiet /\ Quiet'
      /\ UNCHANGED <<wal, walSequence, db, snapshot, allowed, unsettled>>
  BY DEF CollectWAL, snapVars, historyVars, Quiet
<1>2. Base' = Base /\ Sound(Base)
  BY <1>1 DEF Base, Kept, Numbered
<1>3. PICK n \in Nat, m \in Nat : \E h \in Histories(n) :
        Story(n, m, h[1], h[2]) /\ (unsettled = 0 => m = Size(Base))
  BY DEF Recorded
<1>4. PICK h \in Histories(n) :
        Story(n, m, h[1], h[2]) /\ (unsettled = 0 => m = Size(Base))
  BY <1>3
<1> DEFINE ops == h[1]
           ds == h[2]
<1>5. /\ Above(wal, High(n, 0, ops, m), Base) /\ ds[0] = Base
      /\ allowed = {} \/ ds[n] \in allowed
  BY <1>1, <1>4 DEF Story, Recovering, History
<1>6. PICK missing \in SUBSET Places(Base) :
        /\ todo = {Item(Base, p) : p \in missing}
        /\ walSequence = Size(Base) - Cardinality(missing)
        /\ Partial(db, Base, missing)
  BY <1>1, <1>4 DEF Story, Recovering
<1> HIDE DEF ops, ds
<1>7. missing = {}
  BY <1>1, <1>6
<1>8. db = Base /\ walSequence = Size(Base) + 0
  <2>1. db = Base
    BY <1>2, <1>6, <1>7, PartialEnds
  <2>2. Size(Base) \in Nat
    BY <1>2, FS_CardinalityType DEF Sound, Size
  <2> QED BY <1>6, <1>7, <2>1, <2>2, FS_EmptySet
<1>9. \A e \in wal : e.txn = None /\ ~e.last
  <2>0. 0 \in Nat
    OBVIOUS
  <2>1. \A e \in High(n, 0, ops, m) : e.txn = None /\ ~e.last
    BY <1>3, <2>0, HighEntries
  <2>2. \A e \in Low(Base) : e.txn = None /\ ~e.last
    BY <1>2, LowEntries
  <2> QED BY <1>5, <2>1, <2>2 DEF Above
<1>10. todo' = wal
  <2>1. CompleteTransactions = {}
    BY <1>9 DEF CompleteTransactions
  <2> DEFINE above == 1 + Cardinality(wal) + walSequence
                       + Cardinality(UNION {1..e.seq : e \in wal})
  <2>2. PICK rank : todo' = {e \in wal : e.txn = None} \cup
                         {[e EXCEPT !.seq = above * rank[e.txn] + e.seq] :
                            e \in {f \in wal : f.txn \in CompleteTransactions}}
    BY DEF CollectWAL, above
  <2> HIDE DEF above
  <2>3. {f \in wal : f.txn \in CompleteTransactions} = {}
    BY <2>1
  <2> QED BY <1>9, <2>2, <2>3
<1>11. Recovering(n, m, ops, ds)'
  <2>1. 0 \in 0..n
    BY <1>3
  <2>2. /\ db' = ds[0] /\ walSequence' = Size(Base') + 0
        /\ Above(todo', High(n, 0, ops, m), Base')
    BY <1>1, <1>2, <1>5, <1>8, <1>10
  <2> QED BY <1>1, <1>5, <2>1, <2>2 DEF Recovering
<1>12. InService(n, m, ds)'
  BY <1>1 DEF InService
<1>13. Story(n, m, ops, ds)'
  BY <1>1, <1>2, <1>4, <1>5, <1>11, <1>12 DEF Story, ops, ds
<1>14. unsettled' = 0 => m = Size(Base')
  BY <1>1, <1>2, <1>4
<1> QED BY <1>13, <1>14 DEF Recorded, Histories, ops, ds

(* The log is replayed, and requests are taken. *)
LEMMA LogServe ==
  ASSUME TypeInv, TypeInv', TxnInv, Calm, Kept, Recorded, Serve, unsettled = 0
  PROVE  Recorded'
<1>1. /\ phase = "wal" /\ todo = {} /\ phase' = "serving" /\ Quiet /\ ~Quiet'
      /\ UNCHANGED <<wal, walSequence, db, snapshot, unsettled, pc>> /\ answered' = db
      /\ \A r \in Requests : ~Pending(r)'
  BY DEF Serve, snapVars, requestVars, Quiet, TxnInv, Active, Pending
<1>2. Base' = Base /\ Sound(Base)
  BY <1>1 DEF Base, Kept, Numbered
<1>3. PICK n \in Nat, m \in Nat : \E h \in Histories(n) :
        Story(n, m, h[1], h[2]) /\ (unsettled = 0 => m = Size(Base))
  BY DEF Recorded
<1>4. PICK h \in Histories(n) :
        Story(n, m, h[1], h[2]) /\ (unsettled = 0 => m = Size(Base))
  BY <1>3
<1> DEFINE ops == h[1]
           ds == h[2]
<1>5. Above(wal, High(n, 0, ops, m), Base) /\ m = Size(Base)
  BY <1>4 DEF Story
<1>6. PICK j \in 0..n : /\ db = ds[j] /\ walSequence = Size(Base) + j
                        /\ Above(todo, High(n, j, ops, m), Base)
  BY <1>1, <1>4 DEF Story, Recovering
<1> HIDE DEF ops, ds
<1>7. j = n
  <2> SUFFICES ASSUME j < n PROVE FALSE
    BY <1>3
  <2>1. n \in j + 1..n /\ j \in Nat
    BY <1>3
  <2>2. Entry(ops[n], m + n) \in High(n, j, ops, m)
    BY <1>3, <2>1, HighEntries
  <2> QED BY <1>1, <1>6, <2>2 DEF Above
<1>8. InService(n, m, ds)'
  BY <1>1, <1>5, <1>6, <1>7 DEF InService
<1>9. Recovering(n, m, ops, ds)'
  BY <1>1 DEF Recovering
<1>10. Story(n, m, ops, ds)'
  BY <1>1, <1>2, <1>4, <1>5, <1>8, <1>9 DEF Story, ops, ds
<1>11. unsettled' = 0 => m = Size(Base')
  BY <1>1, <1>2, <1>4
<1> QED BY <1>10, <1>11 DEF Recorded, Histories, ops, ds

(* An item of the snapshot is replayed: one place less is missing, and what is
   logged of it is below the history. *)
LEMMA LogReplayItem ==
  ASSUME TypeInv, TypeInv', TxnInv, Calm, Kept, Recorded, Replay, phase = "snapshot"
  PROVE  Recorded'
<1>1. /\ phase' = "snapshot" /\ Quiet /\ Quiet'
      /\ UNCHANGED <<snapshot, allowed, unsettled>>
  BY DEF Replay, snapVars, Quiet
<1>2. Base' = Base /\ Sound(Base)
  BY <1>1 DEF Base, Kept, Numbered
<1>3. PICK n \in Nat, m \in Nat : \E h \in Histories(n) :
        Story(n, m, h[1], h[2]) /\ (unsettled = 0 => m = Size(Base))
  BY DEF Recorded
<1>4. PICK h \in Histories(n) :
        Story(n, m, h[1], h[2]) /\ (unsettled = 0 => m = Size(Base))
  BY <1>3
<1> DEFINE ops == h[1]
           ds == h[2]
<1> PICK base : base = Base
  OBVIOUS
<1>5. /\ Above(wal, High(n, 0, ops, m), base) /\ Size(base) <= m
      /\ allowed = {} \/ ds[n] \in allowed
  BY <1>1, <1>4 DEF Story, Recovering
<1>6. PICK missing \in SUBSET Places(base) :
        /\ todo = {Item(base, p) : p \in missing}
        /\ walSequence = Size(base) - Cardinality(missing)
        /\ Partial(db, base, missing)
  BY <1>1, <1>4 DEF Story, Recovering
<1> HIDE DEF ops, ds
<1>7. PICK e \in todo :
        /\ \A f \in todo : e.seq <= f.seq
        /\ todo' = todo \ {e}
        /\ Redo(e.what)
  BY DEF Replay
<1>8. PICK p \in missing : e = Item(base, p)
  BY <1>6, <1>7
<1> PICK q : q = Item(base, p).what
  OBVIOUS
<1>9. Effective(db, q) /\ Partial(Result(db, q), base, missing \ {p})
  <2>1. \A s \in missing : Item(base, p).seq <= Item(base, s).seq
    BY <1>6, <1>7, <1>8
  <2>2. p[2] # None => <<p[1], None>> \notin missing
    BY <1>2, <2>1, FirstItem
  <2> QED BY <1>2, <1>6, <2>2, ItemRebuilds
<1> PICK k : k = walSequence + 1
  OBVIOUS
<1>10. db' = Result(db, q) /\ walSequence' = k /\ wal' = Logged(wal, Entry(q, k))
  BY <1>7, <1>8, <1>9 DEF Redo
<1>11. /\ k = Size(base) - Cardinality(missing \ {p})
       /\ k \in 1..Size(base) /\ Size(base) \in Nat
  <2>1. IsFiniteSet(Places(base)) /\ Size(base) \in Nat
    BY <1>2, FS_CardinalityType DEF Sound, Size
  <2>2. /\ IsFiniteSet(missing) /\ Cardinality(missing) <= Size(base)
        /\ Cardinality(missing) \in Nat
    BY <2>1, FS_Subset, FS_CardinalityType DEF Size
  <2>3. Cardinality(missing \ {p}) = Cardinality(missing) - 1
    BY <1>8, <2>2, FS_RemoveElement
  <2>4. /\ Cardinality(missing) # 0
    BY <1>8, <2>2, FS_EmptySet
  <2>5. walSequence \in Nat
    BY DEF TypeInv, TypeOK
  <2> QED BY <1>6, <2>1, <2>2, <2>3, <2>4, <2>5
<1>12. todo' = {Item(base, s) : s \in missing \ {p}}
  <2>1. \A s \in missing : Item(base, s) = e => s = p
    BY <1>2, <1>8, ItemsDiffer
  <2> QED BY <1>6, <1>7, <1>8, <2>1
<1>13. Above(wal', High(n, 0, ops, m), base)
  <2>1. Entry(q, k).seq = k
    BY DEF Entry
  <2>2. Entry(q, k) \in Low(base)
    BY <1>8, <1>11 DEF Low
  <2>3. \A f \in High(n, 0, ops, m) : f.seq # k
    <3> SUFFICES ASSUME NEW f \in High(n, 0, ops, m) PROVE f.seq # k
      OBVIOUS
    <3>0. 0 \in Nat
      OBVIOUS
    <3>1. PICK j \in 0 + 1..n : f.seq = m + j
      BY <1>3, <3>0, HighEntries
    <3> QED BY <1>3, <1>5, <1>11, <3>1
  <2>4. ASSUME NEW f \in wal, f.seq # k
        PROVE  f \in wal'
    BY <1>10, <2>1, <2>4 DEF Logged, SameKey
  <2>5. wal' \subseteq wal \cup {Entry(q, k)}
    BY <1>10 DEF Logged
  <2> QED BY <1>5, <2>2, <2>3, <2>4, <2>5 DEF Above
<1>14. Recovering(n, m, ops, ds)'
  <2>1. \E lacking \in SUBSET Places(base) :
          /\ todo' = {Item(base, s) : s \in lacking}
          /\ walSequence' = Size(base) - Cardinality(lacking)
          /\ Partial(db', base, lacking)
    <3>1. missing \ {p} \in SUBSET Places(base)
      OBVIOUS
    <3> QED BY <1>9, <1>10, <1>11, <1>12, <3>1
  <2> QED BY <1>1, <1>2, <1>5, <2>1 DEF Recovering
<1>15. InService(n, m, ds)'
  BY <1>1 DEF InService
<1>16. Story(n, m, ops, ds)'
  BY <1>2, <1>4, <1>5, <1>13, <1>14, <1>15 DEF Story, ops, ds
<1>17. unsettled' = 0 => m = Size(Base')
  BY <1>1, <1>2, <1>4
<1> QED BY <1>3, <1>16, <1>17 DEF Recorded, Histories, ops, ds

(* An entry is replayed: the first of the history that is left, or one that
   was logged of the snapshot and has no effect. *)
LEMMA LogReplayEntry ==
  ASSUME TypeInv, TypeInv', TxnInv, Calm, Kept, Recorded, Replay, phase = "wal"
  PROVE  Recorded'
<1>1. /\ phase' = "wal" /\ Quiet /\ Quiet'
      /\ UNCHANGED <<snapshot, allowed, unsettled>>
  BY DEF Replay, snapVars, Quiet
<1>2. Base' = Base /\ Sound(Base)
  BY <1>1 DEF Base, Kept, Numbered
<1>3. PICK n \in Nat, m \in Nat : \E h \in Histories(n) :
        Story(n, m, h[1], h[2]) /\ (unsettled = 0 => m = Size(Base))
  BY DEF Recorded
<1>4. PICK h \in Histories(n) :
        Story(n, m, h[1], h[2]) /\ (unsettled = 0 => m = Size(Base))
  BY <1>3
<1> DEFINE ops == h[1]
           ds == h[2]
<1> PICK base : base = Base
  OBVIOUS
<1> PICK d : d = db
  OBVIOUS
<1> PICK size : size = Size(base)
  OBVIOUS
<1>5. /\ Size(base) <= m /\ History(n, ops, ds, base)
      /\ allowed = {} \/ ds[n] \in allowed
      /\ m = Size(base) => Above(wal, High(n, 0, ops, m), base)
      /\ ops \in [1..n -> Operation] /\ ds \in [0..n -> Database]
  BY <1>1, <1>4 DEF Story, Recovering, Histories
<1>6. PICK j \in 0..n :
        /\ db = ds[j] /\ walSequence = Size(base) + j
        /\ Above(todo, High(n, j, ops, m), base)
        /\ j # 0 => todo = High(n, j, ops, m)
  BY <1>1, <1>4 DEF Story, Recovering
<1> HIDE DEF ops, ds
<1>7. PICK e \in todo :
        /\ \A f \in todo : e.seq <= f.seq
        /\ todo' = todo \ {e}
        /\ IF ReplayedAs(e) = {} THEN UNCHANGED <<db, walSequence, wal>>
           ELSE \E q \in ReplayedAs(e) : Redo(q)
  BY <1>1 DEF Replay
<1>8. Size(base) \in Nat
  BY <1>2, FS_CardinalityType DEF Sound, Size
<1>9. /\ \A f \in Low(base) : f.seq \in 1..Size(base)
      /\ \A f \in High(n, j, ops, m) :
           \E k \in j + 1..n : f = Entry(ops[k], m + k) /\ f.seq = m + k
  <2>1. j \in Nat
    BY <1>6
  <2> QED BY <1>2, <1>3, <2>1, LowEntries, HighEntries
<1>10. ASSUME NEW i \in 0..n, db' = ds[i], walSequence' = Size(base) + i,
              m = Size(base) => wal' = wal,
              Above(todo', High(n, i, ops, m), base),
              i # 0 => todo' = High(n, i, ops, m)
       PROVE  Recorded'
  <2>1. Recovering(n, m, ops, ds)'
    BY <1>1, <1>2, <1>5, <1>10 DEF Recovering
  <2>2. InService(n, m, ds)'
    BY <1>1 DEF InService
  <2>3. phase' # "wal" \/ m = Size(Base') => Above(wal', High(n, 0, ops, m), Base')
    BY <1>1, <1>2, <1>5, <1>10
  <2>4. Story(n, m, ops, ds)'
    BY <1>2, <1>5, <2>1, <2>2, <2>3 DEF Story
  <2>5. unsettled' = 0 => m = Size(Base')
    BY <1>1, <1>2, <1>4
  <2> QED BY <1>3, <2>4, <2>5 DEF Recorded, Histories, ops, ds
<1>11. CASE e \in Low(base)
  <2>1. e \notin High(n, j, ops, m)
    BY <1>3, <1>5, <1>8, <1>9, <1>11
  <2>2. j = 0 /\ db = base
    BY <1>5, <1>6, <1>7, <2>1 DEF History
  <2>3. \A q \in ReplayedAs(e) : ~Effective(db, q)
    BY <1>2, <1>11, <2>2, LowNoEffect
  <2>4. UNCHANGED <<db, walSequence, wal>>
    BY <1>7, <2>3 DEF Redo
  <2>5. Above(todo', High(n, j, ops, m), base)
    BY <1>6, <1>7, <2>1 DEF Above
  <2> QED BY <1>6, <1>10, <2>2, <2>4, <2>5
<1>12. CASE e \notin Low(base)
  <2>1. e \in High(n, j, ops, m)
    BY <1>6, <1>7, <1>12 DEF Above
  <2>2. PICK k \in j + 1..n : e = Entry(ops[k], m + k) /\ e.seq = m + k
    BY <1>9, <2>1
  <2>3. j + 1 \in 1..n /\ j + 1 \in j + 1..n /\ j \in Nat
    BY <1>3, <1>6, <2>2
  <2>4. k = j + 1
    <3>1. Entry(ops[j + 1], m + (j + 1)) \in todo
      <4>1. Entry(ops[j + 1], m + (j + 1)) \in High(n, j, ops, m)
        BY <1>3, <2>3, HighEntries
      <4> QED BY <1>6, <4>1 DEF Above
    <3>2. Entry(ops[j + 1], m + (j + 1)).seq = m + (j + 1)
      BY DEF Entry
    <3>3. m + k <= m + (j + 1)
      BY <1>7, <2>2, <3>1, <3>2
    <3> QED BY <1>3, <2>2, <2>3, <3>3
  <2> PICK i : i = j + 1
    OBVIOUS
  <2> PICK q : q = ops[i]
    OBVIOUS
  <2>5. e = Entry(q, m + i) /\ i \in 1..n /\ i \in 0..n /\ e.seq = m + i
    BY <1>3, <2>2, <2>3, <2>4
  <2>6. q \in Operation /\ Named(q) /\ Effective(db, q) /\ ds[i] = Result(db, q)
    <3>1. i - 1 = j
      BY <2>3
    <3> QED BY <1>5, <1>6, <2>5, <3>1 DEF History
  <2>7. Redo(q)
    <3>1. ReplayedAs(e) = {q}
      BY <2>5, <2>6, ReplayedExactly DEF Calm
    <3> QED BY <1>7, <3>1
  <2>8. /\ db' = ds[i] /\ walSequence' = Size(base) + j + 1
        /\ wal' = Logged(wal, Entry(q, Size(base) + j + 1))
    BY <1>6, <2>6, <2>7 DEF Redo
  <2>9. Size(base) + j + 1 = Size(base) + i
    BY <1>8, <2>3
  <2>10. todo = High(n, j, ops, m)
    <3>1. \A f \in todo : f.seq > Size(base)
      <4> SUFFICES ASSUME NEW f \in todo PROVE f.seq > Size(base)
        OBVIOUS
      <4>1. e.seq <= f.seq /\ f.seq \in Nat
        BY <1>7 DEF TypeInv, TypeOK, LogEntry
      <4> QED BY <1>3, <1>5, <1>8, <2>3, <2>5, <4>1
    <3>2. \A f \in todo : f \notin Low(base)
      BY <1>8, <1>9, <3>1
    <3> QED BY <1>6, <3>2 DEF Above
  <2>11. todo' = High(n, i, ops, m)
    <3>1. j + 1..n = {j + 1} \cup i + 1..n /\ j + 1 \notin i + 1..n
      BY <1>3, <2>3
    <3>2. High(n, j, ops, m) = {e} \cup High(n, i, ops, m)
      BY <2>5, <3>1 DEF High
    <3>3. e \notin High(n, i, ops, m)
      <4> SUFFICES ASSUME e \in High(n, i, ops, m) PROVE FALSE
        OBVIOUS
      <4>0. i \in Nat
        BY <2>3
      <4>1. PICK l \in i + 1..n : e.seq = m + l
        BY <1>3, <4>0, HighEntries
      <4> QED BY <1>3, <2>3, <2>5, <4>1
    <3> QED BY <1>7, <2>10, <3>2, <3>3
  <2>12. ASSUME m = Size(base) PROVE wal' = wal
    <3>1. wal' = Logged(wal, e)
      BY <2>5, <2>8, <2>9, <2>12
    <3>2. Above(wal, High(n, 0, ops, m), base)
      BY <1>5, <2>12
    <3>3. \A f \in wal : f.seq = e.seq => f = e
      <4> SUFFICES ASSUME NEW f \in wal, f.seq = e.seq PROVE f = e
        OBVIOUS
      <4>0. 0 \in Nat
        OBVIOUS
      <4>1. f \notin Low(base)
        BY <1>3, <1>5, <1>8, <1>9, <2>5
      <4>2. f \in High(n, 0, ops, m)
        BY <3>2, <4>1 DEF Above
      <4>3. PICK l \in 0 + 1..n : f = Entry(ops[l], m + l) /\ f.seq = m + l
        <5>1. \E l \in 0 + 1..n : /\ f = Entry(ops[l], m + l) /\ f.seq = m + l
                                  /\ f.txn = None /\ ~f.last
          BY <1>3, <4>0, <4>2, HighEntries
        <5> QED BY <5>1
      <4>4. l = i
        BY <1>3, <2>5, <4>3
      <4> QED BY <2>5, <4>3, <4>4
    <3>4. e \in wal
      <4>0. 0 \in Nat /\ i \in 0 + 1..n
        BY <2>5
      <4>1. Entry(ops[i], m + i) \in High(n, 0, ops, m)
        BY <1>3, <4>0, HighEntries
      <4> QED BY <2>5, <3>2, <4>1 DEF Above
    <3> QED BY <3>1, <3>3, <3>4 DEF Logged, SameKey
  <2>13. Above(todo', High(n, i, ops, m), base)
    BY <2>11 DEF Above
  <2> QED BY <1>10, <2>5, <2>8, <2>9, <2>11, <2>12, <2>13
<1> QED BY <1>11, <1>12

(* Every step keeps the log the history of the store. *)
LEMMA LogStep ==
  ASSUME TypeInv, TypeInv', TxnInv, LogInv, [Next]_vars
  PROVE  LogInv'
<1>0. txns' \in {txns, txns + 1}
  BY DEF Next, vars, historyVars, Commit, TakeSequence, WriteEntry,
     BeginTransaction, AbortTransaction, CommitTransaction, AddToTransaction,
     TakeTxnSequence, WriteTxnEntry, WriteTxnFails, SnapshotBegin, SnapshotDefinition,
     SnapshotEntities, SnapshotWrite, SnapshotPrune, SnapshotPruneFails, SnapshotFails,
     Shutdown, CloseManager, CloseStore, Crash, End, Restart, Replay, CollectWAL, Serve
<1>1. txns' \in Nat /\ (txns' = 0 => txns = 0)
  BY <1>0 DEF LogInv
<1>2. snapshot' = None => snapshot = None
  BY NoneAssumption
  DEF Next, vars, TypeInv, TypeOK, Commit, TakeSequence, WriteEntry,
     BeginTransaction, AbortTransaction, CommitTransaction, AddToTransaction,
     TakeTxnSequence, WriteTxnEntry, WriteTxnFails, SnapshotBegin, SnapshotDefinition,
     SnapshotEntities, SnapshotWrite, SnapshotPrune, SnapshotPruneFails, SnapshotFails,
     Shutdown, CloseManager, CloseStore, Crash, End, Restart, Replay, CollectWAL, Serve
<1> SUFFICES ASSUME Calm' PROVE Kept' /\ (Judged' => Recorded')
  BY <1>1 DEF LogInv
<1>3. Calm
  BY <1>1, <1>2 DEF Calm, OneByOne
<1>4. Kept /\ Marks /\ (Judged => Recorded)
  BY <1>3 DEF LogInv, Kept
<1>5. ASSUME NEW r \in Requests, CommitTransaction(r) PROVE FALSE
  BY <1>1, <1>5 DEF CommitTransaction, LogInv, Calm
<1>6. ASSUME NEW r \in Requests,
             TakeTxnSequence(r) \/ WriteTxnEntry(r) \/ WriteTxnFails(r)
      PROVE  FALSE
  BY <1>4, <1>6 DEF TakeTxnSequence, WriteTxnEntry, WriteTxnFails, Kept, OneInFlight,
     Committing
<1>7. ASSUME UNCHANGED unsettled, snapPc' = "prune" <=> snapPc = "prune",
             Quiet' => Quiet, Judged'
      PROVE  Judged
  BY <1>7 DEF Judged
<1>8. ASSUME NEW r \in Requests,
             \/ \E q \in Workload : Commit(r, q)
             \/ \E q \in TxnWorkload : AddToTransaction(r, q)
             \/ TakeSequence(r)
             \/ BeginTransaction(r) \/ AbortTransaction(r)
      PROVE  Kept' /\ (Judged' => Recorded')
  <2>1. Kept' /\ ~Quiet' /\ UNCHANGED <<unsettled, snapPc>>
    BY <1>3, <1>4, <1>8, KeptRequests
  <2>2. Judged => Recorded'
    BY <1>3, <1>4, <1>8, LogRequests
  <2> QED BY <1>7, <2>1, <2>2
<1>9. ASSUME NEW r \in Requests, WriteEntry(r)
      PROVE  Kept' /\ (Judged' => Recorded')
  <2>1. Kept' /\ UNCHANGED <<unsettled, snapPc, phase>>
    BY <1>3, <1>4, <1>9, KeptWrite DEF WriteEntry, snapVars
  <2>2. Judged => Recorded'
    BY <1>3, <1>4, <1>9, LogWrite
  <2> QED BY <1>7, <2>1, <2>2 DEF Quiet
<1>10. CASE \/ SnapshotBegin \/ SnapshotDefinition \/ SnapshotEntities \/ SnapshotFails
            \/ CloseManager \/ Shutdown \/ UNCHANGED vars
  <2>1. /\ Kept' /\ UNCHANGED unsettled
        /\ snapPc' = "prune" <=> snapPc = "prune"
        /\ phase' = phase \/ (~Quiet /\ ~Quiet')
    BY <1>3, <1>4, <1>10, KeptSnapshot
  <2>2. ASSUME Judged PROVE Recorded'
    <3>1. Recorded
      BY <1>4, <2>2
    <3> QED BY <1>3, <1>4, <1>10, <3>1, LogSnapshot
  <2> QED BY <1>7, <2>1, <2>2 DEF Quiet
<1>11. CASE SnapshotWrite \/ SnapshotPruneFails
  BY <1>3, <1>4, <1>11, KeptSnapshotWrite DEF Judged
<1>12. CASE SnapshotPrune
  BY <1>3, <1>4, <1>12, KeptSnapshotWrite, LogPrune
<1>13. CASE CloseStore \/ Crash
  BY <1>3, <1>4, <1>13, KeptEnd, LogEnd
<1>14. CASE Restart \/ CollectWAL
  <2>1. Kept' /\ UNCHANGED <<unsettled, snapPc>> /\ Quiet
    BY <1>3, <1>4, <1>14, KeptRecovery DEF Restart, CollectWAL, snapVars, Quiet
  <2>2. Judged => Recorded'
    BY <1>3, <1>4, <1>14, LogRestart, LogCollect
  <2> QED BY <1>7, <2>1, <2>2
<1>15. CASE Replay
  <2>1. Kept' /\ UNCHANGED <<unsettled, snapPc>> /\ Quiet /\ phase \in {"snapshot", "wal"}
    BY <1>3, <1>4, <1>15, KeptReplay DEF Replay, snapVars, Quiet
  <2>2. Judged => Recorded'
    BY <1>3, <1>4, <1>15, <2>1, LogReplayItem, LogReplayEntry
  <2> QED BY <1>7, <2>1, <2>2
<1>16. CASE Serve
  <2>1. Kept' /\ UNCHANGED unsettled /\ Quiet /\ ~Quiet'
    BY <1>3, <1>4, <1>16, KeptRecovery DEF Serve, snapVars, Quiet
  <2>2. Judged' => unsettled = 0
    BY <1>4, <2>1 DEF Judged, Marks
  <2>3. unsettled = 0 => Recorded
    BY <1>4 DEF Judged
  <2> QED BY <1>3, <1>4, <1>16, <2>1, <2>2, <2>3, LogServe
<1> QED BY <1>5, <1>6, <1>8, <1>9, <1>10, <1>11, <1>12, <1>13, <1>14, <1>15, <1>16 DEF Next

(* All invariants together. *)
LEMMA LogInductive == Spec => [](TypeInv /\ TxnInv /\ FirstInv /\ LogInv)
<1>1. Init => FirstInv /\ LogInv
  <2> SUFFICES ASSUME Init PROVE FirstInv /\ LogInv
    OBVIOUS
  <2>1. FirstInv
    BY DEF Init, FirstInv, Quiet
  <2>2. ~Quiet /\ Base = EmptyDB /\ 0 \in Nat
    BY DEF Init, Quiet, Base
  <2>3. Kept
    <3>1. OneInFlight /\ AllNamed /\ Copying
      BY DEF Init, OneInFlight, AllNamed, Copying, Active, Committing, Pending
    <3>2. Marks /\ Numbered /\ Settled
      BY <2>2, EmptySound DEF Init, Marks, Numbered, Settled, Quiet
    <3> QED BY <3>1, <3>2 DEF Kept
  <2>4. Recorded
    <3>1. PICK h \in Histories(0) :
            /\ History(0, h[1], h[2], EmptyDB) /\ h[2][0] = EmptyDB
            /\ High(0, 0, h[1], 0) = {}
      BY <2>2, EmptySound, Begins
    <3>2. Story(0, 0, h[1], h[2])
      BY <2>2, <3>1, EmptySound
      DEF Init, Story, Above, Recovering, InService, Pending
    <3> QED BY <2>2, <3>2, EmptySound DEF Recorded
  <2> QED BY <2>1, <2>3, <2>4 DEF LogInv, Init
<1>2. TypeInv /\ TxnInv /\ FirstInv /\ LogInv /\ TypeInv' /\ [Next]_vars
        => FirstInv' /\ LogInv'
  BY FirstStep, LogStep
<1> QED BY <1>1, <1>2, TypeInductive, TxnInductive, PTL DEF Spec

(* The order in which LoadWAL sorts the log is the only one. *)
THEOREM NumbersDistinct == Spec => []SequenceNumbersDistinct
<1>1. FirstInv /\ LogInv => SequenceNumbersDistinct
  <2> SUFFICES ASSUME FirstInv, LogInv, NEW e \in wal, NEW f \in wal, e.seq = f.seq,
                      crashes = 0 \/ (OneByOne /\ snapshot = None /\ txns = 0)
               PROVE  e = f
    BY DEF SequenceNumbersDistinct
  <2>1. CASE crashes = 0
    BY <2>1 DEF FirstInv
  <2>2. CASE OneByOne /\ snapshot = None /\ txns = 0
    <3>1. Calm /\ Base = EmptyDB
      BY <2>2 DEF Calm, Base
    <3>2. unsettled = 0 /\ Recorded
      BY <2>2, <3>1 DEF LogInv, Kept, Marks, Judged
    <3>3. PICK n \in Nat, m \in Nat : \E h \in Histories(n) :
            Story(n, m, h[1], h[2]) /\ (unsettled = 0 => m = Size(Base))
      BY <3>2 DEF Recorded
    <3>4. PICK h \in Histories(n) : Story(n, m, h[1], h[2]) /\ m = Size(Base)
      BY <3>2, <3>3
    <3>5. wal \subseteq High(n, 0, h[1], m)
      BY <3>1, <3>4, EmptySound DEF Story, Above, Low
    <3>6. 0 \in Nat
      OBVIOUS
    <3>7. \A g \in wal : \E k \in 0 + 1..n : g = Entry(h[1][k], m + k) /\ g.seq = m + k
      <4> SUFFICES ASSUME NEW g \in wal
                   PROVE  \E k \in 0 + 1..n : g = Entry(h[1][k], m + k) /\ g.seq = m + k
        OBVIOUS
      <4>1. g \in High(n, 0, h[1], m)
        BY <3>5
      <4>2. \E k \in 0 + 1..n : /\ g = Entry(h[1][k], m + k) /\ g.seq = m + k
                                /\ g.txn = None /\ ~g.last
        BY <3>3, <3>6, <4>1, HighEntries
      <4> QED BY <4>2
    <3>8. PICK k \in 0 + 1..n : e = Entry(h[1][k], m + k) /\ e.seq = m + k
      BY <3>7
    <3>9. PICK l \in 0 + 1..n : f = Entry(h[1][l], m + l) /\ f.seq = m + l
      BY <3>7
    <3>10. k = l
      BY <3>3, <3>8, <3>9
    <3> QED BY <3>8, <3>9, <3>10
  <2> QED BY <2>1, <2>2
<1> QED BY <1>1, LogInductive, PTL

(* A recovery that is judged has made of the log what the store was. *)
LEMMA Recovered ==
  ASSUME LogInv, Calm, Judged
  PROVE  RecoversAnswered
<1> SUFFICES ASSUME phase = "wal", todo = {}, allowed # {}
             PROVE  db \in allowed
  BY DEF RecoversAnswered
<1>1. PICK n \in Nat, m \in Nat : \E h \in Histories(n) : Story(n, m, h[1], h[2])
  BY DEF LogInv, Recorded
<1>2. PICK h \in Histories(n) : Story(n, m, h[1], h[2])
  BY <1>1
<1>3. PICK j \in 0..n : db = h[2][j] /\ Above(todo, High(n, j, h[1], m), Base)
  BY <1>2 DEF Story, Recovering, Quiet
<1>4. h[2][n] \in allowed
  BY <1>2 DEF Story, Recovering, Quiet
<1>5. j = n
  <2> SUFFICES ASSUME j < n PROVE FALSE
    BY <1>1
  <2>1. n \in j + 1..n /\ j \in Nat
    BY <1>1
  <2>2. Entry(h[1][n], m + n) \in High(n, j, h[1], m)
    BY <1>1, <2>1, HighEntries
  <2> QED BY <1>3, <2>2 DEF Above
<1> QED BY <1>3, <1>4, <1>5

(* Requests one at a time, for one type, without snapshots and transactions:
   after any number of crashes, in the middle of a write or of a recovery, the
   store comes back as it was answered, with or without the request that was in
   flight. *)
THEOREM LogRecovers ==
  Spec => [](OneByOne /\ snapshot = None /\ txns = 0 => RecoversAnswered)
<1>1. LogInv => (OneByOne /\ snapshot = None /\ txns = 0 => RecoversAnswered)
  <2> SUFFICES ASSUME LogInv, OneByOne, snapshot = None, txns = 0
               PROVE  RecoversAnswered
    OBVIOUS
  <2>1. Calm
    BY DEF Calm
  <2>2. Judged
    BY <2>1 DEF LogInv, Kept, Marks, Judged
  <2> QED BY <2>1, <2>2, Recovered
<1> QED BY <1>1, LogInductive, PTL

(* The same with snapshots, if they are taken while no request is in flight,
   and with shutdowns: the store comes back as it was answered, after any number
   of crashes from the log alone or after a shutdown, wherever the snapshot, the
   pruning or the recovery was interrupted or failed, and after one crash since a
   snapshot that was followed by its pruning. *)
THEOREM RecoversOnce ==
  Spec => [](OneByOne /\ ~LiveSnapshots => RecoversAnsweredOnce)
<1>1. LogInv => (OneByOne /\ ~LiveSnapshots => RecoversAnsweredOnce)
  <2> SUFFICES ASSUME LogInv, OneByOne, ~LiveSnapshots, unsettled <= 2, txns = 0,
                      phase = "wal"
               PROVE  RecoversAnswered
    BY DEF RecoversAnsweredOnce, RecoversAnswered
  <2>1. Calm
    BY DEF Calm
  <2>2. Judged
    BY <2>1 DEF LogInv, Kept, Marks, Judged, Quiet
  <2> QED BY <2>1, <2>2, Recovered
<1> QED BY <1>1, LogInductive, PTL
=============================================================================
