----------------------------- MODULE Durability -----------------------------
(***************************************************************************)
(* The write-ahead log, its transactions, the snapshots, the shutdown and  *)
(* the recovery of SyncopateDB (internal/persistence/wal.go,               *)
(* persistence.go, manager.go; NewDataStoreEngine; Server.Start).          *)
(*                                                                         *)
(* A request changes the store in memory in one step (EngineRefinement is  *)
(* the ground for that), then takes a sequence number, then writes its log *)
(* entry to Badger, then answers.  A snapshot is taken type by type beside *)
(* the requests, written, and the log pruned.  The process may crash at    *)
(* any moment, also while it recovers; a graceful shutdown waits for the   *)
(* requests, takes a last snapshot and closes the store.                   *)
(*                                                                         *)
(* Recovery replays the snapshot and then the log THROUGH THE STORE, whose *)
(* persistence provider is already set: everything that is replayed with   *)
(* an effect is logged again, with sequence numbers that start at 1 in     *)
(* every process.                                                          *)
(***************************************************************************)
EXTENDS Naturals, SequencesExt

CONSTANTS
  Requests,      \* the goroutines that serve requests, one request each:
                 \* numbers, in the order in which they are admitted
  Types,         \* entity type names: numbers, in the order of sort.Strings
  IDs,
  Values,        \* what an entity holds
  Defs,          \* definitions a type can have
  None,          \* no entity, no definition, no value, no ID
  Workload,      \* the requests clients may send
  TxnWorkload,   \* the operations that may be put into a transaction
  MaxTxns,       \* none is begun after so many transactions were committed
  MaxTxnSize,    \* how many operations a transaction has at most
  Concurrency,   \* how many requests may be in flight at a time
  MaxCrashes,    \* how often the process ends, by a crash or a shutdown
  MaxSnapshots,  \* how many snapshots are written before a shutdown
  LiveSnapshots  \* whether a snapshot may be taken beside requests in flight

Ops == {"register", "updatetype", "insert", "update", "delete", "truncate",
        "truncatedb"}

(* A truncation of the whole database names no type. *)
Operation == [op: Ops, type: Types \cup {None}, id: IDs \cup {None},
              val: Values \cup {None}, def: Defs \cup {None}]

(* Every other operation names a type, one on an entity its ID, and one that
   stores something what it stores. *)
Named(q) ==
  /\ q.op # "truncatedb" => q.type \in Types
  /\ q.op \in {"insert", "update", "delete"} => q.id \in IDs
  /\ q.op \in {"insert", "update"} => q.val \in Values
  /\ q.op \in {"register", "updatetype"} => q.def \in Defs

ASSUME DurabilityAssumption ==
  /\ Requests \subseteq Nat
  /\ Types \subseteq Nat /\ IsFiniteSet(Types) /\ Types # {}
  /\ None \notin Types \cup IDs \cup Values \cup Defs
  /\ Workload \subseteq Operation /\ TxnWorkload \subseteq Operation
  /\ \A q \in Workload \cup TxnWorkload : Named(q)
  /\ None \notin Requests
  /\ {Concurrency, MaxCrashes, MaxSnapshots, MaxTxns, MaxTxnSize} \subseteq Nat
  /\ LiveSnapshots \in BOOLEAN

VARIABLES
  (* in memory, lost in a crash *)
  phase,        \* "serving", "draining", "closing", "down", or what
                \* recovery is reading
  db,           \* the store: definitions and documents
  walSequence,  \* pe.walSequence
  pc, req, seqNum,          \* the requests in flight
  txn,          \* the transaction of a goroutine: its entries
  snapPc, snapLeft, snapBuf, \* the snapshot being taken
  todo,         \* what recovery still has to replay
  (* on disk *)
  wal,          \* the keys under "wal:"
  snapshot,     \* what latest_snapshot points at
  (* history *)
  crashes, snapshots, txns,
  unsettled,    \* 0, or 1 + the ends of the process since a snapshot was
                \* written that no shutdown has followed; one more when the
                \* log was not pruned after the snapshot
  answered,     \* the store as of the last answer
  allowed,      \* the stores recovery may come back with; {}: any store
  committed,    \* the transactions committed in the process that ended last
  replayed      \* those of their operations that this recovery applied

requestVars == <<pc, req, seqNum, txn>>

snapVars == <<snapPc, snapLeft, snapBuf, snapshots, unsettled>>

historyVars == <<answered, allowed, crashes, txns, committed, replayed>>

vars == <<phase, db, walSequence, requestVars, snapVars, todo, wal, snapshot,
          historyVars>>

NoDocs == [i \in IDs |-> None]

EmptyDB == [defs |-> [t \in Types |-> None], docs |-> [t \in Types |-> NoDocs]]

Database == [defs: [Types -> Defs \cup {None}],
             docs: [Types -> [IDs -> Values \cup {None}]]]

ASSUME NoneAssumption == None \notin Database

Active(r) == pc[r] \notin {"idle", "done"}

InFlight == {r \in Requests : Active(r)}

-----------------------------------------------------------------------------
(* What the engine makes of a request.  A truncation of what is empty has
   neither an effect nor a log entry. *)

Has(d, t, i) == d.docs[t][i] # None

Effective(d, q) ==
  CASE q.op = "register" -> d.defs[q.type] = None
    [] q.op = "updatetype" -> d.defs[q.type] # None
    [] q.op = "insert" -> d.defs[q.type] # None /\ ~Has(d, q.type, q.id)
    [] q.op \in {"update", "delete"} -> Has(d, q.type, q.id)
    [] q.op = "truncate" -> \E i \in IDs : Has(d, q.type, i)
    [] q.op = "truncatedb" -> \E t \in Types : \E i \in IDs : Has(d, t, i)

(* A mutant: a truncation leaves a nil map. *)
ResultNilMap(d, q) ==
  CASE q.op \in {"register", "updatetype"} ->
         [d EXCEPT !.defs[q.type] = q.def]
    [] q.op = "truncate" -> [d EXCEPT !.docs[q.type] = None]
    [] q.op = "truncatedb" -> [d EXCEPT !.docs = [t \in Types |-> None]]
    [] OTHER -> [d EXCEPT !.docs[q.type][q.id] = q.val]

Result(d, q) ==
  CASE q.op \in {"register", "updatetype"} ->
         [d EXCEPT !.defs[q.type] = q.def]
    [] q.op \in {"insert", "update"} ->
         [d EXCEPT !.docs[q.type][q.id] = q.val]
    [] q.op = "delete" -> [d EXCEPT !.docs[q.type][q.id] = None]
    [] q.op = "truncate" -> [d EXCEPT !.docs[q.type] = NoDocs]
    [] q.op = "truncatedb" -> [d EXCEPT !.docs = [t \in Types |-> NoDocs]]

(* The log key is "wal:<sequence>:<type>:<id>": a second entry under the same
   key replaces the first. *)
Entry(q, n) == [seq |-> n, what |-> q, txn |-> None, last |-> FALSE]

SameKey(e, f) ==
  e.seq = f.seq /\ e.what.type = f.what.type /\ e.what.id = f.what.id

Logged(log, e) == {f \in log : ~SameKey(e, f)} \cup {e}

Init ==
  /\ phase = "serving"
  /\ db = EmptyDB
  /\ walSequence = 0
  /\ pc = [r \in Requests |-> "idle"]
  /\ req = [r \in Requests |-> None]
  /\ seqNum = [r \in Requests |-> 0]
  /\ txn = [r \in Requests |-> <<>>]
  /\ snapPc = "idle" /\ snapLeft = {} /\ snapBuf = EmptyDB
  /\ snapshots = 0 /\ unsettled = 0
  /\ todo = {} /\ wal = {} /\ snapshot = None
  /\ crashes = 0 /\ txns = 0 /\ answered = EmptyDB /\ allowed = {}
  /\ committed = {} /\ replayed = {}

-----------------------------------------------------------------------------
(* A request.  (The ones that are refused change nothing and are left out.) *)

Admitted(r) ==
  /\ phase = "serving"
  /\ pc[r] = "idle" /\ Cardinality(InFlight) < Concurrency
  /\ \A s \in Requests : s < r => pc[s] # "idle"
  /\ LiveSnapshots \/ snapPc = "idle"

Commit(r, q) ==
  /\ Admitted(r)
  /\ Effective(db, q)
  /\ db' = Result(db, q)
  /\ pc' = [pc EXCEPT ![r] = "sequence"]
  /\ req' = [req EXCEPT ![r] = q]
  /\ UNCHANGED <<phase, walSequence, seqNum, txn, snapVars, todo, wal, snapshot,
                 historyVars>>

(* A mutant: the counter itself is not incremented. *)
TakeSequenceLost(r) ==
  /\ pc[r] = "sequence"
  /\ seqNum' = [seqNum EXCEPT ![r] = walSequence + 1]
  /\ pc' = [pc EXCEPT ![r] = "write"]
  /\ UNCHANGED <<phase, db, walSequence, req, txn, snapVars, todo, wal, snapshot,
                 historyVars>>

(* WriteWALEntry: the number is taken under walSeqMutex ... *)
TakeSequence(r) ==
  /\ pc[r] = "sequence"
  /\ walSequence' = walSequence + 1
  /\ seqNum' = [seqNum EXCEPT ![r] = walSequence + 1]
  /\ pc' = [pc EXCEPT ![r] = "write"]
  /\ UNCHANGED <<phase, db, req, txn, snapVars, todo, wal, snapshot, historyVars>>

(* ... and the entry is written later, with no lock held. *)
WriteEntry(r) ==
  /\ pc[r] = "write"
  /\ wal' = Logged(wal, Entry(req[r], seqNum[r]))
  /\ pc' = [pc EXCEPT ![r] = "done"]
  /\ req' = [req EXCEPT ![r] = None]
  /\ seqNum' = [seqNum EXCEPT ![r] = 0]
  /\ answered' = db
  /\ UNCHANGED <<phase, db, walSequence, txn, snapVars, todo, snapshot, allowed,
                 crashes, txns, committed, replayed>>

-----------------------------------------------------------------------------
(* A transaction: operations are collected in memory and then written to the
   log one after the other; they reach the store when the log is replayed. *)

MoveTxn(r, place, entries) ==
  /\ pc' = [pc EXCEPT ![r] = place]
  /\ txn' = [txn EXCEPT ![r] = entries]

BeginTransaction(r) ==
  /\ Admitted(r) /\ txns < MaxTxns
  /\ MoveTxn(r, "txn", <<>>)
  /\ UNCHANGED <<phase, db, walSequence, req, seqNum, snapVars, todo, wal,
                 snapshot, historyVars>>

AddToTransaction(r, q) ==
  /\ pc[r] = "txn" /\ Len(txn[r]) < MaxTxnSize
  /\ MoveTxn(r, "txn", Append(txn[r], q))
  /\ UNCHANGED <<phase, db, walSequence, req, seqNum, snapVars, todo, wal,
                 snapshot, historyVars>>

AbortTransaction(r) ==
  /\ pc[r] = "txn"
  /\ MoveTxn(r, "done", <<>>)
  /\ UNCHANGED <<phase, db, walSequence, req, seqNum, snapVars, todo, wal,
                 snapshot, historyVars>>

(* CommitTransaction takes the entries out of currentTxns (a transaction
   without any is over, as if it had been aborted) ... *)
CommitTransaction(r) ==
  /\ pc[r] = "txn" /\ txn[r] # <<>>
  /\ MoveTxn(r, "txnsequence", txn[r])
  /\ txns' = txns + 1
  /\ committed' = committed \cup {[by |-> r, ops |-> ToSet(txn[r])]}
  /\ UNCHANGED <<phase, db, walSequence, req, seqNum, snapVars, todo, wal,
                 snapshot, answered, allowed, crashes, replayed>>

(* ... takes a sequence number for the next one ... *)
TakeTxnSequence(r) ==
  /\ pc[r] = "txnsequence"
  /\ walSequence' = walSequence + 1
  /\ seqNum' = [seqNum EXCEPT ![r] = walSequence + 1]
  /\ MoveTxn(r, "txnwrite", txn[r])
  /\ UNCHANGED <<phase, db, req, snapVars, todo, wal, snapshot, historyVars>>

(* ... and writes it; the last one is marked. *)
WriteTxnEntry(r) ==
  /\ pc[r] = "txnwrite"
  /\ wal' = Logged(wal, [seq |-> seqNum[r], what |-> Head(txn[r]), txn |-> r,
                         last |-> Len(txn[r]) = 1])
  /\ MoveTxn(r, IF Len(txn[r]) = 1 THEN "done" ELSE "txnsequence",
             Tail(txn[r]))
  /\ seqNum' = [seqNum EXCEPT ![r] = 0]
  /\ UNCHANGED <<phase, db, walSequence, req, snapVars, todo, snapshot,
                 historyVars>>

(* The write of an entry fails: CommitTransaction returns the error, and the
   entries before it stay in the log. *)
WriteTxnFails(r) ==
  /\ pc[r] = "txnwrite"
  /\ MoveTxn(r, "done", <<>>)
  /\ seqNum' = [seqNum EXCEPT ![r] = 0]
  /\ UNCHANGED <<phase, db, walSequence, req, snapVars, todo, wal, snapshot,
                 historyVars>>

-----------------------------------------------------------------------------
(* TakeSnapshot: list the types, then for each one read its definition and its
   entities under two separate read locks. *)

ListTypes ==
  /\ snapLeft' = {t \in Types : db.defs[t] # None}
  /\ snapBuf' = EmptyDB
  /\ snapPc' = "definition"
  /\ UNCHANGED <<snapshots, unsettled>>

SnapshotBegin ==
  /\ phase = "serving" /\ snapPc = "idle" /\ snapshots < MaxSnapshots
  /\ LiveSnapshots \/ InFlight = {}
  /\ ListTypes
  /\ UNCHANGED <<phase, db, walSequence, requestVars, todo, wal, snapshot,
                 historyVars>>

NextType == CHOOSE t \in snapLeft : \A u \in snapLeft : t <= u

SnapshotDefinition ==
  /\ snapPc = "definition" /\ snapLeft # {}
  /\ snapBuf' = [snapBuf EXCEPT !.defs[NextType] = db.defs[NextType]]
  /\ snapPc' = "entities"
  /\ UNCHANGED <<phase, db, walSequence, requestVars, snapLeft, snapshots,
                 unsettled, todo, wal, snapshot, historyVars>>

SnapshotEntities ==
  /\ snapPc = "entities"
  /\ snapBuf' = [snapBuf EXCEPT !.docs[NextType] = db.docs[NextType]]
  /\ snapLeft' = snapLeft \ {NextType}
  /\ snapPc' = "definition"
  /\ UNCHANGED <<phase, db, walSequence, requestVars, snapshots, unsettled, todo,
                 wal, snapshot, historyVars>>

(* The snapshot and the pointer to it are written in one Badger transaction. *)
SnapshotWrite ==
  /\ snapPc = "definition" /\ snapLeft = {}
  /\ snapshot' = snapBuf /\ snapBuf' = EmptyDB
  /\ snapPc' = "prune"
  /\ snapshots' = IF phase = "closing" THEN snapshots ELSE snapshots + 1
  /\ unsettled' = IF unsettled = 0 THEN 1 ELSE unsettled
  /\ UNCHANGED <<phase, db, walSequence, requestVars, snapLeft, todo, wal,
                 historyVars>>

(* PruneWALBeforeTimestamp compares the second part of the key, which is the
   sequence number, with the nanoseconds of the snapshot: every entry goes,
   whenever it was written. *)
SnapshotPrune ==
  /\ snapPc = "prune"
  /\ wal' = {}
  /\ snapPc' = "idle"
  /\ UNCHANGED <<phase, db, walSequence, requestVars, snapLeft, snapBuf,
                 snapshots, unsettled, todo, snapshot, historyVars>>

(* The deletion fails, as a whole: one Badger transaction holds it.  That is
   only logged, and the log stays beside the new snapshot. *)
SnapshotPruneFails ==
  /\ snapPc = "prune"
  /\ snapPc' = "idle"
  /\ unsettled' = unsettled + 1
  /\ UNCHANGED <<phase, db, walSequence, requestVars, snapLeft, snapBuf,
                 snapshots, todo, wal, snapshot, historyVars>>

(* The write fails: TakeSnapshot returns before it prunes. *)
SnapshotFails ==
  /\ snapPc = "definition" /\ snapLeft = {}
  /\ snapPc' = "idle" /\ snapBuf' = EmptyDB
  /\ UNCHANGED <<phase, db, walSequence, requestVars, snapLeft, snapshots,
                 unsettled, todo, wal, snapshot, historyVars>>

-----------------------------------------------------------------------------
(* The process ends and what is in memory is lost; `stores' is what recovery
   may come back with.  TransactionsAtomic does not judge a recovery after one
   that was interrupted. *)
End(stores) ==
  /\ crashes' = crashes + 1
  /\ phase' = "down"
  /\ db' = EmptyDB /\ walSequence' = 0 /\ todo' = {}
  /\ pc' = [r \in Requests |-> IF Active(r) THEN "done" ELSE pc[r]]
  /\ req' = [r \in Requests |-> None]
  /\ seqNum' = [r \in Requests |-> 0]
  /\ txn' = [r \in Requests |-> <<>>]
  /\ snapPc' = "idle" /\ snapLeft' = {} /\ snapBuf' = EmptyDB
  /\ allowed' = stores
  /\ committed' = IF phase \in {"snapshot", "wal"} THEN {} ELSE committed
  /\ UNCHANGED <<snapshots, wal, snapshot, answered, txns, replayed>>

(* Server.Start on a signal: Shutdown takes no more requests and waits for
   those in flight; if they take longer than ten seconds logger.Fatalf ends
   the process as a crash does. *)
Shutdown ==
  /\ phase = "serving" /\ crashes < MaxCrashes
  /\ phase' = "draining"
  /\ UNCHANGED <<db, walSequence, requestVars, snapVars, todo, wal, snapshot,
                 historyVars>>

(* Manager.Close, deferred in main: the last snapshot ... *)
CloseManager ==
  /\ phase = "draining" /\ InFlight = {} /\ snapPc = "idle"
  /\ phase' = "closing"
  /\ ListTypes
  /\ UNCHANGED <<db, walSequence, requestVars, todo, wal, snapshot, historyVars>>

(* ... whose failure is only logged, and then the persistence engine's Close;
   main returns. *)
CloseStore ==
  /\ phase = "closing" /\ snapPc = "idle"
  /\ End({db})
  /\ unsettled' = IF unsettled = 0 \/ wal = {} THEN 0 ELSE unsettled + 1

(* The process dies.  Recovery has to come back with what was answered; a
   request in flight may or may not have made it.  With several in flight the
   crash is not judged: only crashes with nobody in flight are. *)
Crash ==
  /\ phase # "down" /\ crashes < MaxCrashes
  /\ End(IF phase \in {"snapshot", "wal"} THEN allowed
         ELSE IF InFlight = {} THEN {db}
         ELSE IF Concurrency = 1 THEN {db, answered} ELSE {})
  /\ unsettled' = IF unsettled = 0 THEN 0
                  ELSE unsettled + (IF snapPc = "prune" THEN 2 ELSE 1)

(* What is replayed for a type of the snapshot: its definition, then its
   entities in the order of a Go map.  The number only orders the items. *)
SnapshotItems ==
  IF snapshot = None THEN {}
  ELSE {Entry([op |-> "register", type |-> t, id |-> None, val |-> None,
               def |-> snapshot.defs[t]], 2 * t) :
          t \in {u \in Types : snapshot.defs[u] # None}}
         \cup
       {Entry([op |-> "insert", type |-> p[1], id |-> p[2],
               val |-> snapshot.docs[p[1]][p[2]], def |-> None], 2 * p[1] + 1) :
          p \in {x \in Types \X IDs : Has(snapshot, x[1], x[2])}}

Restart ==
  /\ phase = "down"
  /\ phase' = "snapshot"
  /\ todo' = SnapshotItems
  /\ replayed' = {}
  /\ UNCHANGED <<db, walSequence, requestVars, snapVars, wal, snapshot,
                 answered, allowed, crashes, txns, committed>>

(* A log entry is applied by what store.Get finds under its ID, in whatever
   type: an Insert is skipped when there is an entity, an Update goes to the
   type of the entity found.  An UpdateEntityType of an unknown type becomes a
   registration. *)
ReplayedAs(e) ==
  LET q == e.what
      found == {t \in Types : q.id # None /\ Has(db, t, q.id)}
  IN  CASE q.op = "insert" -> IF found = {} THEN {q} ELSE {}
        [] q.op = "update" -> {[q EXCEPT !.type = t] : t \in found}
        [] q.op = "updatetype" /\ db.defs[q.type] = None ->
             {[q EXCEPT !.op = "register"]}
        [] OTHER -> {q}

(* The replayed operation goes through the store, which logs it anew. *)
Redo(q) ==
  IF Effective(db, q)
    THEN /\ db' = Result(db, q)
         /\ walSequence' = walSequence + 1
         /\ wal' = Logged(wal, Entry(q, walSequence + 1))
    ELSE UNCHANGED <<db, walSequence, wal>>

(* A mutant: the entries are not sorted. *)
ReplayUnsorted ==
  /\ phase \in {"snapshot", "wal"}
  /\ \E e \in todo :
       /\ todo' = todo \ {e}
       /\ LET as == IF phase = "snapshot" THEN {e.what} ELSE ReplayedAs(e)
          IN  IF as = {} THEN UNCHANGED <<db, walSequence, wal>>
              ELSE \E q \in as : Redo(q)
       /\ replayed' = replayed \cup
            {<<c.by, e.what>> : c \in {d \in committed : d.by = e.txn}}
  /\ UNCHANGED <<phase, requestVars, snapVars, snapshot, answered, allowed,
                 crashes, txns, committed>>

Replay ==
  /\ phase \in {"snapshot", "wal"}
  /\ \E e \in todo :
       /\ \A f \in todo : e.seq <= f.seq
       /\ todo' = todo \ {e}
       /\ LET as == IF phase = "snapshot" THEN {e.what} ELSE ReplayedAs(e)
          IN  IF as = {} THEN UNCHANGED <<db, walSequence, wal>>
              ELSE \E q \in as : Redo(q)
       /\ replayed' = replayed \cup
            {<<c.by, e.what>> : c \in {d \in committed : d.by = e.txn}}
  /\ UNCHANGED <<phase, requestVars, snapVars, snapshot, answered, allowed,
                 crashes, txns, committed>>

(* A mutant: incomplete transactions are replayed, too. *)
AnyTransaction == {e.txn : e \in wal} \ {None}

(* The transactions of the log that have their last entry. *)
CompleteTransactions == {e.txn : e \in {f \in wal : f.last}}

(* LoadWAL reads the log when the snapshot is in: what the snapshot logged
   anew is part of it.  Entries outside transactions come first, then the
   complete transactions in any order, each in the order of its numbers; the
   number of an item of `todo' only orders the items. *)
CollectWAL ==
  /\ phase = "snapshot" /\ todo = {}
  /\ phase' = "wal"
  /\ LET above == 1 + Cardinality(wal) + walSequence
                     + Cardinality(UNION {1..e.seq : e \in wal})
         groups == CompleteTransactions
     IN \E rank \in {f \in [groups -> 1..Cardinality(groups)] :
                       \A g, h \in groups : f[g] = f[h] => g = h} :
          todo' = {e \in wal : e.txn = None} \cup
                  {[e EXCEPT !.seq = above * rank[e.txn] + e.seq] :
                     e \in {f \in wal : f.txn \in groups}}
  /\ UNCHANGED <<db, walSequence, requestVars, snapVars, wal, snapshot,
                 historyVars>>

Serve ==
  /\ phase = "wal" /\ todo = {}
  /\ phase' = "serving"
  /\ answered' = db
  /\ allowed' = {} /\ committed' = {} /\ replayed' = {}
  /\ UNCHANGED <<db, walSequence, requestVars, snapVars, todo, wal, snapshot,
                 crashes, txns>>

Next ==
  \/ \E r \in Requests :
       \/ \E q \in Workload : Commit(r, q)
       \/ TakeSequence(r) \/ WriteEntry(r)
       \/ BeginTransaction(r) \/ AbortTransaction(r) \/ CommitTransaction(r)
       \/ \E q \in TxnWorkload : AddToTransaction(r, q)
       \/ TakeTxnSequence(r) \/ WriteTxnEntry(r) \/ WriteTxnFails(r)
  \/ SnapshotBegin \/ SnapshotDefinition \/ SnapshotEntities
  \/ SnapshotWrite \/ SnapshotPrune \/ SnapshotPruneFails \/ SnapshotFails
  \/ Shutdown \/ CloseManager \/ CloseStore
  \/ Crash \/ Restart \/ Replay \/ CollectWAL \/ Serve

Spec == Init /\ [][Next]_vars

-----------------------------------------------------------------------------
(* The sets the variables range over. *)
LogEntry == [seq: Nat, what: Operation, txn: Requests \cup {None}, last: BOOLEAN]

TypeOK ==
  /\ phase \in {"serving", "draining", "closing", "down", "snapshot", "wal"}
  /\ db \in Database /\ answered \in Database /\ snapBuf \in Database
  /\ snapshot \in Database \cup {None}
  /\ walSequence \in Nat
  /\ wal \subseteq LogEntry /\ todo \subseteq LogEntry
  /\ pc \in [Requests -> {"idle", "sequence", "write", "txn", "txnsequence",
                          "txnwrite", "done"}]
  /\ req \in [Requests -> Operation \cup {None}]
  /\ seqNum \in [Requests -> Nat]
  /\ snapPc \in {"idle", "definition", "entities", "prune"}
  /\ snapLeft \subseteq Types
  /\ allowed \subseteq Database

(* README: "A persistence layer that ensures durability through WAL and
   snapshots".  After any number of crashes, in the middle of a write, of a
   snapshot or of a recovery, the store comes back as it was answered, with or
   without the request that was in flight. *)
RecoversAnswered ==
  phase = "wal" /\ todo = {} /\ allowed # {} => db \in allowed

(* The same, as far as the code keeps it: through crashes from the log alone,
   through shutdowns and crashes after them, and through one crash after a
   snapshot that was followed by its pruning of the log.  (A second end of the
   process after a snapshot that no shutdown has followed is excepted: the
   first recovery logs the snapshot anew under numbers that interleave with
   those of the entries written after it.  So is a log that was not pruned,
   because the process died between the snapshot and the pruning or because
   that failed: the snapshot is logged anew under the numbers of old entries,
   and one of these may be replaced.  So are committed transactions, whose
   effects are not in memory and whose numbers the second recovery meets
   again.) *)
RecoversAnsweredOnce == unsettled <= 2 /\ txns = 0 => RecoversAnswered

(* The requests come one at a time, for a single type. *)
OneByOne == Concurrency = 1 /\ Cardinality(Types) = 1

(* Two log entries have different sequence numbers, so that the order in which
   LoadWAL sorts them is the only one.  (wal.go: "Create the key with a
   sequence number for proper ordering".)  The code keeps it in the first
   process, and across restarts as long as a recovery logs everything anew
   under the number it had: when the requests come one at a time, so that a
   crash leaves no gap in the numbers, for one type, so that nothing is skipped,
   and no snapshot or transaction was written, whose entries are logged under
   other numbers or not at all. *)
SequenceNumbersDistinct ==
  crashes = 0 \/ (OneByOne /\ snapshot = None /\ txns = 0) =>
    \A e, f \in wal : e.seq = f.seq => e = f

(* wal.go: "The Transaction represents a group of operations that should be
   applied atomically".  The recovery after a commit applies all operations of
   the transaction or none, wherever the process ended or a write failed while
   they were written, and whatever other requests wrote in between.  (Excepted
   are a recovery from a snapshot and one after an interrupted recovery: the
   snapshot or the log is logged anew, under numbers from 1, and one of these
   entries may have replaced one of the transaction.) *)
TransactionsAtomic ==
  phase = "wal" /\ todo = {} /\ snapshot = None =>
    \A c \in committed :
      LET done == {op \in c.ops : <<c.by, op>> \in replayed}
      IN done = {} \/ done = c.ops
=============================================================================
