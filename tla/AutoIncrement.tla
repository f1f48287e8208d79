---------------------------- MODULE AutoIncrement ----------------------------
(***************************************************************************)
(* The auto-increment IDs of one entity type: AutoIncrementGenerator       *)
(* (datastore_id.go), the way Insert and Delete use it, the counter and    *)
(* the set of deleted IDs that are kept in Badger, and what a restart      *)
(* makes of them (NewDataStoreEngine).                                     *)
(*                                                                         *)
(* Entities are reduced to their IDs, and the log to the operations in the *)
(* order in which they were logged.                                        *)
(***************************************************************************)
EXTENDS Naturals, Sequences, FiniteSetsExt

CONSTANTS
  Requests,      \* the goroutines that serve requests, one request each
  MaxID,         \* bound: the counter does not go beyond it
  MaxCrashes,    \* bound: how often the process crashes
  MaxSnapshots,  \* bound: how many snapshots are taken
  ExplicitIDs,   \* the IDs clients choose themselves
  WithTruncate,  \* whether clients truncate the type
  Concurrency    \* how many requests may be in flight at a time

IDs == 1..MaxID

ASSUME AutoIncrementAssumption ==
  /\ {MaxID, MaxCrashes, MaxSnapshots, Concurrency} \subseteq Nat
  /\ ExplicitIDs \subseteq IDs
  /\ WithTruncate \in BOOLEAN

VARIABLES
  (* in memory *)
  counter,      \* *g.counters[type]
  deletedIDs,   \* g.deletedIDs[type]
  live,         \* the IDs of the entities of the type
  pc, id,       \* the requests: where they are, the ID they work on
  generated,    \* ... whether the generator made it
  buf,          \* ... the counter they read, or the deleted IDs they copied
  recovering,   \* whether NewDataStoreEngine is still at work
  replayed,     \* ... and how many entries of the log it has replayed
  (* on disk *)
  log,          \* the log since the snapshot
  snap,         \* the entities of the snapshot
  diskCounter,  \* counter:<type>
  diskDeleted,  \* deleted_ids:<type>
  (* history *)
  used,         \* the generated IDs whose Inserts are logged
  crashes, snapshots

memory == <<counter, deletedIDs, live>>
disk == <<log, snap, diskCounter, diskDeleted>>
history == <<used, crashes, snapshots>>
recovery == <<recovering, replayed>>
vars == <<memory, pc, id, generated, buf, recovery, disk, history>>

Init ==
  /\ counter = 0 /\ deletedIDs = {} /\ live = {}
  /\ pc = [r \in Requests |-> "idle"]
  /\ id = [r \in Requests |-> 0]
  /\ generated = [r \in Requests |-> FALSE]
  /\ buf = [r \in Requests |-> {}]
  /\ recovering = FALSE /\ replayed = 0
  /\ log = <<>> /\ snap = {} /\ diskCounter = 0 /\ diskDeleted = {}
  /\ used = {} /\ crashes = 0 /\ snapshots = 0

Goes(r, where) == pc' = [pc EXCEPT ![r] = where]

(* Nothing is under way for the request: not sent yet, answered, or lost in a
   crash. *)
AtRest(r) == pc[r] \in {"idle", "done", "exists", "notfound", "lost"}

Arrives(r) ==
  /\ ~recovering
  /\ pc[r] = "idle"
  /\ Cardinality({s \in Requests : ~AtRest(s)}) < Concurrency

-----------------------------------------------------------------------------
(* Insert. *)

(* A mutant: the counter is read and not incremented. *)
IncrementLost(r) ==
  /\ Arrives(r) \/ pc[r] = "generate"
  /\ counter < MaxID
  /\ id' = [id EXCEPT ![r] = counter + 1]
  /\ generated' = [generated EXCEPT ![r] = TRUE]
  /\ Goes(r, "check")
  /\ UNCHANGED <<memory, buf, disk, recovery, history>>

(* One round of the loop in GenerateID: the counter is incremented atomically,
   the deleted IDs are looked up under another lock. *)
Increment(r) ==
  /\ Arrives(r) \/ pc[r] = "generate"
  /\ counter < MaxID
  /\ counter' = counter + 1
  /\ id' = [id EXCEPT ![r] = counter + 1]
  /\ generated' = [generated EXCEPT ![r] = TRUE]
  /\ Goes(r, "check")
  /\ UNCHANGED <<deletedIDs, live, buf, disk, recovery, history>>

(* A mutant: the marks are not looked up. *)
CheckNothing(r) ==
  /\ pc[r] = "check"
  /\ Goes(r, "commit")
  /\ UNCHANGED <<memory, id, generated, buf, disk, recovery, history>>

CheckDeleted(r) ==
  /\ pc[r] = "check"
  /\ Goes(r, IF id[r] \in deletedIDs THEN "generate" ELSE "commit")
  /\ UNCHANGED <<memory, id, generated, buf, disk, recovery, history>>

(* An ID from the client is validated, and does not move the counter. *)
ChooseID(r) ==
  /\ Arrives(r)
  /\ \E i \in ExplicitIDs : id' = [id EXCEPT ![r] = i]
  /\ Goes(r, "commit")
  /\ UNCHANGED <<memory, generated, buf, disk, recovery, history>>

CommitInsert(r) ==
  /\ pc[r] = "commit"
  /\ IF id[r] \in live
       THEN Goes(r, "exists") /\ UNCHANGED live
       ELSE Goes(r, "log") /\ live' = live \cup {id[r]}
  /\ UNCHANGED <<counter, deletedIDs, id, generated, buf, disk, recovery,
                 history>>

LogInsert(r) ==
  /\ pc[r] = "log"
  /\ log' = Append(log, [op |-> "insert", id |-> id[r]])
  /\ used' = used \cup {i \in {id[r]} : generated[r]}
  /\ Goes(r, "counter")
  /\ UNCHANGED <<memory, id, generated, buf, snap, diskCounter, diskDeleted,
                 recovery, crashes, snapshots>>

(* GetAutoIncrementCounter, and then SaveCounter: two calls. *)
ReadCounter(r) ==
  /\ pc[r] = "counter"
  /\ buf' = [buf EXCEPT ![r] = {counter}]
  /\ Goes(r, "save")
  /\ UNCHANGED <<memory, id, generated, disk, recovery, history>>

SaveCounter(r) ==
  /\ pc[r] = "save"
  /\ diskCounter' = Max(buf[r])
  /\ Goes(r, "done")
  /\ UNCHANGED <<memory, id, generated, buf, log, snap, diskDeleted, recovery,
                 history>>

-----------------------------------------------------------------------------
(* Delete: the ID is marked and the marks are saved before the write lock is
   taken and the entity is removed. *)

MarkIDDeleted(r, i) ==
  /\ Arrives(r) /\ i \in live
  /\ id' = [id EXCEPT ![r] = i]
  /\ deletedIDs' = deletedIDs \cup {i}
  /\ Goes(r, "copy")
  /\ UNCHANGED <<counter, live, generated, buf, disk, recovery, history>>

CopyDeletedIDs(r) ==
  /\ pc[r] = "copy"
  /\ buf' = [buf EXCEPT ![r] = deletedIDs]
  /\ Goes(r, "savemarks")
  /\ UNCHANGED <<memory, id, generated, disk, recovery, history>>

SaveDeletedIDs(r) ==
  /\ pc[r] = "savemarks"
  /\ diskDeleted' = buf[r]
  /\ Goes(r, "remove")
  /\ UNCHANGED <<memory, id, generated, buf, log, snap, diskCounter, recovery,
                 history>>

CommitDelete(r) ==
  /\ pc[r] = "remove"
  /\ IF id[r] \in live
       THEN Goes(r, "logdelete") /\ live' = live \ {id[r]}
       ELSE Goes(r, "notfound") /\ UNCHANGED live
  /\ UNCHANGED <<counter, deletedIDs, id, generated, buf, disk, recovery,
                 history>>

LogDelete(r) ==
  /\ pc[r] = "logdelete"
  /\ log' = Append(log, [op |-> "delete", id |-> id[r]])
  /\ Goes(r, "done")
  /\ UNCHANGED <<memory, id, generated, buf, snap, diskCounter, diskDeleted,
                 recovery, history>>

(* A truncation does not mark the IDs it removes. *)
Truncate(r) ==
  /\ WithTruncate /\ Arrives(r) /\ live # {}
  /\ live' = {}
  /\ Goes(r, "logtruncate")
  /\ UNCHANGED <<counter, deletedIDs, id, generated, buf, disk, recovery,
                 history>>

LogTruncate(r) ==
  /\ pc[r] = "logtruncate"
  /\ log' = Append(log, [op |-> "truncate", id |-> 0])
  /\ Goes(r, "done")
  /\ UNCHANGED <<memory, id, generated, buf, snap, diskCounter, diskDeleted,
                 recovery, history>>

-----------------------------------------------------------------------------
(* A snapshot with nobody in flight (Durability has the other ones). *)
TakeSnapshot ==
  /\ snapshots < MaxSnapshots
  /\ ~recovering /\ \A r \in Requests : AtRest(r)
  /\ snap' = live /\ log' = <<>>
  /\ snapshots' = snapshots + 1
  /\ UNCHANGED <<memory, pc, id, generated, buf, diskCounter, diskDeleted,
                 used,
                 crashes, recovery>>

(* SetCounter: the counter only goes up. *)
SetCounter(current, value) == IF value > current THEN value ELSE current

(* LoadCounters, on a generator that has no counter yet. *)
LoadCounters(saved) == SetCounter(0, saved)

(* EnsureAutoIncrementCounterAboveExistingIDs *)
EnsureAbove(current, ids) == SetCounter(current, Max(ids \cup {0}))

(* LoadDeletedIDs adds the saved marks to those that the replay made. *)
LoadDeletedIDs(marked, saved) == marked \cup saved

(* The process dies, and a new one starts with the entities of the snapshot.
   Until the log is replayed its generator has no counter: each replayed
   Insert saves 0. *)
Crash ==
  /\ crashes < MaxCrashes
  /\ crashes' = crashes + 1
  /\ recovering' = TRUE /\ replayed' = 0
  /\ counter' = 0 /\ deletedIDs' = {} /\ live' = snap
  /\ diskCounter' = IF snap = {} THEN diskCounter ELSE 0
  /\ pc' = [r \in Requests |-> IF AtRest(r) THEN pc[r] ELSE "lost"]
  /\ UNCHANGED <<id, generated, buf, log, snap, diskDeleted, used, snapshots>>

(* A mutant: an entry that removes something marks its ID, a truncation
   too. *)
RedoMarksAll(e) ==
  IF e.op = "insert"
    THEN live' = live \cup {e.id} /\ diskCounter' = 0
         /\ UNCHANGED <<deletedIDs, diskDeleted>>
    ELSE /\ live' = live \ {e.id}
         /\ deletedIDs' = deletedIDs \cup {e.id} /\ diskDeleted' = deletedIDs'
         /\ UNCHANGED diskCounter

(* The entry goes through Insert, Delete or TruncateEntityType of the new
   engine: an Insert saves the counter, a Delete the marks made so far. *)
Redo(e) ==
  \/ /\ e.op = "insert" /\ e.id \notin live
     /\ live' = live \cup {e.id}
     /\ diskCounter' = 0
     /\ UNCHANGED <<deletedIDs, diskDeleted>>
  \/ /\ e.op = "delete" /\ e.id \in live
     /\ live' = live \ {e.id}
     /\ deletedIDs' = deletedIDs \cup {e.id}
     /\ diskDeleted' = deletedIDs'
     /\ UNCHANGED diskCounter
  \/ /\ e.op = "truncate"
     /\ live' = {}
     /\ UNCHANGED <<deletedIDs, diskCounter, diskDeleted>>
  \/ /\ \/ e.op = "insert" /\ e.id \in live
        \/ e.op = "delete" /\ e.id \notin live
     /\ UNCHANGED <<live, deletedIDs, diskCounter, diskDeleted>>

ReplayEntry ==
  /\ recovering /\ replayed < Len(log)
  /\ Redo(log[replayed + 1])
  /\ replayed' = replayed + 1
  /\ UNCHANGED <<counter, pc, id, generated, buf, recovering, log, snap,
                 history>>

(* LoadCounters, LoadDeletedIDs and EnsureAutoIncrementCounterAboveExistingIDs
   on what is left; requests are served again. *)
Recovered ==
  /\ recovering /\ replayed = Len(log)
  /\ recovering' = FALSE /\ replayed' = 0
  /\ deletedIDs' = LoadDeletedIDs(deletedIDs, diskDeleted)
  /\ counter' = EnsureAbove(LoadCounters(diskCounter), live)
  /\ UNCHANGED <<live, pc, id, generated, buf, disk, history>>

Next ==
  \/ \E r \in Requests :
       \/ Increment(r) \/ CheckDeleted(r) \/ ChooseID(r) \/ CommitInsert(r)
       \/ LogInsert(r) \/ ReadCounter(r) \/ SaveCounter(r)
       \/ \E i \in live : MarkIDDeleted(r, i)
       \/ CopyDeletedIDs(r) \/ SaveDeletedIDs(r)
       \/ CommitDelete(r) \/ LogDelete(r)
       \/ Truncate(r) \/ LogTruncate(r)
  \/ TakeSnapshot \/ Crash \/ ReplayEntry \/ Recovered

Spec == Init /\ [][Next]_vars

-----------------------------------------------------------------------------
(* The sets the variables range over. *)
TypeOK ==
  /\ counter \in 0..MaxID /\ diskCounter \in 0..MaxID
  /\ deletedIDs \subseteq IDs /\ diskDeleted \subseteq IDs
  /\ live \subseteq IDs /\ snap \subseteq IDs /\ used \subseteq IDs
  /\ id \in [Requests -> 0..MaxID]
  /\ buf \in [Requests -> SUBSET (0..MaxID)]
  /\ generated \in [Requests -> BOOLEAN]

(* The generator has just made this ID for request r. *)
Fresh(r) == generated[r] /\ pc[r] = "commit"

(* A truncation is in the log. *)
TruncateLogged == \E k \in DOMAIN log : log[k].op = "truncate"

(* SetCounter: "This ensures we never reuse IDs."  The generator does not make
   an ID again that it made for an earlier entity, deleted or truncated, in the
   same process or after crashes.  Excepted is a crash after a snapshot, when
   the marks of the log replace those of the disk, and a crash with a
   truncation in the log, which marks no ID. *)
NeverReused ==
  (crashes > 0 => snapshots = 0 /\ ~TruncateLogged) =>
    \A r \in Requests : Fresh(r) => id[r] \notin used

(* Two Inserts in flight never get the same ID from the generator, with IDs
   chosen by clients, truncations, snapshots and crashes around them. *)
GeneratedIDsDistinct ==
  \A r, s \in Requests : r # s /\ Fresh(r) /\ Fresh(s) => id[r] # id[s]
=============================================================================
