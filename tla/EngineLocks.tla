---------------------------- MODULE EngineLocks ----------------------------
(***************************************************************************)
(* The lock of the engine, dse.mu, and how the operations take it: does    *)
(* every request that takes it come to its end?                            *)
(*                                                                         *)
(* dse.mu is a Go sync.RWMutex: a writer first announces itself and then   *)
(* waits for the readers that hold the lock; a reader that comes after the *)
(* announcement waits until the writer has unlocked, even when it holds a  *)
(* read lock already.                                                      *)
(***************************************************************************)
EXTENDS Naturals, Sequences

CONSTANTS
  Goroutines,  \* each serves one request after the other
  Operations,  \* the operations that clients call
  NoWriter     \* nobody has announced itself

OperationNames ==
  {"Get", "GetByType", "Query", "ExecuteCountQuery", "Insert", "Update",
   "Delete", "TruncateEntityType", "TruncateDatabase", "RegisterEntityType",
   "UpdateEntityType"}

ASSUME LocksAssumption ==
  NoWriter \notin Goroutines /\ Operations \subseteq OperationNames

(* A stretch under the read lock, and one under the write lock. *)
R == <<"RLock", "RUnlock">>
W == <<"Lock", "Unlock">>

-----------------------------------------------------------------------------
(* The stretches that each operation may go through, one sequence for each
   place where it returns. *)

(* A mutant: an error return of the first stretch unlocks twice. *)
UpdateUnlocksTwice == {R \o <<"RUnlock">>, R \o W, R \o W \o W}

(* A mutant: an error return of the first stretch does not unlock. *)
UpdateLeaves == {R, <<"RLock">>, R \o W, R \o W \o W}

(* A mutant: the write lock is taken under the read lock of the checks. *)
UpdateUpgrades == {R, <<"RLock">> \o W \o <<"RUnlock">>, R \o W \o W}

GetLocks == {R}
GetByTypeLocks == {R, <<"RLock">> \o R \o <<"RUnlock">>}
QueryLocks == {R}
(* The joins of a count are queries of their own; two stand for any number. *)
ExecuteCountQueryLocks == {R, <<"RLock">> \o R \o R \o <<"RUnlock">>}
InsertLocks == {R, R \o R, R \o R \o W, R \o R \o W \o W, R \o R \o W \o R}
UpdateLocks == {R, R \o W, R \o W \o W}
DeleteLocks == {R, R \o R \o W, R \o R \o W \o W}
TruncateEntityTypeLocks == {R, R \o W, R \o W \o W}
TruncateDatabaseLocks == {W, W \o W}
RegisterEntityTypeLocks == {R, R \o W, R \o W \o W}
UpdateEntityTypeLocks ==
  {R, R \o R, R \o W, R \o W \o W, R \o R \o W, R \o R \o W \o W}

Stretches(op) ==
  CASE op = "Get" -> GetLocks
    [] op = "GetByType" -> GetByTypeLocks
    [] op = "Query" -> QueryLocks
    [] op = "ExecuteCountQuery" -> ExecuteCountQueryLocks
    [] op = "Insert" -> InsertLocks
    [] op = "Update" -> UpdateLocks
    [] op = "Delete" -> DeleteLocks
    [] op = "TruncateEntityType" -> TruncateEntityTypeLocks
    [] op = "TruncateDatabase" -> TruncateDatabaseLocks
    [] op = "RegisterEntityType" -> RegisterEntityTypeLocks
    [] op = "UpdateEntityType" -> UpdateEntityTypeLocks

-----------------------------------------------------------------------------
VARIABLES
  path,     \* the calls on dse.mu that each goroutine still makes
  held,     \* how many read locks each goroutine holds
  waiting,  \* the goroutines that wait in RLock
  writer,   \* the goroutine that has announced itself as the writer
  locked    \* whether the writer has got the lock

vars == <<path, held, waiting, writer, locked>>

Init ==
  /\ path = [g \in Goroutines |-> <<>>]
  /\ held = [g \in Goroutines |-> 0]
  /\ waiting = {}
  /\ writer = NoWriter
  /\ locked = FALSE

Calls(g, what) == path[g] # <<>> /\ Head(path[g]) = what

Returns(g) == path' = [path EXCEPT ![g] = Tail(@)]

Start(g) ==
  /\ path[g] = <<>>
  /\ \E op \in Operations : \E p \in Stretches(op) :
       path' = [path EXCEPT ![g] = p]
  /\ UNCHANGED <<held, waiting, writer, locked>>

RLock(g) ==
  /\ Calls(g, "RLock") /\ g \notin waiting
  /\ IF writer = NoWriter
       THEN /\ held' = [held EXCEPT ![g] = @ + 1]
            /\ Returns(g)
            /\ UNCHANGED waiting
       ELSE /\ waiting' = waiting \cup {g}
            /\ UNCHANGED <<held, path>>
  /\ UNCHANGED <<writer, locked>>

RUnlock(g) ==
  /\ Calls(g, "RUnlock")
  /\ held' = [held EXCEPT ![g] = @ - 1]
  /\ Returns(g)
  /\ UNCHANGED <<waiting, writer, locked>>

(* Lock, first half: writers come one at a time. *)
Announce(g) ==
  /\ Calls(g, "Lock")
  /\ writer = NoWriter
  /\ writer' = g
  /\ UNCHANGED <<path, held, waiting, locked>>

(* Lock, second half: the readers have left. *)
Lock(g) ==
  /\ Calls(g, "Lock") /\ writer = g
  /\ \A h \in Goroutines : held[h] = 0
  /\ locked' = TRUE
  /\ Returns(g)
  /\ UNCHANGED <<held, waiting, writer>>

(* The readers that wait get the lock, before any other writer. *)
Unlock(g) ==
  /\ Calls(g, "Unlock") /\ writer = g
  /\ locked' = FALSE /\ writer' = NoWriter
  /\ waiting' = {}
  /\ held' = [h \in Goroutines |-> IF h \in waiting THEN held[h] + 1 ELSE held[h]]
  /\ path' = [h \in Goroutines |->
       IF h = g \/ h \in waiting THEN Tail(path[h]) ELSE path[h]]

Step(g) == RLock(g) \/ RUnlock(g) \/ Announce(g) \/ Lock(g) \/ Unlock(g)

Next == \E g \in Goroutines : Start(g) \/ Step(g)

Spec == Init /\ [][Next]_vars

(* The Go scheduler runs every goroutine that can run, and the stretches and
   the persistence calls between them end.  A sync.Mutex, which the writers
   queue on, hands over to the one that waits longest. *)
FairSpec ==
  /\ Spec
  /\ \A g \in Goroutines : WF_vars(Step(g)) /\ SF_vars(Announce(g))

-----------------------------------------------------------------------------
(* The sets the variables range over; no read lock is given back that was not
   taken, which would be a fatal error of sync.RWMutex. *)
TypeOK ==
  /\ path \in [Goroutines ->
       Seq({"RLock", "RUnlock", "Lock", "Unlock"})]
  /\ held \in [Goroutines -> Nat]
  /\ waiting \subseteq Goroutines
  /\ writer \in Goroutines \cup {NoWriter}
  /\ locked \in BOOLEAN

(* What sync.RWMutex asks of its callers and no compiler checks, on every path
   through every operation: who has returned has given everything back, nobody
   who reads asks for the write lock (there is no upgrade: it would wait for
   itself), and only the goroutine that has the write lock gives it back. *)
LockDiscipline ==
  \A g \in Goroutines :
    /\ path[g] = <<>> => held[g] = 0 /\ writer # g
    /\ Calls(g, "Lock") => held[g] = 0
    /\ Calls(g, "Unlock") => writer = g /\ locked

(* README: "Fully thread-safe for concurrent access from multiple goroutines".
   Every request that takes the lock comes to its end, whatever the others do:
   no deadlock, and neither readers nor writers starve. *)
EveryRequestEnds ==
  \A g \in Goroutines : path[g] # <<>> ~> path[g] = <<>>
=============================================================================
