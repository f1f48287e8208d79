# SyncopateDB: models, checks and proofs

SyncopateDB is an in-memory document store with a JSON API. Entity types are
declared with their fields, the documents of a type are inserted, updated,
deleted, truncated and queried, and a write-ahead log and snapshots in Badger
bring the store back after a restart. This directory models the parts of it
that are hard to test: what requests do to each other between two stretches
under the engine lock, what a rollback undoes, what a crash leaves behind, what
a client sees of a store that changes while its query is answered, and whether
every request ends.

Paths are relative to the repository; `datastore/` stands for
`internal/datastore/` and `persistence/` for `internal/persistence/`.

## 1. Inventory

| Component | State | Operations | Where it is hard |
|---|---|---|---|
| Storage engine (`datastore/datastore_engine.go`, `datastore_truncate.go`, `validation.go`) | `definitions`, `entities`, `indices`, `uniqueIndices`, one `RWMutex` | Insert, Update, Delete, Get, GetByType, TruncateEntityType, TruncateDatabase | each request reads under the read lock, commits under the write lock and persists under none; a failed persistence call takes the lock again and rolls back |
| Schema evolution (`datastore_schema.go`, RegisterEntityType) | the definition read at the start, the migration plan | RegisterEntityType, UpdateEntityType | four stretches; the duplicates are looked for in one and the constraint is applied in another; the rollback restores the definition alone |
| Engine lock | `dse.mu` | every operation above, and the queries | nested read locks, early returns, unlock and lock again around `defer` |
| Log, snapshots, recovery (`persistence/persistence.go`, `wal.go`) | Badger keys `wal:`, `snapshot:`, `latest_snapshot`; `walSequence` | WriteWALEntry, TakeSnapshot, PruneWALBeforeTimestamp, LoadLatestSnapshot, LoadWAL | crashes between two steps; recovery goes through the store and is logged again; numbers start at 1 in each process |
| ID generation (`datastore_id.go`, `persistence/persistence_id.go`) | counters and deleted marks, in memory and in Badger | GenerateID, MarkIDDeleted, Save/LoadCounters, Save/LoadDeletedIDs | two locks, a save that is a copy made earlier, a restart that replays Inserts before it loads the counter |
| Transactions (`wal.go` 48-147) | `currentTxns` | Begin, Add, Commit, Abort | entries written one by one; replay of complete groups only |
| Query service and joins (`query.go`, `query_joins.go`) | none of its own | Query, ExecutePaginatedQuery, ExecuteCountQuery, joins | filters answered from an index or by a scan, sorting and paging, nested locks |
| Persistence manager (`persistence/manager.go`) | GC ticker, stop channel | Start/StopGarbageCollection, Close | stopping twice, closing while requests run |
| LRU cache (`persistence/lru.go`) | list and map | Get, Put, Remove | lookup and move under two locks |
| HTTP API and middleware (`internal/api`) | rate limiter windows | one handler for each route | handlers that make several engine calls: create looks for the new ID by time, delete tries several readings of the ID |
| Memory monitoring (`internal/monitoring`) | history buffer | Start, Stop | start and stop from several goroutines |
| Errors, settings, formatting, entry point | none | – | – |

Interactions: an HTTP handler calls engine or query operations, each of which
takes the lock for itself; the engine
calls the persistence engine with no lock held; the persistence engine writes
to Badger and, at start-up, calls the engine's own operations to replay. A
snapshot calls ListEntityTypes, GetEntityDefinition and GetAllEntitiesOfType
beside the requests. The engine and the ID generators share no lock.

What makes each part correct, briefly: the engine looks like a table on which
requests are atomic, with exact indices and distinct unique values; a failed
request leaves no trace; a schema change leaves the indices exact; every
request ends; the store comes back as it was answered and a transaction comes
back whole; a generated ID is never given out twice; a page, a count and a join
are what the filters say, and a request on an ID reaches the entity of that ID.

## 2. Modules

| Module | Models |
|---|---|
| `Engine` | the data requests in their stretches: one `...Prepare` (RLock), one `...Commit` (Lock), then `Persisted` or the `...Rollback` |
| `EngineAudit` | `Engine` with two history variables: the documents as of the last answer, and whether requests have overlapped |
| `DocumentStore` | the abstract specification: a plain table, a request takes effect in one step or is refused for a true reason |
| `EngineRefinement` | the refinement mapping from `Engine` to `DocumentStore` |
| `EngineSchema` | `Engine` composed with RegisterEntityType and UpdateEntityType |
| `EngineLocks` | `sync.RWMutex` and the calls on `dse.mu` that each operation makes |
| `Durability` | log, transactions, snapshot, prune, shutdown, crash, restart, replay, on a store whose requests are atomic |
| `AutoIncrement` | the counter and the deleted marks of one type, with restart |
| `Filters` | the pure part of the query service: filters, edit distance, index and join keys, the order of results |
| `QueryService` | list, query, nested and count requests in their steps, beside Inserts, Updates and Deletes of others |
| `DataHandlers` | `QueryService` with the create, get, update and delete handlers |
| `EngineProofs`, `EngineRefinementProofs`, `EngineAuditProofs`, `EngineSchemaProofs`, `EngineLocksProofs`, `DurabilityProofs`, `AutoIncrementProofs`, `DataHandlersProofs` | the theorems about the module each is named after, with their proofs |
| `MC...` | request sets and symmetries for TLC; the `.cfg` files give the constants |

`EngineSchema`, `EngineAudit` and `EngineRefinement` extend `Engine`.
`Durability` takes the atomicity of requests from the refinement.
`DataHandlers` extends `QueryService`, which extends `Filters` and takes from
`EngineProofs` that the index lists exactly the entities that hold a value.

### How state and steps correspond to the code

*Engine.* A stretch under `dse.mu` is one step. An entity has one user field;
its schema says whether it is indexed and whether it is unique. A value stands
for the key that `getIndexableValue` and `uniqueIndexKey` make of it, `Nil` for
null or missing, `Absent` for a field that an Update does not mention,
`BadValue` for what validation refuses. `entity.Fields` is a Go map, a
reference: `entities` maps a key to an object and `heap` holds its contents. The
object is named after the request that made it, so an Update that writes into
the map is seen by the Insert whose body it was. `indices` counts how often an
ID is listed under a value; `uniqueIndices` names one ID. An Insert reads under
two RLock stretches (is the type there, then the validation); the model has the
second, which makes the check of the first again. `Failing` says which
persistence calls may fail; the truncations are not rolled back, as in the code.
The fall-backs for keys without a type (`legacy`) find nothing in a store that
this program wrote, and are left out.

*EngineSchema.* `UpdateTypeRead`, `VerifyUnique`, `UpdateTypeApply`,
`UpdateTypeRollback` are the stretches of UpdateEntityType. The new unique index
names the last holder met in a walk over a Go map, any of them (`LastMet`).
Whether ValidateEntityTypeFields and createMigrationPlan accept a request is a
Boolean of the request; conversions of values (integer to float) do not change
which values are equal. RegisterEntityType sets `field.Indexed = true` for a
unique field on the copy of a range loop, so a unique field is not indexed by
itself (README.md:561 says it is); in the model the two are independent.

*EngineLocks.* Each operation is the set of call sequences on `dse.mu` that its
return paths make. `RLock`, `Announce`, `Lock`, `RUnlock`, `Unlock` are
`sync.RWMutex` (external): a writer announces itself, later readers wait, and
they come before the next writer.

*Durability.* A request changes the store (`Commit`), takes its number
(`TakeSequence`) and writes the entry (`WriteEntry`) in three steps. The log is a
set of entries; an entry under the same key replaces an older one. A snapshot
reads definitions and entities type by type. `Crash` may happen at any moment,
during recovery too; then `Restart`, `Replay` of the snapshot, `CollectWAL`,
`Replay` of the log, `Serve`. What is replayed is logged again (`Redo`).
`settings.Config.EnableWAL` is true, the default. A transaction collects
operations in memory (`AddToTransaction`) and writes them one by one, each with a
number of its own (`TakeTxnSequence`, `WriteTxnEntry`, or `WriteTxnFails`); they
reach the store when the log is replayed, after the entries outside
transactions, and only if the group has its last entry
(`CompleteTransactions`). `Shutdown` stops admitting requests, `CloseManager`
begins the last snapshot when the ones in flight are answered, and `CloseStore`
ends the process, whether the snapshot was written or failed. A crash while
requests drain is also the ten-second limit of the shutdown. The pruning of the
log is one Badger transaction, which may fail as a whole (`SnapshotPruneFails`):
TakeSnapshot logs that and goes on.

*Filters.* A value carries its Go kind; a string is a sequence of codes because
case, prefixes, words and the edit distance matter. `NextRow` is one round of
the two-row algorithm; `EditDistance` is the reference: the cheapest alignment of
two words. `GetIndexableValue` keeps what the code's key forgets: the kind, and
the fraction of a second.

*QueryService.* One client; the others are the actions that change the store. The
RLock of `Query` is one step (`ReadPage`, `ReadTargets`, `ExecuteCountQuery`); the
copying of the page and the join are steps without a lock, on maps that Updates
change in place (`heap` keeps a deleted entity's map, which a page may still
refer to). `StampInsert` is the `_created_at` that an Insert takes before its
lock, `CommitInsert` the rest. A result comes in any order of the Go map and is
then sorted by `sort.Slice`, of which the model has the contract (`Sorted`): if the
less function is a strict weak order on the result (`Consistent`), no element
stands behind one that it is less than, and what it does not tell apart comes in
any order; otherwise the result may come in any order at all. A nested query
executes its joins twice (`pass`), as the code does. Of an Update only the fields
that queries look at are set, not `_updated_at`. Variables below the line "What the
properties need to remember" are history: the entities that `Query` selects
(`Filtered`) all the time of a walk, and the targets that a join could have found;
that `Filtered` is the result by the definition of the filters is `PageExact`.
A walk starts at offset 0 with a limit (`WorkloadsAssumption`).

*DataHandlers.* Types with auto-increment IDs. An ID in a URL is a sign, leading
zeros and a number. An Insert brings no `_created_at` of its own (the code would
keep it), an Update's is dropped (`datastore_engine.go:412`). `TryFormat` is one round of the delete handler's search,
`Formats` the readings it tries, the dropped error of `ParseUint` included. No two
types of the model share an ID.

*AutoIncrement.* Each read and each write of the counter, of the marks and of
their copies in Badger is a step of its own. `Crash` may come at any moment; the
recovery then replays the log one entry at a time (`ReplayEntry`; `Redo` is what
an entry does to counter, marks and their copies) and loads the saved counter
at its end (`Recovered`). A crash in the middle of a recovery starts it again.

Bounds are all constants: `Requests` (each serves one request), `Concurrency`,
`MaxCrashes`, `MaxSnapshots`, `MaxTxns`, `MaxTxnSize`, `MaxID`; the requests and
entities of a workload.

## 3. Runs

| Run | Expect | What it asks |
|---|---|---|
| `engine` | pass | Three concurrent requests of every kind, any persistence call failing. `TypeOK`; `IndicesExactWithoutRollback` and `UniqueWithoutRollback`: until the first rollback both kinds of index are exact and unique values distinct; `RollbackRestoresIndices` and `FailedLeaveNoTrace`: without overlap, rollbacks undo everything |
| `engine_refinement` | pass | `ImplementsDocumentStore`, with no rollback of Insert, Update, Delete |
| `engine_rollback_unique` | violation | `NoDuplicates` with overlapping rollbacks |
| `schema` | pass | Two data requests and two schema requests, two in flight, any persistence call failing: `SchemaChangeKeepsIndex`, `SchemaChangeKeepsUnique` |
| `schema_unique_race` | violation | `NoDuplicates` when a unique constraint is added beside Inserts |
| `locks` | pass | `EveryRequestEnds` for the operations that do not nest read locks; `LockDiscipline`: none asks for the write lock while it reads, none ends with a lock, none gives back what it has not got |
| `locks_nested` | violation | `EveryRequestEnds` with GetByType |
| `durability` | pass | Four requests of every kind or a transaction of up to two operations, two ends of the process (crash or shutdown) and a snapshot at any moment, one type: `RecoversAnsweredOnce`, `SequenceNumbersDistinct`, `TransactionsAtomic` |
| `durability_two_types` | violation | `RecoversAnswered` with two types that share an ID |
| `durability_prune` | violation | `RecoversAnswered` with a snapshot beside a request |
| `autoincrement` | pass | Four requests (generated and chosen IDs, Deletes, truncations), two crashes and a snapshot: `NeverReused`, `GeneratedIDsDistinct` |
| `query` | pass | A client's query, count, join, walk or request on an ID beside others' changes: `PageExact`, `CountExact`, `PagesRepeatNothing`, `PagesMissNothing`, `WalkEnds`, `JoinedWereThere`, `JoinKeepsStable`, `CreateAnswersOwn`, `ReachesTheNamed` |

Bounds and why they are enough to be interesting. Three requests on two IDs and
two values let one request change an entity between two stretches of a second
and let a third meet the result; the duplicate after a rollback needs four
requests and one value, which is that run's bound. Two schema requests let one
build on the other's outcome. Four requests fit a registration and three data
requests, or a registration, a snapshot, and requests after it; two crashes
include a crash during the recovery from the first. A transaction of
two operations has a last entry and one that is not, with a request's entry
between them. Three goroutines are a
reader, a writer and a reader that comes after the writer's announcement.
The workloads of `MCQuery` are groups: every pair of words of up to three letters
and some phrases for the fuzzy search; every operator with values of every kind,
null and missing, on an indexed and a plain field; pages of one and two over three
entities with two inserts, updates and deletes at any moment; joins on IDs,
numbers, their texts and joined entities, inner and left, with one and two passes; and
the requests on an ID, with signs and leading zeros, beside inserts and
deletes.
Requests (in `Durability` they are admitted in order instead), values and
administrators are interchangeable, so symmetry over them is sound; no liveness property is checked under symmetry.

CHECK_DEADLOCK is off where the bounded supply of requests runs out: the system
simply idles then. It is on in the `locks` run, where goroutines serve one
operation after the other, and in the `query` run, whose client always may ask
again.

Fairness is assumed in `EngineLocks` only. Weak fairness for every goroutine's
step: the Go scheduler runs every goroutine that can run, stretches contain no
waiting but for the lock, and persistence calls return. Strong fairness for
`Announce`: writers queue on a `sync.Mutex`, which hands over to the one that
waits longest once it has waited for a millisecond.

### What the violations show

- `engine_rollback_unique` (`datastore_engine.go:353`): the rollback of an
  Insert removes whatever is under its key and the unique entry of its value,
  no matter whose they are. After a Delete and another Insert of the value in the
  meantime, a third Insert of it is accepted.
- `schema_unique_race` (`datastore_schema.go:40`): an Insert between the search
  for duplicates and the change of the definition leaves a duplicate under the
  constraint.
- `locks_nested` (`datastore_engine.go:658`): GetByType calls Get with the read
  lock held. A writer that announces itself in between waits for the reader,
  which waits for the writer; nobody is served any more. ExecuteCountQuery
  with joins nests in the same way.
- `durability_two_types` (`persistence.go:828`): replay looks an entity up by its
  ID alone. An Insert is skipped when another type has the ID, an Update goes to
  the type that is found.
- `durability_prune` (`persistence.go:767`): the second part of a log key is the
  sequence number, so pruning "before a timestamp" removes every entry, also of
  requests answered while the snapshot was being taken.

### The exceptions that the passing properties name

Each passing property says under which condition the code keeps it. The
conditions are flaws or limits of the code that TLC shows when the condition is
dropped.

- *Rollbacks beside other requests* (`RollbackRestoresIndices`,
  `FailedLeaveNoTrace`: `overlapped`). A failed Update or Delete puts a copy back
  that it made before the commit, over whatever others did since
  (`datastore_engine.go:484`); an Update that was answered is lost. Below the
  grain of the model, the Fields map that an Update writes (line 463) may at the
  same time be encoded by the Insert that made it, with no lock held.
- *Failed schema changes* (`IndexLost`, `UniqueLost`). When a change that took
  the index or the constraint away is not persisted, the definition comes back
  and the index does not (`datastore_schema.go:113`).
- *Overlapping schema changes* (`OneChange`). The second one compares with the
  definition it read at its start (line 72): if the first dropped the index
  since, the second, which keeps it, leaves it empty.
- *Numbers that start again* (`RecoversAnsweredOnce`, `SequenceNumbersDistinct`:
  after a crash, `OneByOne`, no snapshot, no transaction).
  The first recovery logs the snapshot anew from 1 on, beside entries that
  already have these numbers; at the next recovery entries with one number
  have no order. With the log alone the numbers come out the same and nothing is
  lost, if requests came one at a time on one type (`OneByOne`): else a number
  that a crash lost, or an entry that the replay skips, leaves a gap, what is
  logged anew moves up, and a later entry gets a number that is taken.
- *A log beside the snapshot of its end* (`RecoversAnsweredOnce`: `unsettled`).
  When the process dies between the write of a snapshot and the pruning, or the
  pruning fails (`persistence.go:295`), a recovery logs the snapshot anew under the
  numbers of the old entries. Register, Insert a, Update a to v2, Update a back
  to v1, Insert b, Insert c: if a is the third entity replayed, its new entry 4 has
  the key of the second Update, and the first one, entry 3, has the last word: a
  comes back as v2. `unsettled` counts 0 when there is no snapshot, or no log
  beside it at a shutdown, and then 1 at a snapshot and 1 more at each end of the
  process and at each pruning that did not happen; up to 2 is judged.
- *Transactions* (`RecoversAnsweredOnce` and `SequenceNumbersDistinct`: `txns = 0`;
  `TransactionsAtomic`: from a snapshot, after an interrupted recovery). The
  entries of a committed transaction stay in the log under their numbers, and a
  process that starts with a snapshot, or replays the log a second time, logs
  from 1 on: one of its entries may have the key of one of the transaction's and
  replace it (`wal.go:178`). If that was the last one, the rest is skipped.
- *One request at a time* in the `durability` run. A number is taken after the
  engine lock is released, so two requests on one entity may be logged in the
  other order than they committed (`wal.go:157`).
- *Restarts and IDs* (`NeverReused`). Each replayed Insert saves 0 as the
  counter, each replayed Delete the marks made so far: with a snapshot the older
  marks are lost, and a truncation marks nothing, so removed IDs above the
  highest live one come again. An ID chosen by a client does not move the
  counter: the generator makes it later and that Insert is refused.

- *Walks and their order* (`pushed`, `pulled`). Pages are cut by offset: what is
  inserted before the offset repeats an entity on the next page, what is removed
  hides one. An Insert does it also in the order of creation, as it takes its time
  before its lock (`datastore_engine.go:299`). Ties count as both: the order of
  equal entities changes from one page to the next.
- *Kinds* (`WellTyped`, `Orderable`). An equality on an indexed field compares
  texts, so the number 1 finds the string "1" (`query.go:63`) and a time every time
  of the same second (`datastore_engine.go:760`); an array as the value of the
  order's field makes the less function contradictory (`query.go:613`).
- *Joins that meet* (`Apart`). A join that writes over a field of the entity or
  over another join's result, or whose key another join has written, finds
  what that join left and not what the entity has (`query_joins.go:270`).
- *Fuzzy counts* (`CountExact`). Without joins a fuzzy filter counts 0
  (`query.go:879`: `matchesFilter` has no case for it).
- *Creates that overlap* (`CreateAnswersOwn`). If a later-stamped Insert commits
  before the search, its ID is answered (`handlers.go:265`).
- *Signs* (`ReachesTheNamed`). The delete handler reads "+1" and "-1" as "0", too
  (`handlers.go:449`); if there is an entity 0 it goes.

## 4. Proofs

Each theorem holds for every value of the constants that satisfies the named
assumptions, so for any number of requests, types, IDs, values and
administrators, every workload, every choice of failing calls and every degree
of concurrency. The bounds of TLC's runs (`MaxCrashes` and the others) are
constants of any size in the theorems.

| Module | Theorem | States |
|---|---|---|
| `EngineProofs` | `TypeCorrect` | `Spec => []TypeOK` |
| | `MapsNotShared` | `Spec => []FieldsNotShared`: the map of an entity was made by a request for that entity |
| | `IndicesStayExact` | `Spec => []IndicesExactWithoutRollback` |
| | `UniqueValues` | `Spec => []UniqueWithoutRollback` |
| `EngineRefinementProofs` | `Refinement` | `PersistingSpec => ImplementsDocumentStore`: where no persistence call fails, every step of the engine is a step of `DocumentStore` or a stutter |
| `EngineAuditProofs` | `RollbacksRestore` | `AuditSpec => []RollbackRestoresIndices` |
| | `FailuresUndone` | `AuditSpec => []FailedLeaveNoTrace` |
| `EngineSchemaProofs` | `SchemaTypeCorrect` | `SchemaSpec => []SchemaTypeOK` |
| | `IndexKeptExact` | `SchemaSpec => []SchemaChangeKeepsIndex` |
| | `UniqueKeptExact` | `SchemaSpec => []SchemaChangeKeepsUnique` |
| `EngineLocksProofs` | `TypeCorrect` | `Spec => []TypeOK`, nested read locks included |
| | `LockWellUsed` | `Spec => []LockDiscipline`, nested read locks included: those can wait for ever (`locks_nested`), never misuse the lock |
| `DurabilityProofs` | `TypeCorrect` | `Spec => []TypeOK` |
| | `TransactionsWhole` | `Spec => []TransactionsAtomic` |
| | `NumbersDistinct` | `Spec => []SequenceNumbersDistinct` |
| | `LogRecovers` | `RecoversAnswered` through any number of crashes, where requests come one at a time on one type and no snapshot or transaction was written |
| | `RecoversOnce` | `Spec => [](OneByOne /\ ~LiveSnapshots => RecoversAnsweredOnce)`: the run's degree of concurrency, with snapshots, prunings that fail and shutdowns |
| `AutoIncrementProofs` | `TypeCorrect` | `Spec => []TypeOK` |
| | `NoIDReused` | `Spec => []NeverReused` |
| | `NoIDShared` | `Spec => []GeneratedIDsDistinct` |
| `DataHandlersProofs` | `OwnAnswered` | `DataSpec => []CreateAnswersOwn` |
| | `NamedReached` | `DataSpec => []ReachesTheNamed` |
| | `RequestsTyped` | `DataSpec => []TypeOK` |
| | `WalksEnd` | `DataSpec => []WalkEnds` |
| | `NothingRepeated` | `DataSpec => []PagesRepeatNothing` |
| | `NothingMissed` | `DataSpec => []PagesMissNothing` |
| | `JoinsReal` | `DataSpec => []JoinedWereThere` |
| | `StableRowsKept` | `DataSpec => []JoinKeepsStable` |
| | `PagesExact` | `DataSpec => PageExact`, under `FuzzyAgrees` |
| | `CountsExact` | `DataSpec => CountExact`, under `FuzzyAgrees` |

Assumptions, which TLC evaluates in the runs: the markers are not values
(`MarkersDistinct`, `NoDocumentAssumption`, `NoneAssumption`), the workloads
consist of requests (`WorkloadAssumption`, `SchemaAssumption`,
`DurabilityAssumption`, `AutoIncrementAssumption`, `WorkloadsAssumption`,
`DataAssumption`), the IDs and numbers of the query service have one digit
(`IDsAssumption`, `IsValue`), `Failing` and `Concurrency`
have values that mean something (`FailingAssumption`, `ConcurrencyAssumption`),
and the operations of `EngineLocks` are the engine's (`LocksAssumption`).

### The arguments

*Engine.* `IndInv` is `TypeOK`, `Served` (a goroutine past its start has a
request, and an Update at its commit has validated its data), `FieldsNotShared`
and `IndicesExactWithoutRollback`. The last alone is not inductive: an Update
changes a map in place, and if two entities shared one, the index of the other
would be wrong after it. That they never do follows from the object's name, which
is the request that made it, and that request's key. Uniqueness follows from
exactness: two holders of a value would both be the one ID that the unique index
names. The lemmas on single operations speak of `ExactFor(U, X)`, the unique
indices of the types in `U` and the other indices of those in `X`, because an
error path may lose one kind and keep the other.

*The refinement.* Under `IndInv` each commit maps to the atomic operation on the
table, the other stretches to stutters; a refusal needs the exact unique index,
since `DocumentStore` wants another entity with the value.

*Rollbacks.* `AuditInv` says that as long as nothing overlapped, a request that
waits for its persistence call has at hand what undoes it (`Undoable`): the key
of an Insert maps to its own entity, the backup of an Update or a Delete holds
the field that was answered, and nobody has taken its unique value. The backup
was made under another lock than the commit; that it is still the entity
(`BackupFresh`) is what the absence of overlaps gives.

*Schema changes.* `SchemaInv` carries two situations together. As long as
nothing has overlapped, whoever is in flight is alone (`Lonely`, by counting), so
backups, the definition that was read (`Fresh`), the definition put into force
(`Current`) and the search for duplicates (`Verified`) stand, and a registration
finds no entities (`Empty`, `NoOrphans`). Once requests overlap, data requests
are covered by their second check under the write lock, and a schema change by
the fact that no other one has been applied (`OneApplied`, what remains of
`OneChange` when administrators arrive and leave). TLC checked `SchemaInv` on
the `schema` run's instance before the proof was written.

*The lock.* Along the calls that a goroutine still makes runs the number of read
locks it will hold (`Leads`): it starts at what it holds now, ends at zero, and is
zero around each write stretch, so nobody upgrades. The paths of the operations
are put together from stretches that have this property.

*Durability.* `TransactionsWhole`: the counter of the log is above every number
that this process has given out, so no entry it writes replaces one of a
transaction it committed (`NumbersKept`); what is not in the log yet is in the
hands of the goroutine that commits (`Parts`), and recovery moves the operations
of a complete transaction one by one from what is still to do to what is replayed
(`Halves`).

`NumbersDistinct` after a crash, `LogRecovers` and `RecoversOnce` need that requests
come one at a time on one type, and no snapshot beside one of them (`Calm`). Their
invariant is `LogInv`. One half, `Kept`, holds whatever fails: a snapshot is a copy
of the store (`Copying`); there are at least as many numbers given out as the store
has definitions and entities (`Numbered`), since a request with its own number adds
at most one; and if the log is empty the store is the snapshot (`Settled`). The
other half, `Recorded`, holds when the recovery is judged (`Judged`): there is a
history of operations from the snapshot on, of which the log has each one under
the numbers `m + 1`, `m + 2`, ... (`High`), with `m` the numbers given out before; what
is in the log besides are the items of the snapshot that a recovery logged anew
(`Low`), and these have no numbers above `m`. While a snapshot is replayed the store
is the snapshot without what is still missing (`Partial`, `ItemRebuilds`); in the
log the items come first and have no effect (`LowNoEffect`), then the history, entry
by entry (`ReplayedExactly`). When `m` is the number of items, as in a recovery from
the log alone or after a shutdown, what is logged anew is there already, so that
any number of crashes may follow. Otherwise it interleaves with the history, and
only this recovery, which has read the log before, is sound: hence one crash.
`LogInv` was checked by TLC before it was proved. The hypotheses are needed: with
two types that share an ID a recovery loses entities (run `durability_two_types`),
with a snapshot beside a request, too (run `durability_prune`).

*Auto-increment IDs.* `IndInv` follows an ID from its use to its bar. Until a
snapshot is taken the log has an Insert for each used ID (`UsedLogged`); the
replay of an Insert leaves its ID alive or marked as deleted (`ReplayedKnown`);
so when requests are served each used ID is marked or at most the counter
(`UsedBarred`). An ID that the generator has just made is not in use
(`HeldUnused`), nor is it another request's (`HeldDistinct`). That the counter of
a recovery is the maximum of what it found is `MaxIsGreatest`, by way of least
elements (`LeastElement`).

*Requests on single entities.* `DataInv` for the create handler: all time stamps
are in the past (`StoreOK`), so no entity and no pending Insert ever has the
`_created_at` of the entity that was created (`OwnStamp`); where that is the
latest, the newest entity is the own one. For a request with an ID: the readings
that were tried are not in `stable` (`Tried`), and among the readings are the
number and nothing else, but for the 0 of a sign (`ReadingsOfID`). What others
do meanwhile is one lemma, `OthersKeep`.

*Walks through pages.* For a set of entities that were read, `Down` are the
selected entities that come before one of them or are one of them, `Behind` says
that others come after all of them. `NothingTwice`: as long as nobody came to stand
before what was read, the page and those before it have no entity twice, and `Down`
of them fits before the offset of the next page. That page begins behind the
offset, so its entities are not in `Down`. `NothingLeft` is the converse: the
entities that are there all the time and were not read come after all that were,
and `Down` fills the pages so far, so the next page begins with nothing skipped.
Both need that no two entities are tied, for only then the order of the read is
the order of the next one; a step of others outside what was read does not change
`Down` (`NothingInFront`, `NothingGone`). That a page is where it should be is
counted from `Sorted` alone, the contract of the sort (`NextPageNew`,
`NextPageWhole`). `WalkEnds` follows from `HasMore`: a
next page is asked for only when the total, which is at most the number of all
entities, is above offset plus rows.

*Exact pages and counts.* All values in the store are of the kinds that the filters
know (`ValuesOK`), because the start, the Inserts, the Updates and the handlers bring
no others. Among values of one kind, times excepted, the text that an index lists
is different for different values (`KeysApart`), so an index selects what the
definition of the equality selects, and `Filtered` is `Matching`
(`FilteredMatching`). The less function of the sort is a strict weak order where the
values compare (`StringOrder`, `LessOrder`, `OrderConsistent`), and for such a
function `sort.Slice` leaves nothing behind what should come after it; so the
entity at a place has at most the earlier ones before it and at most the later
ones after it (`RankOfPlace`). The offset and the limit cut out a stretch of that sequence
(`PageLength`). The argument needs nothing of the order in which Go iterates the map.

The one hypothesis, `FuzzyAgrees`, is about the texts of fuzzy filters alone: the
computation in two rows and the definition by alignments accept the same texts.
Where no filter of the workloads is fuzzy it holds trivially, and the two theorems
have no hypothesis left.

*Joins.* `JoinOK` keeps the history true (`Offers` are in `ever`, `always` in
`Accepted`), the targets that were read between the two (`TargetsOK`), and of the
rows (`RowsOK`) that each join's result is `Recorded` there, that an executed inner
join has one, and that a row whose targets were there all the time is still among
them with the keys it had (`SameLocals`). The last two are why the second pass does
no harm: it meets rows with the results of the first, and `Apart` keeps the keys
out of their way.

### Only model-checked

Liveness (`EveryRequestEnds`) and `ENABLED` are out of the prover's reach. So is
`FuzzyAgrees`: that the edit distance in two rows is the distance by alignments
needs induction over the lengths of two words. TLC compares the two on all pairs
of words up to three letters and on the texts of the `query` run.

## 5. What is not modelled

Several user fields in `Engine` (the queries have several); the conversions of
values; UUID and CUID generators, whose IDs are random; the setting without the
log, in which Insert and Update write keys that no recovery reads; backup and
restore; decoding errors of log entries. The periodic snapshot routine only
writes a log line, so there is no step for it.

Of the life cycle, the shutdown is modelled in the order of `main`: the server has
stopped when the manager closes. A program that embeds the engine and closes it
beside requests or snapshots meets `pe.db = nil` (`persistence.go:182`, `276`);
nothing in the repository does. The garbage collection of Badger's value log
changes nothing that a client sees; a second start leaves a goroutine that waits
on a nil channel until its next tick (`manager.go:123`).

Of the HTTP layer, the schema and truncate handlers are one engine call each
(the truncate handler's count is read before the truncation,
`handler_truncate.go:26`); decoding, status codes, the conversion of answers, debug
pages, headers, compression and logs are left out. The rate limiter is one
counter and one window under one mutex. An explicit ID with leading zeros is
accepted and stored as it stands (`datastore_id.go:88`), and every later request
on it is normalized to another text; the model's IDs have none. `filterInternalFields`
and its relatives remove fields from answers and nothing else.

The LRU cache is made and never used. The memory monitor reads runtime
statistics and formats them.

Two accesses of one map at the same instant, which Go's runtime may answer by
stopping the process, are below the grain of all modules: between two steps every
order is checked, within a step nothing else happens.

## 6. Plan

Done, the most shared state first: the engine with its abstract specification
and first theorems, schema evolution, the lock, durability with transactions and
shutdown, auto-increment IDs, queries and joins, and the handlers on single
entities.

The proofs follow the same order: the engine, its refinement and rollbacks, schema
changes, the lock, the log, the generator, the handlers on single entities,
recovery from a snapshot, walks through pages, and joins.

The exactness of pages and counts came last. What remains is the equality of the
two edit distances, for a prover with induction over data.
