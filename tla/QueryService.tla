---------------------------- MODULE QueryService ----------------------------
(***************************************************************************)
(* The query service (internal/datastore/query.go and query_joins.go) with *)
(* the handlers that call it, against a store that other requests change.  *)
(*                                                                         *)
(* One client sends list, query, nested and count requests; it may walk    *)
(* through the pages of a result.  A request is not one step: the page and *)
(* the targets of each join are read under RLocks of their own, and the    *)
(* Fields maps are copied and answered from with no lock held.  A page     *)
(* holds references to the maps, and Update changes a map in place: `heap' *)
(* keeps the map of an entity after its deletion.                          *)
(*                                                                         *)
(* An Insert stamps _created_at before it takes the write lock, so the     *)
(* stamp and the commit are two steps.  Updates and deletes are one step   *)
(* (Engine has their stretches).  The index is what Engine proves it to    *)
(* be: the entities that hold the value.                                   *)
(***************************************************************************)
EXTENDS Filters

CONSTANTS
  IDs,         \* entity IDs of the model, numbers of one digit
  Registered,  \* the entity types of dse.definitions
  Indexed,     \* pairs of a type and a field that is indexed
  Workloads    \* by name: where to start, what clients ask, what changes

ASSUME IDsAssumption == IDs \subseteq 0..9

IsEntity(e) == e = [type |-> e.type, fields |-> e.fields]

HasValues(fields) == \A k \in DOMAIN fields : IsValue(fields[k])

(* A workload: the entities at the start, those that may be inserted, the
   field values that Updates may set, the IDs that may be deleted, and the
   requests of the client, who walks in pages from the first one on.  Update
   drops a _created_at from its data; that of an Insert is the clock's. *)
ASSUME WorkloadsAssumption ==
  \A w \in Range(Workloads) :
    /\ DOMAIN w.start \subseteq IDs /\ DOMAIN w.inserts \subseteq IDs
    /\ DOMAIN w.start \cap DOMAIN w.inserts = {}
    /\ w.deletes \subseteq IDs
    /\ w.queries # {}
    /\ \A q \in w.queries :
         /\ q.limit \in Nat /\ q.offset \in Nat /\ q.joins \in Seq(ToSet(q.joins))
         /\ q.walk => /\ q.handler \in {"list", "query", "nested"}
                     /\ q.limit > 0 /\ q.offset = 0
         /\ \A f \in q.filters : IsValue(f.value)
    /\ \A u \in w.updates :
         u.id \in IDs /\ u.field # "_created_at" /\ IsValue(u.value)
    /\ \A i \in DOMAIN w.start :
         /\ IsEntity(w.start[i]) /\ HasValues(w.start[i].fields)
         /\ "_created_at" \in DOMAIN w.start[i].fields
         /\ w.start[i].fields["_created_at"][2] \in 1..Cardinality(DOMAIN w.start)
    /\ \A i \in DOMAIN w.inserts :
         /\ IsEntity(w.inserts[i]) /\ HasValues(w.inserts[i].fields)
         /\ "_created_at" \notin DOMAIN w.inserts[i].fields

VARIABLES
  workload,  \* the name of the workload of this behaviour
  live,      \* the IDs in dse.entities
  heap,      \* ID -> its type and its Fields map
  clock,     \* time.Now
  stamps,    \* the inserts between stamp and commit: ID -> _created_at
  pc,        \* where the client's request is
  req,       \* its QueryOptions
  offset,    \* the offset of the page that is asked for
  page,      \* the entities of the page, by reference
  rows,      \* their copies, with what was joined; in the order of the page
  joinNo,    \* the join that is executed
  pass,      \* 1 in ExecutePaginatedQuery, 2 in ExecuteQueryWithJoins
  targets,   \* the entities the join's own query returned
  total,     \* Total of the response, or the answer of a count
  hasMore    \* HasMore of the response

(* What the properties need to remember about the client's walk. *)
VARIABLES
  seen,      \* the entities of the pages so far
  stable,    \* the entities that matched all the time since it began
  pushed,    \* an entity came to stand before one that was read, or tied
  pulled,    \* an entity left a place before one that was read, or tied
  ever,      \* <<join, target, key>> that held at some time of the request
  always,    \* those that held all the time, join filters included
  copies     \* the rows before the first join

storeVars == <<live, heap, clock, stamps>>
requestVars == <<pc, req, offset, page, rows, joinNo, pass, targets, total,
                 hasMore>>
walkVars == <<seen, stable, pushed, pulled>>
joinVars == <<ever, always, copies>>
vars == <<workload, storeVars, requestVars, walkVars, joinVars>>

Work == Workloads[workload]

(* A map after the entries of another one, or a single one, were set. *)
Overlay(new, f) ==
  [k \in DOMAIN new \cup DOMAIN f |-> IF k \in DOMAIN new THEN new[k] ELSE f[k]]

Put(f, key, value) == Overlay([k \in {key} |-> value], f)

-----------------------------------------------------------------------------
(* Filters on the entities of a store (L the live IDs, H their maps). *)

OfType(t, L, H) == {i \in L : H[i].type = t}

FuzzyOpts == [num |-> 7, den |-> 10, maxDistance |-> 3]

(* The IDs that the index of a field lists under the key of value v; null is
   not indexed. *)
IndexLookup(t, field, v, L, H) ==
  {i \in OfType(t, L, H) :
     /\ field \in DOMAIN H[i].fields
     /\ Kind(H[i].fields[field]) # "null"
     /\ GetIndexableValue(H[i].fields[field]) = GetIndexableValue(v)}

(* The scan: a missing field never matches, a fuzzy filter only strings. *)
ScanMatches(fields, f, how) ==
  /\ f.field \in DOMAIN fields
  /\ IF f.operator = "fuzzy"
       THEN /\ Kind(fields[f.field]) = "str"
            /\ FuzzyMatch(how, fields[f.field][2], f.value[2], FuzzyOpts)
       ELSE MatchesFilter(fields[f.field], f.operator, f.value)

UsesIndex(t, f) == f.operator = "eq" /\ <<t, f.field>> \in Indexed

(* The loop over options.Filters in Query. *)
Filtered(q, L, H) ==
  {i \in OfType(q.type, L, H) :
     \A f \in q.filters :
       IF UsesIndex(q.type, f)
         THEN i \in IndexLookup(q.type, f.field, f.value, L, H)
         ELSE ScanMatches(H[i].fields, f, "rows")}

(* The checks of Query that end in an error. *)
QueryFails(q) ==
  \/ q.type \notin Registered
  \/ \E f \in q.filters : f.operator = "fuzzy" /\ Kind(f.value) # "str"

(* The order of a page; without one it is the order of creation. *)
OrderField(q) == IF q.orderBy = "" THEN "_created_at" ELSE q.orderBy

Descending(q) == q.orderBy # "" /\ q.desc

Before(q, i, j, H) ==
  Less(H[i].fields, H[j].fields, OrderField(q), Descending(q))

(* What sort.Slice asks of a less function: that it is a strict weak order. *)
Consistent(q, S, H) ==
  \A i, j \in S :
    i # j /\ Before(q, i, j, H) =>
      /\ ~Before(q, j, i, H)
      /\ \A k \in S \ {i, j} : Before(q, i, k, H) \/ Before(q, k, j, H)

(* A mutant: the result stays in the order of the map. *)
Unsorted(q, L, H) == SetToSeqs(Filtered(q, L, H))

(* What Query may return: the matches in the order in which the map was
   iterated, any order, and then sorted by sort.Slice, which leaves what the
   order does not tell apart in any order. *)
Sorted(q, L, H) ==
  {s \in SetToSeqs(Filtered(q, L, H)) :
     Consistent(q, Filtered(q, L, H), H) =>
       \A m, n \in DOMAIN s : m < n => ~Before(q, s[n], s[m], H)}

(* The slice of a page, with the bounds cut to the length. *)
Slice(s, from, limit) ==
  SubSeq(s, from + 1,
         IF limit > 0 /\ from + limit < Len(s) THEN from + limit ELSE Len(s))

-----------------------------------------------------------------------------
(* Joins. *)

IDText(i) == <<"str", DecimalText(i)>>

(* A mutant: a target without the field is found by its ID. *)
AlwaysForeign(i, join, H) == TRUE

HasForeign(i, join, H) ==
  join.foreign = "id" \/ join.foreign \in DOMAIN H[i].fields

(* The key of a target: its field, or the ID when the field is "id" and no
   field has that name. *)
ForeignValue(i, join, H) ==
  IF join.foreign \in DOMAIN H[i].fields THEN H[i].fields[join.foreign]
                                         ELSE IDText(i)

HasLocal(row, join) == join.local = "id" \/ join.local \in DOMAIN row.fields

LocalValue(row, join) ==
  IF join.local = "id" THEN IDText(row.id) ELSE row.fields[join.local]

(* filterJoinFields: the ID and the fields asked for, without internal ones. *)
Internal == {"_created_at", "_updated_at"}

FilterJoinFields(i, join) ==
  LET all == DOMAIN heap[i].fields
      wanted == (IF join.include = {} THEN all \ Internal
                                      ELSE all \cap join.include) \ join.exclude
  IN [id |-> i, fields |-> Restrict(heap[i].fields, wanted)]

(* targetMap[key], as a set. *)
MatchesFor(row, join) ==
  {i \in ToSet(targets) :
     /\ HasForeign(i, join, heap)
     /\ NormalizeForJoinComparison(ForeignValue(i, join, heap))
          = NormalizeForJoinComparison(LocalValue(row, join))}

Matched(row, join) == HasLocal(row, join) /\ MatchesFor(row, join) # {}

(* The match met first in the order of the targets, or all of them. *)
Selected(row, join) ==
  LET found == MatchesFor(row, join)
      first(n) == targets[n] \in found /\ \A m \in 1..(n - 1) : targets[m] \notin found
  IN IF join.strategy = "first" THEN {targets[n] : n \in {n \in DOMAIN targets : first(n)}}
                                ELSE found

(* The row with what one join found.  A row without a match keeps what an
   earlier pass put there. *)
JoinRow(row, join) ==
  IF ~Matched(row, join) THEN row
  ELSE LET joined == {FilterJoinFields(i, join) : i \in Selected(row, join)}
       IN [row EXCEPT !.fields = Put(@, join.result, <<"map", joined>>)]

(* The rows after executeJoin. *)
Joined(all, join) ==
  {JoinRow(row, join) : row \in {r \in all : join.inner => Matched(r, join)}}

(* A lookup in targetMap with a slice or a map as key panics; the recovery
   middleware answers with an error. *)
JoinPanics(all, join) ==
  \/ \E i \in ToSet(targets) :
       HasForeign(i, join, heap) /\ Unhashable(ForeignValue(i, join, heap))
  \/ \E row \in all :
       HasLocal(row, join) /\ Unhashable(LocalValue(row, join))

-----------------------------------------------------------------------------
(* What the properties compare with. *)

(* What the properties take for the result of a request: every filter is
   tried on every entity, with the edit distance by its definition. *)
Matching(q, L, H) ==
  {i \in OfType(q.type, L, H) :
     \A f \in q.filters : ScanMatches(H[i].fields, f, "definition")}

(* The value an entity is ordered by, if it has one. *)
OrderValue(q, i, H) == IF OrderField(q) \in DOMAIN H[i].fields
                         THEN <<H[i].fields[OrderField(q)]>> ELSE <<>>

(* The targets a join may find, with the value that decides. *)
Offers(q, L, H) ==
  LET values(i, join) ==
        IF join.foreign \in DOMAIN H[i].fields THEN {H[i].fields[join.foreign]}
        ELSE IF join.foreign = "id" THEN {IDText(i)} ELSE {}
      offers(n) == {{n} \X {i} \X values(i, q.joins[n]) :
                      i \in OfType(q.joins[n].type, L, H)}
  IN UNION UNION {offers(n) : n \in DOMAIN q.joins}

Accepted(q, L, H) ==
  {o \in Offers(q, L, H) : o[2] \in Filtered(q.joins[o[1]], L, H)}

(* Two entities of the result that the order does not tell apart. *)
Tied(q, L, H) ==
  \/ ~Consistent(q, Filtered(q, L, H), H)
  \/ \E i, j \in Filtered(q, L, H) :
       i # j /\ Before(q, i, j, H) = Before(q, j, i, H)

Idle == pc = "idle"

(* Where the requests of DataHandlers are. *)
DataPlaces == {"stamp", "insert", "newest", "get", "update", "find", "delete"}

(* The place of entity i is before one of the entities that were read, or it
   is one of them. *)
BeforeSeen(i, H) ==
  \E j \in ToSet(seen \o page) : i = j \/ ~Before(req, j, i, H)

(* The history variables after a change of the store. *)
Remember ==
  IF Idle THEN UNCHANGED <<walkVars, joinVars>>
  ELSE LET old == Filtered(req, live, heap)
           new == Filtered(req, live', heap')
           moved == {i \in old \cap new :
                       OrderValue(req, i, heap) # OrderValue(req, i, heap')}
           entered == (new \ old) \cup moved
           left == (old \ new) \cup moved
           tied == Tied(req, live', heap')
       IN /\ stable' = stable \cap (new \ moved)
          /\ pushed' = (pushed \/ tied \/ \E i \in entered : BeforeSeen(i, heap'))
          /\ pulled' = (pulled \/ tied \/ \E i \in left : BeforeSeen(i, heap))
          /\ ever' = ever \cup Offers(req, live', heap')
          /\ always' = always \cap Accepted(req, live', heap')
          /\ UNCHANGED <<seen, copies>>

-----------------------------------------------------------------------------
(* The requests that change the store. *)

(* Insert before its lock: addInternalFields reads the clock. *)
StampInsert(i) ==
  /\ i \in DOMAIN Work.inserts \ (live \cup DOMAIN stamps)
  /\ i \notin DOMAIN heap
  /\ stamps' = Put(stamps, i, clock)
  /\ clock' = clock + 1
  /\ UNCHANGED <<workload, live, heap, requestVars, walkVars, joinVars>>

Stamped(e, time) == [e EXCEPT !.fields = Put(@, "_created_at", <<"time", time>>)]

(* A mutant: the insert stays pending after its commit. *)
CommitInsertAgain(i) ==
  /\ i \in DOMAIN stamps \cap DOMAIN Work.inserts
  /\ live' = live \cup {i}
  /\ heap' = Put(heap, i, Stamped(Work.inserts[i], stamps[i]))
  /\ UNCHANGED <<workload, clock, stamps, requestVars>>
  /\ Remember

(* Insert under its lock. *)
CommitInsert(i) ==
  /\ i \in DOMAIN stamps \cap DOMAIN Work.inserts
  /\ live' = live \cup {i}
  /\ heap' = Put(heap, i, Stamped(Work.inserts[i], stamps[i]))
  /\ stamps' = Restrict(stamps, DOMAIN stamps \ {i})
  /\ UNCHANGED <<workload, clock, requestVars>>
  /\ Remember

(* Update: the fields are set in the map that pages refer to. *)
Update(u) ==
  /\ u.id \in live
  /\ heap' = [heap EXCEPT ![u.id].fields = Put(@, u.field, u.value)]
  /\ heap' # heap
  /\ UNCHANGED <<workload, live, clock, stamps, requestVars>>
  /\ Remember

Delete(i) ==
  /\ i \in live \cap Work.deletes
  /\ live' = live \ {i}
  /\ UNCHANGED <<workload, heap, clock, stamps, requestVars>>
  /\ Remember

-----------------------------------------------------------------------------
(* The client's requests. *)

(* What req holds between two requests. *)
NoQuery == CHOOSE q \in Work.queries : TRUE

(* A request arrives.  The history of the walk and of the joins begins. *)
Begin(q, place) ==
  /\ Idle
  /\ q \in Work.queries
  /\ pc' = place
  /\ req' = q
  /\ offset' = q.offset
  /\ seen' = <<>>
  /\ stable' = Filtered(q, live, heap)
  /\ pushed' = Tied(q, live, heap)
  /\ pulled' = Tied(q, live, heap)
  /\ ever' = Offers(q, live, heap)
  /\ always' = Accepted(q, live, heap)
  /\ UNCHANGED <<workload, storeVars, page, rows, joinNo, pass, targets, total,
                 hasMore, copies>>

(* handleListEntities: no filters, no joins, a positive limit. *)
HandleListEntities(q) == q.handler = "list" /\ Begin(q, "read")

(* handleQuery: ExecutePaginatedQuery. *)
HandleQuery(q) == q.handler = "query" /\ Begin(q, "read")

(* handleNestedQuery: ExecuteQueryWithJoins, refused without a join. *)
HandleNestedQuery(q) == q.handler = "nested" /\ q.joins # <<>> /\ Begin(q, "read")

(* handleCountQuery. *)
HandleCountQuery(q) == q.handler = "count" /\ Begin(q, "read")

(* The request is over: answered, refused or broken off. *)
End ==
  /\ pc' = "idle"
  /\ page' = <<>> /\ rows' = {} /\ targets' = <<>> /\ copies' = {}
  /\ joinNo' = 0 /\ pass' = 0
  /\ seen' = <<>> /\ stable' = {} /\ pushed' = FALSE /\ pulled' = FALSE
  /\ ever' = {} /\ always' = {}
  /\ total' = 0 /\ hasMore' = FALSE /\ offset' = 0
  /\ req' = NoQuery
  /\ UNCHANGED <<workload, storeVars>>

(* A mutant: HasMore looks at the limit only. *)
MoreByLimit(count, all) == offset + req.limit + 1 < all

(* A mutant: HasMore compares what was answered with the total. *)
MoreByCount(count, all) == count < all

HasMore(count, all) == offset + count < all

(* ExecutePaginatedQuery up to the joins: Query under its RLock. *)
ReadPage ==
  /\ pc = "read" /\ req.handler # "count" /\ ~QueryFails(req)
  /\ \E s \in Sorted(req, live, heap) :
       /\ page' = Slice(s, offset, req.limit)
       /\ total' = Len(s)
       /\ IF req.joins = <<>>
            THEN /\ pc' = "answer"
                 /\ hasMore' = HasMore(Len(page'), Len(s))
            ELSE /\ pc' = "copy"
                 /\ UNCHANGED hasMore
  /\ UNCHANGED <<workload, storeVars, req, offset, rows, joinNo, pass, targets,
                 walkVars, joinVars>>

(* The copies that the joins work on, made after the RLock is released. *)
CopyRows ==
  /\ pc = "copy"
  /\ rows' = {[id |-> i, fields |-> heap[i].fields] : i \in ToSet(page)}
  /\ copies' = rows'
  /\ joinNo' = 1 /\ pass' = 1
  /\ pc' = "join"
  /\ UNCHANGED <<workload, storeVars, req, offset, page, targets, total, hasMore,
                 walkVars, ever, always>>

(* executeJoin: its own Query. *)
ReadTargets ==
  LET join == req.joins[joinNo]
  IN /\ pc = "join" /\ ~QueryFails(join)
     /\ targets' \in SetToSeqs(Filtered(join, live, heap))
     /\ pc' = "apply"
     /\ UNCHANGED <<workload, storeVars, req, offset, page, rows, joinNo, pass,
                    total, hasMore, walkVars, joinVars>>

(* The rest of executeJoin, with no lock; then the next join, the second pass
   over the joins, or the answer. *)
ApplyJoin ==
  LET join == req.joins[joinNo]
      last == joinNo = Len(req.joins)
      again == last /\ pass = 1 /\ req.handler = "nested"
  IN /\ pc = "apply" /\ ~JoinPanics(rows, join)
     /\ rows' = Joined(rows, join)
     /\ targets' = <<>>
     /\ joinNo' = IF last THEN 1 ELSE joinNo + 1
     /\ pass' = IF again THEN 2 ELSE pass
     /\ pc' = IF last /\ ~again THEN "answer" ELSE "join"
     /\ hasMore' = IF last /\ pass = 1 THEN HasMore(Cardinality(rows'), total) ELSE hasMore
     /\ UNCHANGED <<workload, storeVars, req, offset, page, total, walkVars, joinVars>>

(* An error of Query, of the query of a join, or a panic in the lookup. *)
Fail ==
  /\ \/ pc = "read" /\ req.handler # "count" /\ QueryFails(req)
     \/ pc = "join" /\ QueryFails(req.joins[joinNo])
     \/ pc = "apply" /\ JoinPanics(rows, req.joins[joinNo])
  /\ End

(* A mutant: the index is asked whenever one of the filters can use it. *)
CountByAnyIndex(q) ==
  IF \E f \in q.filters : UsesIndex(q.type, f)
    THEN LET f == CHOOSE f \in q.filters : UsesIndex(q.type, f)
         IN Cardinality(IndexLookup(q.type, f.field, f.value, live, heap))
    ELSE Cardinality(Filtered(q, live, heap))

(* ExecuteCountQuery.  With joins it is the Total of the whole query, and the
   RLock is held all the time; else one equality on an indexed field is
   counted in the index, anything else by matchesFilter, which knows no
   fuzzy filter. *)
CountOf(q) ==
  IF q.joins # <<>> THEN Cardinality(Filtered(q, live, heap))
  ELSE IF \E f \in q.filters : q.filters = {f} /\ UsesIndex(q.type, f)
    THEN LET f == CHOOSE f \in q.filters : TRUE
         IN Cardinality(IndexLookup(q.type, f.field, f.value, live, heap))
  ELSE Cardinality({i \in OfType(q.type, live, heap) :
                      \A f \in q.filters :
                        /\ f.operator # "fuzzy"
                        /\ ScanMatches(heap[i].fields, f, "rows")})

(* A count whose joins meet an array as key is not asked for. *)
CountFails(q) ==
  \/ q.type \notin Registered
  \/ q.joins # <<>> /\ \E o \in {q} \cup ToSet(q.joins) : QueryFails(o)

ExecuteCountQuery ==
  /\ pc = "read" /\ req.handler = "count"
  /\ \/ CountFails(req) /\ End
     \/ /\ ~CountFails(req)
        /\ total' = CountOf(req)
        /\ pc' = "answer"
        /\ UNCHANGED <<workload, storeVars, req, offset, page, rows, joinNo, pass,
                       targets, hasMore, walkVars, joinVars>>

(* The response is written; the client asks for the next page when it walks
   and there is more. *)
Answer ==
  /\ pc = "answer"
  /\ ~(req.walk /\ hasMore)
  /\ End

NextPage ==
  /\ pc = "answer" /\ req.walk /\ hasMore
  /\ pc' = "read"
  /\ seen' = seen \o page
  /\ offset' = offset + req.limit
  /\ page' = <<>> /\ rows' = {} /\ copies' = {}
  /\ ever' = Offers(req, live, heap)
  /\ always' = Accepted(req, live, heap)
  /\ UNCHANGED <<workload, storeVars, req, joinNo, pass, targets, total, hasMore,
                 stable, pushed, pulled>>

-----------------------------------------------------------------------------
Init ==
  /\ workload \in DOMAIN Workloads
  /\ live = DOMAIN Work.start
  /\ heap = Work.start
  /\ clock = Cardinality(live) + 1
  /\ stamps = <<>>
  /\ pc = "idle"
  /\ req = NoQuery
  /\ offset = 0 /\ page = <<>> /\ rows = {} /\ copies = {}
  /\ joinNo = 0 /\ pass = 0 /\ targets = <<>> /\ total = 0 /\ hasMore = FALSE
  /\ seen = <<>> /\ stable = {} /\ pushed = FALSE /\ pulled = FALSE
  /\ ever = {} /\ always = {}

Next ==
  \/ \E i \in IDs : StampInsert(i) \/ CommitInsert(i) \/ Delete(i)
  \/ \E u \in Work.updates : Update(u)
  \/ \E q \in Work.queries :
       \/ HandleListEntities(q) \/ HandleQuery(q)
       \/ HandleNestedQuery(q) \/ HandleCountQuery(q)
  \/ ReadPage \/ CopyRows \/ ReadTargets \/ ApplyJoin \/ Fail
  \/ ExecuteCountQuery \/ Answer \/ NextPage

Spec == Init /\ [][Next]_vars

-----------------------------------------------------------------------------
TypeOK ==
  /\ live \subseteq DOMAIN heap /\ DOMAIN heap \subseteq IDs
  /\ DOMAIN stamps \subseteq IDs \ live
  /\ pc \in {"idle", "read", "copy", "join", "apply", "answer"} \cup DataPlaces
  /\ ToSet(page) \cup ToSet(targets) \cup ToSet(seen) \subseteq DOMAIN heap
  /\ {row.id : row \in rows} \subseteq ToSet(page)
  /\ joinNo \in 0..Len(req.joins) /\ pass \in 0..2
  /\ total \in Nat /\ hasMore \in BOOLEAN

(* The filter that goes to the index has the kind of the values it is compared
   with: the text of another kind may be the same, and that of a time has only
   whole seconds. *)
WellTyped(q) ==
  \A f \in q.filters : UsesIndex(q.type, f) =>
    /\ Kind(f.value) \notin {"null", "time"}
    /\ \A i \in OfType(q.type, live, heap) :
         f.field \in DOMAIN heap[i].fields =>
           Kind(heap[i].fields[f.field]) \in {Kind(f.value), "null"}

(* Any two values of the order's field compare. *)
Orderable(q) ==
  \A i, j \in Matching(q, live, heap) :
    OrderField(q) \in DOMAIN heap[i].fields \cap DOMAIN heap[j].fields =>
      Comparable(heap[i].fields[OrderField(q)], heap[j].fields[OrderField(q)])

(* A page is the part of the result that its offset and limit name: every
   entity on it matches all filters, whether index, scan or edit distance
   decided, it has the rank its place says, and the total is exact. *)
PageRight ==
  pc = "read" /\ req.handler # "count" /\ pc' \in {"copy", "answer"}
    /\ WellTyped(req) /\ Orderable(req)
  => LET result == Matching(req, live, heap)
         left == Max({0, Cardinality(result) - offset})
         before(i) == {j \in result : Before(req, j, i, heap)}
         after(i) == {j \in result : Before(req, i, j, heap)}
     IN /\ total' = Cardinality(result)
        /\ Len(page') = IF req.limit > 0 THEN Min({left, req.limit}) ELSE left
        /\ IsInjective(page') /\ ToSet(page') \subseteq result
        /\ \A n \in DOMAIN page' :
             /\ Cardinality(before(page'[n])) < offset + n
             /\ offset + n <= Cardinality(result \ after(page'[n]))

(* ... whenever ExecutePaginatedQuery reads one. *)
PageExact == [][PageRight]_vars

(* A count is the number of entities a query with the same filters finds; a
   fuzzy filter without joins counts nothing. *)
CountRight ==
  pc = "read" /\ req.handler = "count" /\ pc' = "answer" /\ WellTyped(req)
    /\ (req.joins # <<>> \/ \A f \in req.filters : f.operator # "fuzzy")
  => total' = Cardinality(Matching(req, live, heap))

(* ... whichever path of ExecuteCountQuery is taken. *)
CountExact == [][CountRight]_vars

(* Walking through the pages until HasMore is false, a client sees no entity
   twice unless one came to stand before what it had read, as an Insert does
   that was stamped before and committed after the read of a page. *)
PagesRepeatNothing ==
  pc = "answer" /\ ~pushed => IsInjective(seen \o page)

(* ... and it sees every entity that matched all the time, unless one left
   the result. *)
PagesMissNothing ==
  pc = "answer" /\ req.handler # "count" /\ req.walk /\ ~hasMore /\ ~pulled
    => stable \subseteq ToSet(seen \o page)

(* A walk ends: after the first page it never asks for one that begins a whole
   page after all entities there are, although HasMore is true too often when
   an inner join drops rows. *)
WalkEnds ==
  ~Idle => \/ offset = req.offset
           \/ offset < Cardinality(DOMAIN heap) + req.limit

(* Equal as values, or a number and its text. *)
SameKey(v, w) ==
  v = w \/ \E n \in 0..9 : {v, w} = {<<"num", n>>, <<"str", DecimalText(n)>>}

(* The joins put their results where neither the entities nor the other joins
   have anything. *)
Apart(q) ==
  \A n \in DOMAIN q.joins :
    LET result == q.joins[n].result
    IN /\ \A row \in copies : result \notin DOMAIN row.fields
       /\ \A m \in DOMAIN q.joins :
            result # q.joins[m].local /\ (m # n => result # q.joins[m].result)

(* Whatever a join put into an answered row was, at some time of the request,
   an entity of the target type with the row's key, and a row of an inner
   join has it. *)
JoinedWereThere ==
  pc = "answer" /\ Apart(req) =>
    \A row \in rows, n \in DOMAIN req.joins :
      LET join == req.joins[n]
      IN /\ join.inner => join.result \in DOMAIN row.fields
         /\ join.result \in DOMAIN row.fields =>
              \A t \in row.fields[join.result][2] :
                \E o \in ever : /\ o[1] = n /\ o[2] = t.id
                                /\ SameKey(o[3], LocalValue(row, join))

(* Every inner join of the request had a target for the row all the time. *)
AlwaysJoined(row) ==
  \A n \in DOMAIN req.joins : req.joins[n].inner =>
    /\ HasLocal(row, req.joins[n])
    /\ \E o \in always :
         o[1] = n /\ SameKey(o[3], LocalValue(row, req.joins[n]))

(* No inner join drops a row that had a target all the time of the request,
   although the joins of a nested query are executed twice. *)
JoinKeepsStable ==
  pc = "answer" /\ Apart(req) =>
    \A row \in copies : AlwaysJoined(row) => \E r \in rows : r.id = row.id
=============================================================================
