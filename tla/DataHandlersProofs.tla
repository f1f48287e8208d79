------------------------- MODULE DataHandlersProofs -------------------------
(***************************************************************************)
(* What the query service and the handlers of single entities answer, for  *)
(* any store, any requests and any interleaving with the requests of       *)
(* others.                                                                 *)
(*                                                                         *)
(* The argument for the create handler: no other entity ever has the       *)
(* _created_at of the one that was created, so where that is the latest,   *)
(* the newest entity is the own one.  For a request that names an entity:  *)
(* the readings of the ID that were tried are not in `stable', and one of  *)
(* them is the number of the ID.                                           *)
(*                                                                         *)
(* For the pages of a walk: the places of what was shown fit before the    *)
(* offset of the next page (NothingTwice), and what stays and was not      *)
(* shown comes after it (NothingLeft).  For the joins: every target was    *)
(* offered while the request ran, and none that stays is missing           *)
(* (TargetsOK); a row keeps the keys it came with (RowsOK).                *)
(*                                                                         *)
(* For the exactness of pages and counts: the indices and scans select     *)
(* what the definition of the filters selects (FilteredMatching), and in a *)
(* sorted sequence the place of an entity is its rank (RankOfPlace).       *)
(***************************************************************************)
EXTENDS DataHandlers, FiniteSetTheorems, TLAPS

DataRequests == {"create", "get", "update", "delete"}

(* The maps of the store, and that all time stamps are in the past. *)
StoreOK ==
  /\ clock \in Nat
  /\ live \subseteq DOMAIN heap /\ DOMAIN heap \subseteq IDs
  /\ \A i \in DOMAIN heap :
       /\ IsEntity(heap[i]) /\ "_created_at" \in DOMAIN heap[i].fields
       /\ Created(i) \in 0..(clock - 1)
  /\ \A i \in DOMAIN stamps :
       /\ stamps[i] \in 0..(clock - 1)
       /\ i \in DOMAIN Work.inserts => i \notin DOMAIN heap

(* Which request may be where. *)
PlaceOK ==
  /\ workload \in DOMAIN Workloads
  /\ pc = "idle" => total = 0 /\ hasMore = FALSE
  /\ pc # "idle" => req \in Work.queries
  /\ pc \in {"read", "copy", "join", "apply"} => req.handler \notin DataRequests
  /\ pc \in {"stamp", "insert", "newest"} => req.handler = "create"
  /\ pc = "get" => req.handler = "get"
  /\ pc = "update" => req.handler = "update"
  /\ pc \in {"find", "delete"} => req.handler = "delete"
  /\ req.handler \in DataRequests => hasMore = FALSE

(* Nothing else has or will have the time stamp t. *)
OnlyStamp(i, t) ==
  /\ \A j \in DOMAIN heap \ {i} : Created(j) # t
  /\ \A j \in DOMAIN stamps \ {i} : stamps[j] # t

OwnStamp ==
  req.handler = "create" =>
    /\ pc \in {"stamp", "insert"} => req.id \notin DOMAIN heap
    /\ pc = "insert" =>
         req.id \in DOMAIN stamps /\ OnlyStamp(req.id, stamps[req.id])
    /\ pc \in {"newest", "answer"} =>
         /\ page = <<req.id>> /\ req.id \in DOMAIN heap
         /\ heap[req.id].type = req.type
         /\ OnlyStamp(req.id, Created(req.id))

Readings == {Formats(req.raw)[k] : k \in 1..Len(Formats(req.raw))}

(* What was tried is not there all the time, what is deleted was tried. *)
Tried ==
  /\ pc # "idle" => stable \subseteq OfType(req.type, live, heap)
  /\ pc = "find" =>
       /\ total \in 0..Len(Formats(req.raw))
       /\ \A k \in 1..total : Formats(req.raw)[k] \notin stable
  /\ pc = "delete" =>
       page # <<>> /\ page = <<page[1]>> /\ page[1] \in Readings \cap DOMAIN heap
  /\ pc = "answer" /\ req.handler \in {"get", "update", "delete"} =>
       page = <<>> \/ page[1] \in DOMAIN heap

DataInv ==
  StoreOK /\ PlaceOK /\ OwnStamp /\ Tried /\ CreateAnswersOwn /\ ReachesTheNamed

-----------------------------------------------------------------------------
(* The operators. *)

LEMMA OverlayFacts ==
  ASSUME NEW new, NEW f, NEW key, key \notin DOMAIN new, key \in DOMAIN f
  PROVE  key \in DOMAIN Overlay(new, f) /\ Overlay(new, f)[key] = f[key]
BY DEF Overlay

(* An entity with another map of fields. *)
LEMMA FieldsChanged ==
  ASSUME NEW e, IsEntity(e), NEW g
  PROVE  LET x == [e EXCEPT !.fields = g]
         IN IsEntity(x) /\ x.type = e.type /\ x.fields = g
<1>1. PICK t, f : e = [type |-> t, fields |-> f]
  BY DEF IsEntity
<1>2. [e EXCEPT !.fields = g] = [type |-> t, fields |-> g]
  BY <1>1
<1> QED BY <1>1, <1>2 DEF IsEntity

LEMMA StampedEntity ==
  ASSUME NEW e, IsEntity(e), NEW time
  PROVE  LET x == Stamped(e, time)
         IN /\ IsEntity(x) /\ x.type = e.type
            /\ "_created_at" \in DOMAIN x.fields
            /\ x.fields["_created_at"][2] = time
<1>1. Stamped(e, time) =
        [e EXCEPT !.fields = Put(e.fields, "_created_at", <<"time", time>>)]
  BY DEF Stamped
<1>2. /\ "_created_at" \in DOMAIN Put(e.fields, "_created_at", <<"time", time>>)
      /\ Put(e.fields, "_created_at", <<"time", time>>)["_created_at"]
           = <<"time", time>>
  BY DEF Put, Overlay
<1> QED BY <1>1, <1>2, FieldsChanged

LEMMA WorkloadFacts ==
  ASSUME workload \in DOMAIN Workloads
  PROVE  /\ DOMAIN Work.start \subseteq IDs /\ DOMAIN Work.inserts \subseteq IDs
         /\ \A u \in Work.updates : u.id \in IDs /\ u.field # "_created_at"
         /\ \A i \in DOMAIN Work.start :
              /\ IsEntity(Work.start[i])
              /\ "_created_at" \in DOMAIN Work.start[i].fields
              /\ Work.start[i].fields["_created_at"][2]
                   \in 1..Cardinality(DOMAIN Work.start)
         /\ \A i \in DOMAIN Work.inserts : IsEntity(Work.inserts[i])
         /\ \A q \in Work.queries :
              /\ q.handler = "create" =>
                   /\ q.id \in IDs \ DOMAIN Work.inserts
                   /\ "_created_at" \notin DOMAIN q.fields
              /\ q.handler = "update" => "_created_at" \notin DOMAIN q.fields
              /\ q.handler \in {"get", "update", "delete"} => q.raw \in RawID
<1>1. Work \in Range(Workloads)
  BY DEF Work, Range
<1> QED BY <1>1, WorkloadsAssumption, DataAssumption

(* One of the readings of an ID is its number, and none is another one, but
   for the 0 that a sign may be taken for. *)
LEMMA ReadingsOfID ==
  ASSUME NEW raw \in RawID, NEW k \in 1..Len(Formats(raw))
  PROVE  /\ Len(Formats(raw)) \in {1, 4}
         /\ Formats(raw)[1] = Exact(raw)
         /\ raw.sign \in {"", "+"} =>
              Len(Formats(raw)) = 4 /\ Formats(raw)[3] = raw.num
         /\ Formats(raw)[k] \in IDs /\ (raw.sign = "" \/ Formats(raw)[k] # 0) =>
              Formats(raw)[k] = raw.num /\ raw.sign \in {"", "+"}
<1>1. NoID \notin IDs
  BY IDsAssumption DEF NoID
<1>2. CASE raw.sign = "x"
  <2>1. Formats(raw) = <<NoID>> /\ Exact(raw) = NoID
    BY <1>2 DEF Formats, Exact
  <2>2. Len(Formats(raw)) = 1 /\ k = 1 /\ Formats(raw)[1] = NoID
    BY <2>1
  <2> QED BY <1>1, <1>2, <2>1, <2>2
<1>3. CASE raw.sign # "x"
  <2> DEFINE second == IF raw.sign = "" THEN raw.num ELSE 0
  <2>1. Formats(raw) = <<Exact(raw), second, Signed(raw), Signed(raw)>>
    BY <1>3 DEF Formats
  <2> HIDE DEF second
  <2>2. /\ Len(Formats(raw)) = 4 /\ k \in 1..4
        /\ Formats(raw)[1] = Exact(raw) /\ Formats(raw)[2] = second
        /\ Formats(raw)[3] = Signed(raw) /\ Formats(raw)[4] = Signed(raw)
    BY <2>1
  <2>3. raw.sign \in {"", "+", "-"} /\ raw.num \in 0..9
    BY <1>3 DEF RawID
  <2>4. Formats(raw)[k] \in {Exact(raw), second, Signed(raw)}
    BY <2>2
  <2>5. raw.sign \in {"", "+"} => Signed(raw) = raw.num
    BY DEF Signed
  <2>6. ASSUME Formats(raw)[k] \in IDs, raw.sign = "" \/ Formats(raw)[k] # 0
        PROVE  Formats(raw)[k] = raw.num /\ raw.sign \in {"", "+"}
    <3>1. CASE raw.sign = ""
      BY <1>1, <2>4, <2>6, <3>1 DEF Exact, Signed, second
    <3>2. CASE raw.sign = "+"
      BY <1>1, <2>4, <2>6, <3>2 DEF Exact, Signed, second
    <3>3. CASE raw.sign = "-"
      BY <1>1, <2>4, <2>6, <3>3 DEF Exact, Signed, second
    <3> QED BY <2>3, <3>1, <3>2, <3>3
  <2> QED BY <2>2, <2>5, <2>6
<1> QED BY <1>2, <1>3

LEMMA FilteredOfType ==
  ASSUME NEW q, NEW L, NEW H
  PROVE  Filtered(q, L, H) \subseteq OfType(q.type, L, H)
BY DEF Filtered

-----------------------------------------------------------------------------
(* What the steps of the store leave of the history variable `stable'. *)

(* Between two steps of a request nothing becomes stable. *)
StableKept ==
  pc # "idle" =>
    /\ stable' \subseteq stable
    /\ stable' \subseteq OfType(req.type, live', heap')

LEMMA Remembered ==
  ASSUME Remember
  PROVE  StableKept
<1>1. SUFFICES ASSUME pc # "idle"
               PROVE  /\ stable' \subseteq stable
                      /\ stable' \subseteq OfType(req.type, live', heap')
  BY DEF StableKept
<1>2. stable' \subseteq stable /\ stable' \subseteq Filtered(req, live', heap')
  BY <1>1 DEF Remember, Idle
<1> QED BY <1>2, FilteredOfType

LEMMA StoreUnchanged ==
  ASSUME Tried, UNCHANGED <<live, heap, stable>>
  PROVE  StableKept
BY DEF Tried, StableKept

-----------------------------------------------------------------------------
(* The other requests. *)

(* What Inserts, Updates and Deletes of others do to the store. *)
OthersChange ==
  /\ clock' \in Nat /\ clock' >= clock
  /\ \A i \in DOMAIN heap :
       /\ i \in DOMAIN heap'
       /\ heap'[i].type = heap[i].type /\ Created(i)' = Created(i)
  /\ \A i \in DOMAIN heap' \ DOMAIN heap :
       /\ i \in DOMAIN stamps \cap DOMAIN Work.inserts
       /\ Created(i)' = stamps[i]
  /\ \A i \in DOMAIN stamps' :
       \/ i \in DOMAIN stamps /\ stamps'[i] = stamps[i]
       \/ i \notin DOMAIN stamps /\ stamps'[i] = clock
  /\ DOMAIN stamps \ DOMAIN stamps' \subseteq DOMAIN Work.inserts
  /\ \A i \in live' \ live : i \notin DOMAIN heap

LEMMA StampInsertChange ==
  ASSUME StoreOK, PlaceOK, Tried, NEW i \in IDs, StampInsert(i)
  PROVE  OthersChange /\ StoreOK' /\ StableKept
<1>1. /\ i \in DOMAIN Work.inserts /\ i \notin DOMAIN stamps /\ i \notin DOMAIN heap
      /\ stamps' = Put(stamps, i, clock)
      /\ clock' = clock + 1
      /\ UNCHANGED <<workload, live, heap, stable>>
  BY DEF StampInsert, walkVars
<1>2. /\ DOMAIN stamps' = DOMAIN stamps \cup {i} /\ stamps'[i] = clock
      /\ \A j \in DOMAIN stamps \ {i} : stamps'[j] = stamps[j]
  BY <1>1 DEF Put, Overlay
<1>3. Work' = Work
  BY <1>1 DEF Work
<1>4. OthersChange
  BY <1>1, <1>2 DEF StoreOK, OthersChange, Created
<1>5. StoreOK'
  BY <1>1, <1>2, <1>3 DEF StoreOK, Created
<1> QED BY <1>1, <1>4, <1>5, StoreUnchanged

LEMMA CommitInsertChange ==
  ASSUME StoreOK, PlaceOK, NEW i \in IDs, CommitInsert(i)
  PROVE  OthersChange /\ StoreOK' /\ StableKept
<1>1. /\ i \in DOMAIN stamps /\ i \in DOMAIN Work.inserts /\ i \notin DOMAIN heap
      /\ live' = live \cup {i}
      /\ heap' = Put(heap, i, Stamped(Work.inserts[i], stamps[i]))
      /\ stamps' = Restrict(stamps, DOMAIN stamps \ {i})
      /\ UNCHANGED <<workload, clock>>
      /\ Remember
  BY DEF CommitInsert, StoreOK
<1>2. /\ DOMAIN heap' = DOMAIN heap \cup {i}
      /\ heap'[i] = Stamped(Work.inserts[i], stamps[i])
      /\ \A j \in DOMAIN heap \ {i} : heap'[j] = heap[j]
  BY <1>1 DEF Put, Overlay
<1>3. /\ DOMAIN stamps' = DOMAIN stamps \ {i}
      /\ \A j \in DOMAIN stamps' : stamps'[j] = stamps[j]
  BY <1>1 DEF Restrict
<1>4. /\ IsEntity(heap'[i]) /\ "_created_at" \in DOMAIN heap'[i].fields
      /\ Created(i)' = stamps[i]
  <2>1. IsEntity(Work.inserts[i])
    BY <1>1, WorkloadFacts DEF PlaceOK
  <2> QED BY <1>2, <2>1, StampedEntity DEF Created
<1>5. Work' = Work
  BY <1>1 DEF Work
<1>6. OthersChange
  <2>1. \A j \in DOMAIN heap :
          j \in DOMAIN heap' /\ heap'[j] = heap[j] /\ Created(j)' = Created(j)
    BY <1>1, <1>2 DEF Created
  <2>2. \A j \in DOMAIN heap' \ DOMAIN heap : j = i
    BY <1>2
  <2>3. clock' \in Nat /\ clock' >= clock
    BY <1>1 DEF StoreOK
  <2>4. \A j \in live' \ live : j \notin DOMAIN heap
    BY <1>1
  <2> QED BY <1>1, <1>3, <1>4, <2>1, <2>2, <2>3, <2>4 DEF OthersChange
<1>7. StoreOK'
  <2>1. \A j \in DOMAIN heap' :
          /\ IsEntity(heap'[j]) /\ "_created_at" \in DOMAIN heap'[j].fields
          /\ Created(j)' \in 0..(clock - 1)
    BY <1>1, <1>2, <1>4 DEF StoreOK, Created
  <2>2. \A j \in DOMAIN stamps' :
          /\ stamps'[j] \in 0..(clock - 1)
          /\ j \in DOMAIN Work.inserts => j \notin DOMAIN heap'
    BY <1>2, <1>3 DEF StoreOK
  <2> QED BY <1>1, <1>2, <1>5, <2>1, <2>2 DEF StoreOK
<1> QED BY <1>1, <1>6, <1>7, Remembered

(* The fields of one entity were changed, but not its _created_at. *)
LEMMA FieldsSet ==
  ASSUME StoreOK, UNCHANGED <<workload, clock, stamps>>,
         live' \subseteq live,
         DOMAIN heap' = DOMAIN heap,
         \A i \in DOMAIN heap :
           \/ heap'[i] = heap[i]
           \/ \E g : /\ heap'[i] = [heap[i] EXCEPT !.fields = g]
                     /\ "_created_at" \in DOMAIN g
                     /\ g["_created_at"] = heap[i].fields["_created_at"]
  PROVE  OthersChange /\ StoreOK'
<1>1. ASSUME NEW i \in DOMAIN heap
      PROVE  /\ IsEntity(heap'[i]) /\ "_created_at" \in DOMAIN heap'[i].fields
             /\ heap'[i].type = heap[i].type
             /\ Created(i)' = Created(i)
  <2>1. CASE heap'[i] = heap[i]
    BY <2>1 DEF StoreOK, Created
  <2>2. ASSUME NEW g, heap'[i] = [heap[i] EXCEPT !.fields = g],
               "_created_at" \in DOMAIN g,
               g["_created_at"] = heap[i].fields["_created_at"]
        PROVE  <1>1!2
    <3>1. IsEntity(heap[i])
      BY DEF StoreOK
    <3> QED BY <2>2, <3>1, FieldsChanged DEF Created
  <2> QED BY <2>1, <2>2
<1>2. Work' = Work
  BY DEF Work
<1>3. OthersChange
  BY <1>1 DEF StoreOK, OthersChange
<1>4. StoreOK'
  BY <1>1, <1>2 DEF StoreOK
<1> QED BY <1>3, <1>4

LEMMA UpdateChange ==
  ASSUME StoreOK, PlaceOK, NEW u \in Work.updates, Update(u)
  PROVE  OthersChange /\ StoreOK' /\ StableKept
<1>1. /\ u.id \in DOMAIN heap
      /\ heap' = [heap EXCEPT ![u.id].fields = Put(@, u.field, u.value)]
      /\ UNCHANGED <<workload, live, clock, stamps>>
      /\ Remember
  BY DEF Update, StoreOK
<1>2. u.field # "_created_at"
  BY WorkloadFacts DEF PlaceOK
<1>3. DOMAIN heap' = DOMAIN heap
  BY <1>1
<1>4. ASSUME NEW i \in DOMAIN heap, i # u.id
      PROVE  heap'[i] = heap[i]
  BY <1>1, <1>4
<1>5. LET g == Put(heap[u.id].fields, u.field, u.value)
      IN /\ heap'[u.id] = [heap[u.id] EXCEPT !.fields = g]
         /\ "_created_at" \in DOMAIN g
         /\ g["_created_at"] = heap[u.id].fields["_created_at"]
  <2>1. "_created_at" \in DOMAIN heap[u.id].fields
    BY <1>1 DEF StoreOK
  <2> QED BY <1>1, <1>2, <2>1 DEF Put, Overlay
<1> QED BY <1>1, <1>3, <1>4, <1>5, FieldsSet, Remembered

LEMMA DeleteChange ==
  ASSUME StoreOK, NEW i \in IDs, Delete(i)
  PROVE  OthersChange /\ StoreOK' /\ StableKept
<1>1. live' \subseteq live /\ UNCHANGED <<workload, heap, clock, stamps>> /\ Remember
  BY DEF Delete
<1> QED BY <1>1, FieldsSet, Remembered

(* A step of another request disturbs no request. *)
LEMMA OthersKeep ==
  ASSUME DataInv, OthersChange, StoreOK', StableKept,
         UNCHANGED <<workload, requestVars>>
  PROVE  DataInv'
<1> USE DEF DataInv, requestVars
<1>1. Work' = Work
  BY DEF Work
<1>2. PlaceOK'
  BY <1>1 DEF PlaceOK
<1>3. req.handler = "create" /\ pc # "idle" =>
        req.id \in IDs \ DOMAIN Work.inserts
  BY WorkloadFacts DEF PlaceOK
<1>4. OwnStamp'
  <2>1. SUFFICES ASSUME req.handler = "create", pc # "idle"
                 PROVE  OwnStamp'
    BY DEF OwnStamp
  <2>2. CASE pc \in {"stamp", "insert"}
    <3>1. req.id \notin DOMAIN heap'
      BY <1>3, <2>1, <2>2 DEF OwnStamp, OthersChange
    <3>2. ASSUME pc = "insert"
          PROVE  /\ req.id \in DOMAIN stamps'
                 /\ stamps'[req.id] = stamps[req.id]
                 /\ OnlyStamp(req.id, stamps[req.id])'
      <4>1. /\ req.id \in DOMAIN stamps /\ OnlyStamp(req.id, stamps[req.id])
            /\ stamps[req.id] \in 0..(clock - 1) /\ clock \in Nat
        BY <2>1, <3>2 DEF OwnStamp, StoreOK
      <4>2. req.id \in DOMAIN stamps' /\ stamps'[req.id] = stamps[req.id]
        BY <1>3, <2>1, <4>1 DEF OthersChange
      <4>3. \A j \in DOMAIN heap' \ {req.id} : Created(j)' # stamps[req.id]
        BY <4>1 DEF OthersChange, OnlyStamp
      <4>4. \A j \in DOMAIN stamps' \ {req.id} : stamps'[j] # stamps[req.id]
        BY <4>1 DEF OthersChange, OnlyStamp
      <4> QED BY <4>2, <4>3, <4>4 DEF OnlyStamp
    <3> QED BY <2>1, <2>2, <3>1, <3>2 DEF OwnStamp
  <2>3. CASE pc \in {"newest", "answer"}
    <3>1. /\ page = <<req.id>> /\ req.id \in DOMAIN heap
          /\ heap[req.id].type = req.type
          /\ OnlyStamp(req.id, Created(req.id))
          /\ Created(req.id) \in 0..(clock - 1) /\ clock \in Nat
      BY <2>1, <2>3 DEF OwnStamp, StoreOK
    <3>2. /\ req.id \in DOMAIN heap' /\ heap'[req.id].type = req.type
          /\ Created(req.id)' = Created(req.id)
      BY <3>1 DEF OthersChange
    <3>3. \A j \in DOMAIN heap' \ {req.id} : Created(j)' # Created(req.id)
      BY <3>1 DEF OthersChange, OnlyStamp
    <3>4. \A j \in DOMAIN stamps' \ {req.id} : stamps'[j] # Created(req.id)
      BY <3>1 DEF OthersChange, OnlyStamp
    <3>5. OnlyStamp(req.id, Created(req.id))'
      BY <3>2, <3>3, <3>4 DEF OnlyStamp
    <3> QED BY <2>1, <2>3, <3>1, <3>2, <3>5 DEF OwnStamp
  <2> QED BY <2>1, <2>2, <2>3 DEF OwnStamp
<1>5. Tried'
  BY DEF Tried, StableKept, OthersChange, Readings
<1>6. CreateAnswersOwn'
  <2>1. SUFFICES ASSUME pc = "answer", req.handler = "create", page[1] \in live',
                        clock' = Created(page[1])' + 1
                 PROVE  targets = page
    BY DEF CreateAnswersOwn
  <2>2. /\ page[1] \in DOMAIN heap /\ Created(page[1]) \in 0..(clock - 1)
        /\ clock \in Nat
    BY <2>1 DEF OwnStamp, StoreOK
  <2>3. page[1] \in live
    BY <2>1, <2>2 DEF OthersChange
  <2>4. Created(page[1])' = Created(page[1]) /\ clock' \in Nat /\ clock' >= clock
    BY <2>2 DEF OthersChange
  <2>5. clock = Created(page[1]) + 1
    BY <2>1, <2>2, <2>4
  <2> QED BY <2>1, <2>3, <2>5 DEF CreateAnswersOwn
<1>7. ReachesTheNamed'
  <2>1. SUFFICES ASSUME pc = "answer", req.handler \in {"get", "update", "delete"},
                        Normalizable(req.raw) \/ 0 \notin DOMAIN heap'
                 PROVE  ReachesTheNamed'
    BY DEF ReachesTheNamed, Normalizable
  <2>2. Normalizable(req.raw) \/ 0 \notin DOMAIN heap
    BY <2>1 DEF OthersChange
  <2>3. /\ page # <<>> =>
             /\ page = <<req.raw.num>> /\ heap[page[1]].type = req.type
             /\ req.raw.sign \in {"", "+"}
        /\ page = <<>> /\ req.raw.num \in stable =>
             req.raw.sign \in (IF req.handler = "delete" THEN {"-", "x"}
                                                         ELSE {"+", "-", "x"})
    BY <2>1, <2>2 DEF ReachesTheNamed
  <2>4. stable' \subseteq stable
    BY <2>1 DEF StableKept
  <2>5. page # <<>> => page[1] \in DOMAIN heap
    BY <2>1 DEF Tried
  <2> QED BY <2>1, <2>3, <2>4, <2>5 DEF ReachesTheNamed, OthersChange
<1> QED BY <1>2, <1>4, <1>5, <1>6, <1>7

-----------------------------------------------------------------------------
(* The requests. *)

LEMMA Arrival ==
  ASSUME DataInv, NEW q \in Work.queries, NEW place, Begin(q, place),
         \/ place = "read" /\ q.handler \notin DataRequests
         \/ place = "stamp" /\ q.handler = "create" /\ q.id \notin DOMAIN heap
         \/ place = "get" /\ q.handler = "get"
         \/ place = "update" /\ q.handler = "update"
         \/ place = "find" /\ q.handler = "delete"
  PROVE  DataInv'
<1> USE DEF DataInv
<1>1. /\ pc = "idle" /\ pc' = place /\ req' = q
      /\ stable' = Filtered(q, live, heap)
      /\ UNCHANGED <<workload, live, heap, clock, stamps, total, hasMore>>
  BY DEF Begin, Idle, storeVars
<1>2. Work' = Work
  BY <1>1 DEF Work
<1>3. StoreOK'
  BY <1>1, <1>2 DEF StoreOK, Created
<1>4. PlaceOK' /\ total' = 0
  BY <1>1, <1>2 DEF PlaceOK, DataRequests
<1>5. OwnStamp'
  BY <1>1, <1>2 DEF OwnStamp, DataRequests
<1>6. Tried'
  <2>1. stable' \subseteq OfType(req'.type, live', heap')
    BY <1>1, FilteredOfType
  <2>2. pc' = "find" => Len(Formats(req'.raw)) \in {1, 4}
    BY DEF Formats
  <2> QED BY <1>1, <1>4, <2>1, <2>2 DEF Tried
<1>7. CreateAnswersOwn' /\ ReachesTheNamed'
  BY <1>1 DEF CreateAnswersOwn, ReachesTheNamed
<1> QED BY <1>3, <1>4, <1>5, <1>6, <1>7

(* A query, or the end of any request. *)
LEMMA QueryKeeps ==
  ASSUME DataInv, PlaceOK', UNCHANGED <<workload, live, heap, clock, stamps>>,
         \/ pc' = "idle"
         \/ /\ pc # "idle" /\ req.handler \notin DataRequests
            /\ UNCHANGED <<req, stable>>
  PROVE  DataInv'
<1> USE DEF DataInv
<1>1. Work' = Work
  BY DEF Work
<1>2. StoreOK'
  BY <1>1 DEF StoreOK, Created
<1>3. CASE pc' = "idle"
  BY <1>2, <1>3 DEF OwnStamp, Tried, CreateAnswersOwn, ReachesTheNamed
<1>4. CASE /\ pc # "idle" /\ req.handler \notin DataRequests
           /\ UNCHANGED <<req, stable>>
  <2>1. pc' \notin {"find", "delete"}
    BY <1>4 DEF PlaceOK, DataRequests
  <2>2. OwnStamp' /\ CreateAnswersOwn' /\ ReachesTheNamed'
    BY <1>4 DEF OwnStamp, CreateAnswersOwn, ReachesTheNamed, DataRequests
  <2>3. Tried'
    BY <1>4, <2>1 DEF Tried, DataRequests
  <2> QED BY <1>2, <2>2, <2>3
<1> QED BY <1>3, <1>4

LEMMA EndKeeps ==
  ASSUME DataInv, End
  PROVE  DataInv'
<1>1. /\ pc' = "idle" /\ total' = 0 /\ hasMore' = FALSE
      /\ UNCHANGED <<workload, live, heap, clock, stamps>>
  BY DEF End, storeVars
<1>2. PlaceOK'
  BY <1>1 DEF DataInv, PlaceOK
<1> QED BY <1>1, <1>2, QueryKeeps

LEMMA QueryStepKeeps ==
  ASSUME DataInv,
         \/ ReadPage \/ CopyRows \/ ReadTargets \/ ApplyJoin \/ Fail
         \/ ExecuteCountQuery \/ Answer \/ NextPage
  PROVE  DataInv'
<1>1. ASSUME pc \in {"read", "copy", "join", "apply"},
             pc' \in {"copy", "join", "apply", "answer"},
             UNCHANGED <<workload, req, live, heap, clock, stamps, stable>>
      PROVE  DataInv'
  <2>1. req.handler \notin DataRequests
    BY <1>1 DEF DataInv, PlaceOK
  <2>2. Work' = Work
    BY <1>1 DEF Work
  <2>3. PlaceOK'
    BY <1>1, <2>1, <2>2 DEF DataInv, PlaceOK, DataRequests
  <2> QED BY <1>1, <2>1, <2>3, QueryKeeps
<1>2. CASE ReadPage
  BY <1>1, <1>2 DEF ReadPage, storeVars, walkVars
<1>3. CASE CopyRows
  BY <1>1, <1>3 DEF CopyRows, storeVars, walkVars
<1>4. CASE ReadTargets
  BY <1>1, <1>4 DEF ReadTargets, storeVars, walkVars
<1>5. CASE ApplyJoin
  BY <1>1, <1>5 DEF ApplyJoin, storeVars, walkVars
<1>6. CASE Fail
  BY <1>6, EndKeeps DEF Fail
<1>7. CASE ExecuteCountQuery
  BY <1>1, <1>7, EndKeeps DEF ExecuteCountQuery, storeVars, walkVars
<1>8. CASE Answer
  BY <1>8, EndKeeps DEF Answer
<1>9. CASE NextPage
  <2>1. /\ pc = "answer" /\ hasMore /\ pc' = "read"
        /\ UNCHANGED <<workload, req, live, heap, clock, stamps, stable, hasMore>>
    BY <1>9 DEF NextPage, storeVars
  <2>2. req.handler \notin DataRequests
    BY <2>1 DEF DataInv, PlaceOK
  <2>3. Work' = Work
    BY <2>1 DEF Work
  <2>4. PlaceOK'
    BY <2>1, <2>2, <2>3 DEF DataInv, PlaceOK, DataRequests
  <2> QED BY <2>1, <2>2, <2>4, QueryKeeps
<1> QED BY <1>2, <1>3, <1>4, <1>5, <1>6, <1>7, <1>8, <1>9

-----------------------------------------------------------------------------
(* The create handler. *)

LEMMA StampCreateKeeps ==
  ASSUME DataInv, StampCreate
  PROVE  DataInv'
<1> USE DEF DataInv
<1>1. /\ pc = "stamp" /\ pc' = "insert"
      /\ stamps' = Put(stamps, req.id, clock) /\ clock' = clock + 1
      /\ UNCHANGED <<workload, live, heap, req, page, total, hasMore, stable>>
  BY DEF StampCreate, walkVars
<1>2. /\ DOMAIN stamps' = DOMAIN stamps \cup {req.id}
      /\ stamps'[req.id] = clock
      /\ \A j \in DOMAIN stamps \ {req.id} : stamps'[j] = stamps[j]
  BY <1>1 DEF Put, Overlay
<1>3. /\ req.handler = "create" /\ req \in Work.queries
      /\ req.id \notin DOMAIN heap /\ req.id \notin DOMAIN Work.inserts
  BY <1>1, WorkloadFacts DEF PlaceOK, OwnStamp
<1>4. Work' = Work
  BY <1>1 DEF Work
<1>5. StoreOK'
  BY <1>1, <1>2, <1>3, <1>4 DEF StoreOK, Created
<1>6. PlaceOK'
  BY <1>1, <1>3, <1>4 DEF PlaceOK, DataRequests
<1>7. OwnStamp'
  <2>1. \A j \in DOMAIN heap' \ {req.id} : Created(j)' # clock
    BY <1>1 DEF StoreOK, Created
  <2>2. \A j \in DOMAIN stamps' \ {req.id} : stamps'[j] # clock
    BY <1>1, <1>2 DEF StoreOK
  <2>3. OnlyStamp(req.id, stamps[req.id])'
    BY <1>1, <1>2, <2>1, <2>2 DEF OnlyStamp
  <2> QED BY <1>1, <1>2, <1>3, <2>3 DEF OwnStamp
<1>8. Tried'
  BY <1>1 DEF Tried
<1>9. CreateAnswersOwn' /\ ReachesTheNamed'
  BY <1>1 DEF CreateAnswersOwn, ReachesTheNamed
<1> QED BY <1>5, <1>6, <1>7, <1>8, <1>9

LEMMA CommitCreateKeeps ==
  ASSUME DataInv, CommitCreate
  PROVE  DataInv'
<1> USE DEF DataInv
<1> DEFINE new == [type |-> req.type, fields |-> req.fields]
<1>1. /\ pc = "insert" /\ pc' = "newest"
      /\ live' = live \cup {req.id}
      /\ heap' = Put(heap, req.id, Stamped(new, stamps[req.id]))
      /\ stamps' = Restrict(stamps, DOMAIN stamps \ {req.id})
      /\ page' = <<req.id>>
      /\ UNCHANGED <<workload, clock, req, total, hasMore>>
      /\ Remember
  BY DEF CommitCreate
<1>2. /\ req.handler = "create" /\ req \in Work.queries
      /\ req.id \in IDs /\ req.id \notin DOMAIN Work.inserts
      /\ req.id \notin DOMAIN heap /\ req.id \in DOMAIN stamps
      /\ OnlyStamp(req.id, stamps[req.id])
  BY <1>1, WorkloadFacts DEF PlaceOK, OwnStamp
<1>3. /\ IsEntity(heap'[req.id]) /\ heap'[req.id].type = req.type
      /\ "_created_at" \in DOMAIN heap'[req.id].fields
      /\ Created(req.id)' = stamps[req.id]
  <2>1. IsEntity(new) /\ new.type = req.type
    BY DEF IsEntity
  <2>2. heap'[req.id] = Stamped(new, stamps[req.id])
    BY <1>1 DEF Put, Overlay
  <2> HIDE DEF new
  <2> QED BY <1>1, <2>1, <2>2, StampedEntity DEF Created
<1> HIDE DEF new
<1>4. /\ DOMAIN heap' = DOMAIN heap \cup {req.id}
      /\ \A j \in DOMAIN heap : heap'[j] = heap[j] /\ Created(j)' = Created(j)
  BY <1>1, <1>2 DEF Put, Overlay, Created
<1>5. /\ DOMAIN stamps' = DOMAIN stamps \ {req.id}
      /\ \A j \in DOMAIN stamps' : stamps'[j] = stamps[j]
  BY <1>1 DEF Restrict
<1>6. Work' = Work
  BY <1>1 DEF Work
<1>7. StoreOK'
  <2>1. ASSUME NEW j \in DOMAIN heap'
        PROVE  /\ IsEntity(heap'[j]) /\ "_created_at" \in DOMAIN heap'[j].fields
               /\ Created(j)' \in 0..(clock - 1)
    <3>1. CASE j = req.id
      <4>1. stamps[req.id] \in 0..(clock - 1)
        BY <1>2 DEF StoreOK
      <4> QED BY <1>1, <1>3, <3>1, <4>1 DEF Created
    <3>2. CASE j \in DOMAIN heap
      BY <1>4, <3>2 DEF StoreOK
    <3> QED BY <1>4, <3>1, <3>2
  <2>2. \A j \in DOMAIN stamps' :
          /\ stamps'[j] \in 0..(clock - 1)
          /\ j \in DOMAIN Work.inserts => j \notin DOMAIN heap'
    BY <1>2, <1>4, <1>5 DEF StoreOK
  <2>3. live' \subseteq DOMAIN heap' /\ DOMAIN heap' \subseteq IDs
    BY <1>1, <1>2, <1>4 DEF StoreOK
  <2> QED BY <1>1, <1>6, <2>1, <2>2, <2>3 DEF StoreOK
<1>8. PlaceOK'
  BY <1>1, <1>2, <1>6 DEF PlaceOK, DataRequests
<1>9. OwnStamp'
  <2>1. \A j \in DOMAIN heap' \ {req.id} : Created(j)' # stamps[req.id]
    BY <1>2, <1>4 DEF OnlyStamp
  <2>2. \A j \in DOMAIN stamps' \ {req.id} : stamps'[j] # stamps[req.id]
    BY <1>2, <1>5 DEF OnlyStamp
  <2>3. OnlyStamp(req.id, Created(req.id))'
    BY <1>1, <1>3, <2>1, <2>2 DEF OnlyStamp
  <2> QED BY <1>1, <1>2, <1>3, <1>4, <2>3 DEF OwnStamp
<1>10. Tried'
  BY <1>1, Remembered DEF StableKept, Tried
<1>11. CreateAnswersOwn' /\ ReachesTheNamed'
  BY <1>1 DEF CreateAnswersOwn, ReachesTheNamed
<1> QED BY <1>7, <1>8, <1>9, <1>10, <1>11

(* What an answer leaves as it is. *)
LEMMA AnswersFacts ==
  ASSUME NEW touched, NEW answer, Answers(touched, answer)
  PROVE  /\ page' = touched /\ targets' = answer /\ pc' = "answer"
         /\ UNCHANGED <<workload, clock, stamps, req, total, hasMore>>
BY DEF Answers

LEMMA AnswerNewestKeeps ==
  ASSUME DataInv, AnswerNewest
  PROVE  DataInv'
<1> USE DEF DataInv
<1>1. PICK answer :
        /\ pc = "newest"
        /\ \/ Newest(req.type) = {} /\ answer = <<>>
           \/ \E i \in Newest(req.type) : answer = <<i>>
        /\ Answers(page, answer)
        /\ UNCHANGED <<live, heap, stable>>
  BY DEF AnswerNewest, walkVars
<1>2. /\ page' = page /\ targets' = answer /\ pc' = "answer"
      /\ UNCHANGED <<workload, clock, stamps, req, total, hasMore>>
  BY <1>1, AnswersFacts
<1>3. Work' = Work
  BY <1>2 DEF Work
<1>4. /\ req.handler = "create" /\ page = <<req.id>> /\ req.id \in DOMAIN heap
      /\ heap[req.id].type = req.type /\ OnlyStamp(req.id, Created(req.id))
  BY <1>1 DEF PlaceOK, OwnStamp
<1>5. StoreOK'
  BY <1>1, <1>2, <1>3 DEF StoreOK, Created
<1>6. PlaceOK'
  BY <1>1, <1>2, <1>3, <1>4 DEF PlaceOK, DataRequests
<1>7. OwnStamp'
  BY <1>1, <1>2, <1>4 DEF OwnStamp, OnlyStamp, Created
<1>8. Tried'
  BY <1>1, <1>2, <1>4 DEF Tried
<1>9. CreateAnswersOwn'
  <2>1. SUFFICES ASSUME req.id \in live, clock = Created(req.id) + 1
                 PROVE  answer = page
    BY <1>1, <1>2, <1>4 DEF CreateAnswersOwn, Created
  <2>2. \A j \in live : Created(j) \in 0..(clock - 1) /\ clock \in Nat
    BY DEF StoreOK
  <2>3. \A j \in live : Created(j) <= Created(req.id)
    BY <2>1, <2>2
  <2>4. req.id \in Newest(req.type)
    BY <1>4, <2>1, <2>3 DEF Newest, OfType
  <2>5. ASSUME NEW i \in Newest(req.type)
        PROVE  i = req.id
    <3>1. i \in live /\ Created(req.id) <= Created(i)
      BY <1>4, <2>1, <2>5 DEF Newest, OfType
    <3>2. Created(i) = Created(req.id)
      BY <2>1, <2>2, <2>3, <3>1
    <3> QED BY <1>4, <3>1, <3>2 DEF OnlyStamp, StoreOK
  <2> QED BY <1>1, <1>4, <2>4, <2>5
<1>10. ReachesTheNamed'
  BY <1>2, <1>4 DEF ReachesTheNamed
<1> QED BY <1>5, <1>6, <1>7, <1>8, <1>9, <1>10

-----------------------------------------------------------------------------
(* The handlers that name an entity. *)

LEMMA FoundFacts ==
  ASSUME NEW t, NEW i
  PROVE  \/ i \in OfType(t, live, heap) /\ Found(t, i) = <<i>>
         \/ i \notin OfType(t, live, heap) /\ Found(t, i) = <<>>
BY DEF Found, Stored

(* The step in which a request that names an entity is answered. *)
Answering ==
  /\ pc # "idle" /\ pc' = "answer" /\ req.handler \in {"get", "update", "delete"}
  /\ UNCHANGED <<workload, req, hasMore>>
  /\ StoreOK' /\ stable' \subseteq OfType(req.type, live', heap')

Judged == Normalizable(req.raw) \/ 0 \notin DOMAIN heap'

(* What is left to show of the answer. *)
LEMMA NamedAnswer ==
  ASSUME DataInv, Answering, page' = <<>> \/ page'[1] \in DOMAIN heap',
         ReachesTheNamed'
  PROVE  DataInv'
<1> USE DEF DataInv, Answering
<1>1. Work' = Work
  BY DEF Work
<1>2. PlaceOK'
  BY <1>1 DEF PlaceOK, DataRequests
<1>3. OwnStamp' /\ CreateAnswersOwn'
  BY DEF OwnStamp, CreateAnswersOwn
<1>4. Tried'
  BY DEF Tried
<1> QED BY <1>2, <1>3, <1>4

LEMMA OneAnswered ==
  ASSUME DataInv, Answering, NEW i, page' = <<i>>, i \in DOMAIN heap',
         heap'[i].type = req.type,
         Judged => i = req.raw.num /\ req.raw.sign \in {"", "+"}
  PROVE  DataInv'
<1>1. page' # <<>> /\ page'[1] = i
  OBVIOUS
<1>2. ReachesTheNamed'
  BY <1>1 DEF ReachesTheNamed, Judged, Normalizable, Answering
<1> QED BY <1>1, <1>2, NamedAnswer

LEMMA NoneAnswered ==
  ASSUME DataInv, Answering, page' = <<>>, req.raw.sign \in {"", "+", "-", "x"},
         Judged /\ req.raw.num \in stable' =>
           req.raw.sign # "" /\ (req.handler = "delete" => req.raw.sign # "+")
  PROVE  DataInv'
<1>1. ReachesTheNamed'
  BY DEF ReachesTheNamed, Judged, Normalizable, Answering
<1> QED BY <1>1, NamedAnswer

(* Reading and changing take a number without a sign. *)
NumberFound ==
  IF Normalizable(req.raw) THEN Found(req.type, req.raw.num) ELSE <<>>

LEMMA GetByTypeKeeps ==
  ASSUME DataInv, GetByType
  PROVE  DataInv'
<1>1. /\ pc = "get" /\ Answers(NumberFound, NumberFound)
      /\ UNCHANGED <<live, heap, stable>>
  BY DEF GetByType, NumberFound, walkVars
<1>2. /\ page' = NumberFound /\ pc' = "answer"
      /\ UNCHANGED <<workload, clock, stamps, req, total, hasMore>>
  BY <1>1, AnswersFacts
<1>3. /\ req.handler = "get" /\ req \in Work.queries /\ req.raw \in RawID
      /\ stable \subseteq OfType(req.type, live, heap)
  BY <1>1, WorkloadFacts DEF DataInv, PlaceOK, Tried
<1>4. StoreOK'
  BY <1>1, <1>2 DEF DataInv, StoreOK, Created, Work
<1>5. \/ /\ Normalizable(req.raw) /\ req.raw.num \in OfType(req.type, live, heap)
         /\ NumberFound = <<req.raw.num>>
      \/ /\ Normalizable(req.raw) => req.raw.num \notin OfType(req.type, live, heap)
         /\ NumberFound = <<>>
  BY FoundFacts DEF NumberFound
<1>6. \A i \in OfType(req.type, live, heap) :
        i \in DOMAIN heap /\ heap[i].type = req.type
  BY DEF OfType, DataInv, StoreOK
<1>7. req.raw.sign \in {"", "+", "-", "x"}
  BY <1>3 DEF RawID
<1>8. Answering
  BY <1>1, <1>2, <1>3, <1>4 DEF Answering
<1>9. CASE /\ Normalizable(req.raw) /\ req.raw.num \in OfType(req.type, live, heap)
           /\ NumberFound = <<req.raw.num>>
  <2>1. page' = <<req.raw.num>>
    BY <1>2, <1>9
  <2>2. req.raw.num \in DOMAIN heap' /\ heap'[req.raw.num].type = req.type
    BY <1>1, <1>6, <1>9
  <2>3. req.raw.sign = ""
    BY <1>9 DEF Normalizable
  <2> QED BY <1>8, <2>1, <2>2, <2>3, OneAnswered
<1>10. CASE /\ Normalizable(req.raw) => req.raw.num \notin OfType(req.type, live, heap)
           /\ NumberFound = <<>>
  BY <1>1, <1>2, <1>3, <1>7, <1>10, <1>8, NoneAnswered DEF Normalizable
<1> QED BY <1>5, <1>9, <1>10

LEMMA UpdateNamedKeeps ==
  ASSUME DataInv, UpdateNamed
  PROVE  DataInv'
<1>1. /\ pc = "update" /\ Answers(NumberFound, NumberFound)
      /\ heap' = [i \in DOMAIN heap |->
                    IF i \in ToSet(NumberFound)
                      THEN [heap[i] EXCEPT !.fields = Overlay(req.fields, @)]
                      ELSE heap[i]]
      /\ live' = live /\ Remember
  BY DEF UpdateNamed, NumberFound
<1>2. /\ page' = NumberFound /\ pc' = "answer"
      /\ UNCHANGED <<workload, clock, stamps, req, total, hasMore>>
  BY <1>1, AnswersFacts
<1>3. /\ req.handler = "update" /\ req \in Work.queries /\ req.raw \in RawID
      /\ "_created_at" \notin DOMAIN req.fields
      /\ stable \subseteq OfType(req.type, live, heap)
  BY <1>1, WorkloadFacts DEF DataInv, PlaceOK, Tried
<1>4. OthersChange /\ StoreOK'
  <2>1. ASSUME NEW i \in DOMAIN heap
        PROVE  \/ heap'[i] = heap[i]
               \/ \E g : /\ heap'[i] = [heap[i] EXCEPT !.fields = g]
                         /\ "_created_at" \in DOMAIN g
                         /\ g["_created_at"] = heap[i].fields["_created_at"]
    <3>1. LET g == Overlay(req.fields, heap[i].fields)
          IN "_created_at" \in DOMAIN g
               /\ g["_created_at"] = heap[i].fields["_created_at"]
      BY <1>3, OverlayFacts DEF DataInv, StoreOK
    <3>2. \/ heap'[i] = heap[i]
          \/ heap'[i] = [heap[i] EXCEPT !.fields =
                           Overlay(req.fields, heap[i].fields)]
      BY <1>1
    <3> QED BY <3>1, <3>2
  <2>2. DOMAIN heap' = DOMAIN heap /\ live' \subseteq live
    BY <1>1
  <2> QED BY <1>2, <2>1, <2>2, FieldsSet DEF DataInv
<1>5. stable' \subseteq stable /\ stable' \subseteq OfType(req.type, live', heap')
  BY <1>1, Remembered DEF StableKept
<1>6. \/ /\ Normalizable(req.raw) /\ req.raw.num \in OfType(req.type, live, heap)
         /\ NumberFound = <<req.raw.num>>
      \/ /\ Normalizable(req.raw) => req.raw.num \notin OfType(req.type, live, heap)
         /\ NumberFound = <<>>
  BY FoundFacts DEF NumberFound
<1>7. \A i \in OfType(req.type, live, heap) :
        i \in DOMAIN heap' /\ heap'[i].type = req.type
  BY <1>4 DEF OfType, DataInv, StoreOK, OthersChange
<1>8. req.raw.sign \in {"", "+", "-", "x"}
  BY <1>3 DEF RawID
<1>9. Answering
  BY <1>1, <1>2, <1>3, <1>4, <1>5 DEF Answering
<1>10. CASE /\ Normalizable(req.raw) /\ req.raw.num \in OfType(req.type, live, heap)
           /\ NumberFound = <<req.raw.num>>
  <2>1. page' = <<req.raw.num>>
    BY <1>2, <1>10
  <2>2. req.raw.num \in DOMAIN heap' /\ heap'[req.raw.num].type = req.type
    BY <1>7, <1>10
  <2>3. req.raw.sign = ""
    BY <1>10 DEF Normalizable
  <2> QED BY <1>9, <2>1, <2>2, <2>3, OneAnswered
<1>11. CASE /\ Normalizable(req.raw) => req.raw.num \notin OfType(req.type, live, heap)
            /\ NumberFound = <<>>
  BY <1>2, <1>3, <1>5, <1>8, <1>11, <1>9, NoneAnswered DEF Normalizable
<1> QED BY <1>6, <1>10, <1>11

(* The delete handler, up to its Delete. *)
LEMMA FindKeeps ==
  ASSUME DataInv, pc = "find", UNCHANGED <<workload, storeVars, req, hasMore, stable>>,
         \/ /\ pc' = "delete"
            /\ \E f \in Readings \cap DOMAIN heap : page' = <<f>>
         \/ /\ pc' = "find" /\ total' \in 0..Len(Formats(req.raw))
            /\ \A k \in 1..total' : Formats(req.raw)[k] \notin stable
  PROVE  DataInv'
<1> USE DEF DataInv, storeVars
<1>1. Work' = Work
  BY DEF Work
<1>2. StoreOK'
  BY <1>1 DEF StoreOK, Created
<1>3. PlaceOK'
  BY <1>1 DEF PlaceOK, DataRequests
<1>4. OwnStamp' /\ CreateAnswersOwn' /\ ReachesTheNamed'
  BY DEF PlaceOK, OwnStamp, CreateAnswersOwn, ReachesTheNamed
<1>5. Tried'
  BY DEF Tried, Readings
<1> QED BY <1>2, <1>3, <1>4, <1>5

LEMMA TryFormatKeeps ==
  ASSUME DataInv, TryFormat
  PROVE  DataInv'
<1>1. /\ pc = "find" /\ total < Len(Formats(req.raw))
      /\ UNCHANGED <<workload, storeVars, req, hasMore, stable>>
      /\ \/ /\ Formats(req.raw)[total + 1] \in live
            /\ pc' = "delete" /\ page' = <<Formats(req.raw)[total + 1]>>
         \/ /\ Formats(req.raw)[total + 1] \notin live
            /\ total' = total + 1 /\ pc' = pc
  BY DEF TryFormat, walkVars
<1>2. /\ total \in 0..Len(Formats(req.raw)) /\ req.raw \in RawID
      /\ \A k \in 1..total : Formats(req.raw)[k] \notin stable
      /\ stable \subseteq OfType(req.type, live, heap)
      /\ live \subseteq DOMAIN heap
  BY <1>1, WorkloadFacts DEF DataInv, PlaceOK, Tried, StoreOK
<1>3. Len(Formats(req.raw)) \in Nat
  BY DEF Formats
<1>4. total + 1 \in 1..Len(Formats(req.raw))
  BY <1>1, <1>2, <1>3
<1>5. CASE /\ Formats(req.raw)[total + 1] \in live
           /\ pc' = "delete" /\ page' = <<Formats(req.raw)[total + 1]>>
  <2>1. Formats(req.raw)[total + 1] \in Readings \cap DOMAIN heap
    BY <1>2, <1>4, <1>5 DEF Readings
  <2> QED BY <1>1, <1>5, <2>1, FindKeeps
<1>6. CASE /\ Formats(req.raw)[total + 1] \notin live
           /\ total' = total + 1 /\ pc' = pc
  <2>1. Formats(req.raw)[total + 1] \notin stable
    BY <1>2, <1>6 DEF OfType
  <2>2. \A k \in 1..total' : Formats(req.raw)[k] \notin stable
    BY <1>2, <1>6, <2>1
  <2>3. total' \in 0..Len(Formats(req.raw))
    BY <1>4, <1>6, <1>3
  <2> QED BY <1>1, <1>6, <2>2, <2>3, FindKeeps
<1> QED BY <1>1, <1>5, <1>6

LEMMA InspectEntitiesKeeps ==
  ASSUME DataInv, InspectEntities
  PROVE  DataInv'
<1>1. /\ pc = "find" /\ total = Len(Formats(req.raw))
      /\ req.handler = "delete" /\ req \in Work.queries /\ req.raw \in RawID
      /\ \A k \in 1..total : Formats(req.raw)[k] \notin stable
      /\ stable \subseteq OfType(req.type, live, heap)
  BY WorkloadFacts DEF InspectEntities, DataInv, PlaceOK, Tried
<1>2. Len(Formats(req.raw)) \in {1, 4}
  BY DEF Formats
<1>3. CASE Stored(req.type, Exact(req.raw))
  <2>1. /\ pc' = "delete" /\ page' = <<Exact(req.raw)>>
        /\ UNCHANGED <<workload, storeVars, req, hasMore, stable>>
    BY <1>3 DEF InspectEntities, walkVars, storeVars
  <2>2. 1 \in 1..Len(Formats(req.raw))
    BY <1>2
  <2>3. Exact(req.raw) \in Readings
    BY <1>1, <2>2, ReadingsOfID DEF Readings
  <2>4. Exact(req.raw) \in DOMAIN heap
    BY <1>3 DEF Stored, OfType, DataInv, StoreOK
  <2> QED BY <1>1, <2>1, <2>3, <2>4, FindKeeps
<1>4. CASE ~Stored(req.type, Exact(req.raw))
  <2>1. /\ Answers(<<>>, <<>>) /\ UNCHANGED <<live, heap, stable>>
    BY <1>4 DEF InspectEntities, walkVars
  <2>2. /\ page' = <<>> /\ pc' = "answer"
        /\ UNCHANGED <<workload, clock, stamps, req, total, hasMore>>
    BY <2>1, AnswersFacts
  <2>3. StoreOK'
    BY <2>1, <2>2 DEF DataInv, StoreOK, Created, Work
  <2>4. req.raw.sign \in {"", "+"} => req.raw.num \notin stable
    <3>1. 3 \in 1..4 /\ 1 \in 1..Len(Formats(req.raw))
      BY <1>2
    <3>2. req.raw.sign \in {"", "+"} =>
            Len(Formats(req.raw)) = 4 /\ Formats(req.raw)[3] = req.raw.num
      BY <1>1, <3>1, ReadingsOfID
    <3> QED BY <1>1, <3>1, <3>2
  <2>5. req.raw.sign \in {"", "+", "-", "x"}
    BY <1>1 DEF RawID
  <2>6. Answering
    BY <1>1, <2>1, <2>2, <2>3 DEF Answering
  <2> QED BY <2>1, <2>2, <2>4, <2>5, <2>6, NoneAnswered
<1> QED BY <1>3, <1>4

LEMMA DeleteFoundKeeps ==
  ASSUME DataInv, DeleteFound
  PROVE  DataInv'
<1> DEFINE found == Found(req.type, page[1])
<1>1. /\ pc = "delete" /\ live' = live \ ToSet(found) /\ Answers(found, found)
      /\ heap' = heap /\ Remember
  BY DEF DeleteFound
<1>2. /\ page' = found /\ pc' = "answer"
      /\ UNCHANGED <<workload, clock, stamps, req, total, hasMore>>
  BY <1>1, AnswersFacts
<1>3. /\ req.handler = "delete" /\ req \in Work.queries /\ req.raw \in RawID
      /\ page[1] \in Readings /\ page[1] \in DOMAIN heap /\ page[1] \in IDs
      /\ stable \subseteq OfType(req.type, live, heap)
  BY <1>1, WorkloadFacts DEF DataInv, PlaceOK, Tried, StoreOK
<1>4. StoreOK'
  BY <1>1, <1>2 DEF DataInv, StoreOK, Created, Work
<1>5. stable' \subseteq stable /\ stable' \subseteq OfType(req.type, live', heap')
  BY <1>1, Remembered DEF StableKept
<1>6. Judged => page[1] = req.raw.num /\ req.raw.sign \in {"", "+"}
  <2>1. PICK k \in 1..Len(Formats(req.raw)) : page[1] = Formats(req.raw)[k]
    BY <1>3 DEF Readings
  <2> QED BY <1>1, <1>3, <2>1, ReadingsOfID DEF Judged, Normalizable
<1>7. \/ page[1] \in OfType(req.type, live, heap) /\ found = <<page[1]>>
      \/ page[1] \notin OfType(req.type, live, heap) /\ found = <<>>
  BY FoundFacts
<1> HIDE DEF found
<1>8. Answering
  BY <1>1, <1>2, <1>3, <1>4, <1>5 DEF Answering
<1>9. CASE page[1] \in OfType(req.type, live, heap) /\ found = <<page[1]>>
  <2>1. page[1] \in DOMAIN heap' /\ heap'[page[1]].type = req.type
    BY <1>1, <1>3, <1>9 DEF OfType
  <2> QED BY <1>2, <1>6, <1>8, <1>9, <2>1, OneAnswered
<1>10. CASE page[1] \notin OfType(req.type, live, heap) /\ found = <<>>
  <2>1. Judged => req.raw.num \notin stable'
    BY <1>3, <1>5, <1>6, <1>10
  <2>2. req.raw.sign \in {"", "+", "-", "x"}
    BY <1>3 DEF RawID
  <2> QED BY <1>2, <1>8, <1>10, <2>1, <2>2, NoneAnswered
<1> QED BY <1>7, <1>9, <1>10

-----------------------------------------------------------------------------
(* The invariant. *)

LEMMA DataInit ==
  ASSUME Init
  PROVE  DataInv
<1> USE DEF Init
<1>1. workload \in DOMAIN Workloads
  OBVIOUS
<1>2. Cardinality(DOMAIN Work.start) \in Nat
  <2>1. IsFiniteSet(IDs)
    <3>1. IsFiniteSet(0..9)
      <4>1. 0 \in Int /\ 9 \in Int
        OBVIOUS
      <4> QED BY <4>1, FS_Interval
    <3> QED BY <3>1, IDsAssumption, FS_Subset
  <2> QED BY <1>1, <2>1, WorkloadFacts, FS_Subset, FS_CardinalityType
<1>3. StoreOK
  <2>1. DOMAIN stamps = {}
    OBVIOUS
  <2>2. ASSUME NEW i \in DOMAIN heap
        PROVE  /\ IsEntity(heap[i]) /\ "_created_at" \in DOMAIN heap[i].fields
               /\ Created(i) \in 0..(clock - 1)
    BY <1>1, <1>2, <2>2, WorkloadFacts DEF Created
  <2>3. clock \in Nat /\ live \subseteq DOMAIN heap /\ DOMAIN heap \subseteq IDs
    BY <1>1, <1>2, WorkloadFacts
  <2> QED BY <2>1, <2>2, <2>3 DEF StoreOK
<1>4. PlaceOK
  BY DEF PlaceOK
<1>5. OwnStamp /\ Tried /\ CreateAnswersOwn /\ ReachesTheNamed
  BY DEF OwnStamp, Tried, CreateAnswersOwn, ReachesTheNamed
<1> QED BY <1>3, <1>4, <1>5 DEF DataInv

LEMMA DataStep ==
  ASSUME DataInv, DataNext
  PROVE  DataInv'
<1> USE DEF DataInv
<1>1. ASSUME NEW i \in IDs, StampInsert(i)
      PROVE  DataInv'
  <2>1. UNCHANGED <<workload, requestVars>>
    BY <1>1 DEF StampInsert
  <2> QED BY <1>1, <2>1, StampInsertChange, OthersKeep
<1>2. ASSUME NEW i \in IDs, CommitInsert(i)
      PROVE  DataInv'
  <2>1. UNCHANGED <<workload, requestVars>>
    BY <1>2 DEF CommitInsert
  <2> QED BY <1>2, <2>1, CommitInsertChange, OthersKeep
<1>3. ASSUME NEW i \in IDs, Delete(i)
      PROVE  DataInv'
  <2>1. UNCHANGED <<workload, requestVars>>
    BY <1>3 DEF Delete
  <2> QED BY <1>3, <2>1, DeleteChange, OthersKeep
<1>4. ASSUME NEW u \in Work.updates, Update(u)
      PROVE  DataInv'
  <2>1. UNCHANGED <<workload, requestVars>>
    BY <1>4 DEF Update
  <2> QED BY <1>4, <2>1, UpdateChange, OthersKeep
<1>5. ASSUME NEW q \in Work.queries,
             \/ HandleListEntities(q) \/ HandleQuery(q)
             \/ HandleNestedQuery(q) \/ HandleCountQuery(q)
      PROVE  DataInv'
  <2>1. Begin(q, "read") /\ q.handler \notin DataRequests
    BY <1>5 DEF HandleListEntities, HandleQuery, HandleNestedQuery,
                HandleCountQuery, DataRequests
  <2> QED BY <2>1, Arrival
<1>6. ASSUME NEW q \in Work.queries,
             \/ HandleCreateEntity(q) \/ HandleGetEntity(q)
             \/ HandleUpdateEntity(q) \/ HandleDeleteEntity(q)
      PROVE  DataInv'
  BY <1>6, Arrival DEF HandleCreateEntity, HandleGetEntity, HandleUpdateEntity,
                       HandleDeleteEntity, Arrives
<1>7. CASE \/ ReadPage \/ CopyRows \/ ReadTargets \/ ApplyJoin \/ Fail
           \/ ExecuteCountQuery \/ Answer \/ NextPage
  BY <1>7, QueryStepKeeps
<1>8. CASE StampCreate \/ CommitCreate \/ AnswerNewest
  BY <1>8, StampCreateKeeps, CommitCreateKeeps, AnswerNewestKeeps
<1>9. CASE GetByType \/ UpdateNamed
  BY <1>9, GetByTypeKeeps, UpdateNamedKeeps
<1>10. CASE TryFormat \/ InspectEntities \/ DeleteFound
  BY <1>10, TryFormatKeeps, InspectEntitiesKeeps, DeleteFoundKeeps
<1> QED BY <1>1, <1>2, <1>3, <1>4, <1>5, <1>6, <1>7, <1>8, <1>9, <1>10
        DEF DataNext, Next

LEMMA DataStutter ==
  ASSUME DataInv, UNCHANGED vars
  PROVE  DataInv'
<1>1. /\ UNCHANGED <<workload, live, heap, clock, stamps, pc, req, page, targets>>
      /\ UNCHANGED <<total, hasMore, stable>>
  BY DEF vars, storeVars, requestVars, walkVars
<1>2. StoreOK' /\ PlaceOK'
  BY <1>1 DEF DataInv, StoreOK, PlaceOK, Created, Work
<1>3. OwnStamp' /\ CreateAnswersOwn'
  BY <1>1 DEF DataInv, OwnStamp, OnlyStamp, CreateAnswersOwn, Created
<1>4. Tried' /\ ReachesTheNamed'
  BY <1>1 DEF DataInv, Tried, Readings, ReachesTheNamed, Normalizable
<1> QED BY <1>2, <1>3, <1>4 DEF DataInv

LEMMA DataInvariant == DataSpec => []DataInv
<1>1. Init => DataInv
  BY DataInit
<1>2. DataInv /\ [DataNext]_vars => DataInv'
  BY DataStep, DataStutter
<1> QED BY <1>1, <1>2, PTL DEF DataSpec

(* The create handler, which looks for the newest entity because Insert does
   not tell the generated ID, answers with the entity it created, whatever
   others insert, change and delete between its calls on the engine; excepted
   are an Insert stamped after it and the deletion of the entity. *)
THEOREM OwnAnswered == DataSpec => []CreateAnswersOwn
<1>1. DataInv => CreateAnswersOwn
  BY DEF DataInv
<1> QED BY <1>1, DataInvariant, PTL

(* The get, update and delete handlers reach the entity that the ID in the URL
   names and no other one, whatever way it is written in, and do not miss one
   that is there all the time; excepted is the deletion by an ID with a sign
   while there is an entity 0. *)
THEOREM NamedReached == DataSpec => []ReachesTheNamed
<1>1. DataInv => ReachesTheNamed
  BY DEF DataInv
<1> QED BY <1>1, DataInvariant, PTL

-----------------------------------------------------------------------------
(* The entities that the order puts up to the last one of R. *)
Down(q, S, R, H) ==
  {k \in S : \E j \in R \cap S : k = j \/ Before(q, k, j, H)}

-----------------------------------------------------------------------------
(* Sequences of all elements of a set. *)

LEMMA Permutation ==
  ASSUME NEW S, IsFiniteSet(S), NEW s \in SetToSeqs(S)
  PROVE  /\ s \in Seq(S) /\ Len(s) = Cardinality(S) /\ Len(s) \in Nat
         /\ \A m, n \in 1..Len(s) : s[m] = s[n] => m = n
         /\ ToSet(s) = S
         /\ \A i \in S : \E m \in 1..Len(s) : s[m] = i
<1> DEFINE D == 1..Cardinality(S)
<1>1. s \in [D -> S] /\ \A m, n \in D : m # n => s[m] # s[n]
  BY DEF SetToSeqs
<1>2. Cardinality(S) \in Nat
  BY FS_CardinalityType
<1>3. s \in Seq(S) /\ Len(s) = Cardinality(S) /\ DOMAIN s = D
  BY <1>1, <1>2
<1>4. s \in Injection(D, S)
  BY <1>1 DEF Injection, IsInjective
<1>5. Cardinality(D) = Cardinality(S)
  <2>1. 1 \in Int /\ Cardinality(S) \in Int
    BY <1>2
  <2>2. Cardinality(D) = IF 1 > Cardinality(S) THEN 0 ELSE Cardinality(S) - 1 + 1
    BY <2>1, FS_Interval
  <2> HIDE DEF D
  <2> QED BY <1>2, <2>2
<1>6. s \in Surjection(D, S)
  BY <1>4, <1>5, FS_Injection
<1>7. \A i \in S : \E m \in D : s[m] = i
  BY <1>6 DEF Surjection
<1>8. ToSet(s) = S
  BY <1>1, <1>3, <1>7 DEF ToSet
<1> QED BY <1>1, <1>2, <1>3, <1>7, <1>8

(* The part of a sequence without repetitions up to one place. *)
Places(s, p) == {s[m] : m \in 1..p}

LEMMA FirstPlaces ==
  ASSUME NEW S, NEW s \in Seq(S), NEW p \in 0..Len(s),
         \A m, n \in 1..Len(s) : s[m] = s[n] => m = n
  PROVE  IsFiniteSet(Places(s, p)) /\ Cardinality(Places(s, p)) = p
<1> DEFINE T == Places(s, p)
           f == [m \in 1..p |-> s[m]]
<1>1. p \in Nat /\ p <= Len(s) /\ Len(s) \in Nat
  OBVIOUS
<1>2. \A m \in 1..p : m \in 1..Len(s)
  BY <1>1
<1>3. f \in [1..p -> T] /\ \A m, n \in 1..p : f[m] = f[n] => m = n
  BY <1>2 DEF Places
<1>4. f \in Surjection(1..p, T)
  BY <1>3 DEF Surjection, Places
<1>5. f \in Injection(1..p, T)
  BY <1>3 DEF Injection, IsInjective
<1>6. IsFiniteSet(1..p) /\ Cardinality(1..p) = p
  <2>1. 1 \in Int /\ p \in Int
    BY <1>1
  <2>2. IsFiniteSet(1..p) /\ Cardinality(1..p) = IF 1 > p THEN 0 ELSE p - 1 + 1
    BY <2>1, FS_Interval
  <2> QED BY <1>1, <2>2
<1>7. IsFiniteSet(T) /\ Cardinality(T) = Cardinality(1..p)
  BY <1>4, <1>5, <1>6, FS_Surjection
<1> QED BY <1>6, <1>7

LEMMA AtMostPlaces ==
  ASSUME NEW S, NEW s \in Seq(S), NEW p \in 0..Len(s),
         \A m, n \in 1..Len(s) : s[m] = s[n] => m = n,
         NEW T, \A i \in T : \E m \in 1..p : i = s[m]
  PROVE  IsFiniteSet(T) /\ Cardinality(T) <= p /\ Cardinality(T) \in Nat
<1>1. T \in SUBSET Places(s, p)
  BY DEF Places
<1>2. IsFiniteSet(Places(s, p)) /\ Cardinality(Places(s, p)) = p
  BY FirstPlaces
<1>3. IsFiniteSet(T) /\ Cardinality(T) <= Cardinality(Places(s, p))
  BY <1>1, <1>2, FS_Subset
<1> QED BY <1>2, <1>3, FS_CardinalityType

LEMMA AtLeastPlaces ==
  ASSUME NEW S, NEW s \in Seq(S), NEW p \in 0..Len(s),
         \A m, n \in 1..Len(s) : s[m] = s[n] => m = n,
         NEW T, IsFiniteSet(T), \A m \in 1..p : s[m] \in T
  PROVE  p <= Cardinality(T) /\ Cardinality(T) \in Nat
<1>1. Places(s, p) \in SUBSET T
  BY DEF Places
<1>2. Cardinality(Places(s, p)) = p
  BY FirstPlaces
<1>3. Cardinality(Places(s, p)) <= Cardinality(T)
  BY <1>1, FS_Subset
<1> QED BY <1>2, <1>3, FS_CardinalityType

(* What a page holds of a sequence. *)
IsPage(p, s, from, limit) ==
  /\ Len(p) \in Nat
  /\ limit > 0 => Len(p) <= limit
  /\ Len(p) > 0 => from + Len(p) <= Len(s)
  /\ \A k \in 1..Len(p) : from + k \in 1..Len(s) /\ p[k] = s[from + k]
  /\ limit = 0 \/ Len(p) # limit => Len(s) <= from + Len(p)

LEMMA SliceFacts ==
  ASSUME NEW S, NEW s \in Seq(S), NEW from \in Nat, NEW limit \in Nat,
         NEW p, p = Slice(s, from, limit)
  PROVE  p \in Seq(S) /\ IsPage(p, s, from, limit)
<1> DEFINE e == IF limit > 0 /\ from + limit < Len(s) THEN from + limit ELSE Len(s)
<1>1. Len(s) \in Nat
  OBVIOUS
<1>2. e \in Nat /\ e <= Len(s)
  BY <1>1
<1>3. p = SubSeq(s, from + 1, e)
  BY DEF Slice
<1>4. CASE from + 1 <= e
  <2>1. p \in Seq(S) /\ Len(p) = e - from /\ \A k \in 1..(e - from) : p[k] = s[from + k]
    <3>1. from + 1 \in 1..Len(s) /\ e \in 1..Len(s)
      BY <1>1, <1>2, <1>4
    <3> HIDE DEF e
    <3>2. p \in Seq(S) /\ Len(p) = e - (from + 1) + 1
      BY <1>1, <1>2, <1>3, <1>4, <3>1
    <3>3. \A k \in 1..(e - from) : p[k] = s[(from + 1) + k - 1]
      BY <1>1, <1>2, <1>3, <1>4, <3>1
    <3> QED BY <1>1, <1>2, <3>2, <3>3
  <2>2. \A k \in 1..(e - from) : from + k \in 1..Len(s)
    BY <1>1, <1>2, <1>4
  <2>3. limit = 0 \/ e - from # limit => Len(s) <= from + (e - from)
    BY <1>1, <1>2, <1>4
  <2>4. limit > 0 => e - from <= limit
    BY <1>1, <1>2, <1>4
  <2>5. e - from \in Nat /\ from + (e - from) <= Len(s)
    BY <1>1, <1>2, <1>4
  <2> HIDE DEF e
  <2> QED BY <2>1, <2>2, <2>3, <2>4, <2>5 DEF IsPage
<1>5. CASE ~(from + 1 <= e)
  <2>1. p = <<>>
    <3> HIDE DEF e
    <3> QED BY <1>2, <1>3, <1>5
  <2>2. Len(s) <= from
    BY <1>1, <1>2, <1>5
  <2> HIDE DEF e
  <2>3. Len(p) = 0 /\ p \in Seq(S)
    BY <2>1
  <2>4. \A k \in 1..Len(p) : FALSE
    BY <2>3
  <2> QED BY <1>1, <2>2, <2>3, <2>4 DEF IsPage
<1> QED BY <1>4, <1>5
-----------------------------------------------------------------------------
(* Pages of a result in an order that tells all entities apart. *)

(* All of S, each before the ones after it. *)
Lined(q, s, S, H) ==
  /\ s \in Seq(S) /\ IsFiniteSet(S)
  /\ \A m, n \in 1..Len(s) : s[m] = s[n] => m = n
  /\ \A i \in S : \E m \in 1..Len(s) : s[m] = i
  /\ \A m, n \in 1..Len(s) : m < n =>
       Before(q, s[m], s[n], H) /\ ~Before(q, s[n], s[m], H)

LEMMA SortedLined ==
  ASSUME NEW q, NEW L, NEW H, NEW s \in Sorted(q, L, H), ~Tied(q, L, H),
         IsFiniteSet(Filtered(q, L, H))
  PROVE  Lined(q, s, Filtered(q, L, H), H)
<1> DEFINE S == Filtered(q, L, H)
<1>1. s \in SetToSeqs(S)
  BY DEF Sorted
<1>2. /\ s \in Seq(S) /\ Len(s) \in Nat
      /\ \A m, n \in 1..Len(s) : s[m] = s[n] => m = n
      /\ \A i \in S : \E m \in 1..Len(s) : s[m] = i
  BY <1>1, Permutation
<1>3. \A m, n \in 1..Len(s) : m < n => ~Before(q, s[n], s[m], H)
  BY <1>2 DEF Sorted, Tied
<1>4. ASSUME NEW m \in 1..Len(s), NEW n \in 1..Len(s), m < n
      PROVE  Before(q, s[m], s[n], H)
  <2>1. s[m] \in S /\ s[n] \in S /\ s[m] # s[n]
    BY <1>2, <1>4
  <2>2. ~(Before(q, s[m], s[n], H) = Before(q, s[n], s[m], H))
    BY <2>1 DEF Tied
  <2>3. ~Before(q, s[n], s[m], H)
    BY <1>3, <1>4
  <2>4. Before(q, s[m], s[n], H) \in BOOLEAN /\ Before(q, s[n], s[m], H) \in BOOLEAN
    BY DEF Before, Less, ValueLess, StringLess
  <2> QED BY <2>2, <2>3, <2>4
<1> QED BY <1>2, <1>3, <1>4 DEF Lined

(* The page p at an offset has nothing twice and nothing of R, and with it R
   fits before the next offset. *)
AddsNothing(q, S, H, p, R, from) ==
  /\ \A k \in 1..Len(p) : p[k] \notin R
  /\ \A j, k \in 1..Len(p) : p[j] = p[k] => j = k
  /\ Cardinality(Down(q, S, R \cup ToSet(p), H)) <= from + Len(p)

(* A page that begins where what was read ends repeats nothing. *)
LEMMA NextPageNew ==
  ASSUME NEW q, NEW S, NEW H, NEW s, Lined(q, s, S, H),
         NEW from \in Nat, NEW limit \in Nat, NEW p, p = Slice(s, from, limit),
         NEW R, Cardinality(Down(q, S, R, H)) <= from
  PROVE  AddsNothing(q, S, H, p, R, from)
<1> DEFINE D == Down(q, S, R, H)
<1>1. /\ s \in Seq(S) /\ IsFiniteSet(S) /\ Len(s) \in Nat
      /\ \A m, n \in 1..Len(s) : s[m] = s[n] => m = n
      /\ \A i \in S : \E m \in 1..Len(s) : s[m] = i
      /\ \A m, n \in 1..Len(s) : m < n =>
           Before(q, s[m], s[n], H) /\ ~Before(q, s[n], s[m], H)
  BY DEF Lined
<1>8. \A m, n \in 1..Len(s) : s[m] = s[n] => m = n
  BY <1>1
<1>9. s \in Seq(S)
  BY <1>1
<1>2. /\ p \in Seq(S) /\ Len(p) \in Nat
      /\ Len(p) > 0 => from + Len(p) <= Len(s)
      /\ \A k \in 1..Len(p) : from + k \in 1..Len(s) /\ p[k] = s[from + k]
  <2>1. p = Slice(s, from, limit)
    OBVIOUS
  <2>2. p \in Seq(S) /\ IsPage(p, s, from, limit)
    BY ONLY <1>9, <2>1, SliceFacts, from \in Nat, limit \in Nat
  <2> QED BY <2>2 DEF IsPage
<1>3. IsFiniteSet(D) /\ Cardinality(D) \in Nat
  <2>1. D \in SUBSET S
    BY DEF Down
  <2> HIDE DEF D
  <2> QED BY <1>1, <2>1, FS_Subset, FS_CardinalityType
<1>4. ASSUME NEW m \in 1..Len(s), s[m] \in R
      PROVE  m <= from
  <2>1. \A k \in 1..m : s[k] \in D
    <3>1. ASSUME NEW k \in 1..m
          PROVE  s[k] \in D
      <4>1. k \in 1..Len(s) /\ (k = m \/ k < m)
        BY <1>1
      <4>2. s[k] \in S /\ s[m] \in R \cap S
        BY <1>1, <1>4, <4>1
      <4>3. s[k] = s[m] \/ Before(q, s[k], s[m], H)
        BY <1>1, <4>1
      <4> QED BY <4>2, <4>3 DEF Down
    <3> QED BY <3>1
  <2>2. m \in 0..Len(s)
    BY <1>1
  <2> HIDE DEF D
  <2>3. m <= Cardinality(D)
    BY <1>1, <1>3, <2>1, <2>2, AtLeastPlaces
  <2>4. Cardinality(D) <= from
    BY DEF D
  <2> QED BY <1>3, <2>3, <2>4
<1>5. \A k \in 1..Len(p) : p[k] \notin R
  <2>1. ASSUME NEW k \in 1..Len(p), p[k] \in R
        PROVE  FALSE
    <3>1. from + k \in 1..Len(s) /\ s[from + k] \in R
      BY <1>2, <2>1
    <3>2. from + k <= from
      BY <1>4, <3>1
    <3> QED BY <3>2
  <2> QED BY <2>1
<1>6. \A j, k \in 1..Len(p) : p[j] = p[k] => j = k
  <2>1. ASSUME NEW j \in 1..Len(p), NEW k \in 1..Len(p), p[j] = p[k]
        PROVE  j = k
    <3>1. from + j = from + k
      BY <1>2, <1>8, <2>1
    <3> QED BY <3>1
  <2> QED BY <2>1
<1>7. Cardinality(Down(q, S, R \cup ToSet(p), H)) <= from + Len(p)
  <2> DEFINE E == Down(q, S, R \cup ToSet(p), H)
  <2>1. CASE Len(p) = 0
    <3>1. ToSet(p) = {}
      BY <1>2, <2>1 DEF ToSet
    <3>2. E = D
      BY <3>1
    <3> QED BY <2>1, <3>2
  <2>2. CASE Len(p) > 0
    <3>1. PICK e \in 0..Len(s) : e = from + Len(p)
      BY <1>1, <1>2, <2>2
    <3>2. ASSUME NEW i \in E
          PROVE  \E m \in 1..e : i = s[m]
      <4>1. PICK j \in (R \cup ToSet(p)) \cap S : i = j \/ Before(q, i, j, H)
        BY <3>2 DEF Down
      <4>2. i \in S
        BY <3>2 DEF Down
      <4>3. PICK m \in 1..Len(s) : s[m] = i
        BY <1>1, <4>2
      <4>4. PICK n \in 1..Len(s) : s[n] = j
        BY <1>1, <4>1
      <4>5. n <= e
        <5>1. CASE j \in R
          BY <1>2, <1>4, <3>1, <4>4, <5>1
        <5>2. CASE j \in ToSet(p)
          <6>1. PICK k \in 1..Len(p) : j = p[k]
            BY <1>2, <5>2 DEF ToSet
          <6>2. n = from + k
            BY <1>2, <1>8, <4>4, <6>1
          <6> QED BY <1>2, <3>1, <6>2
        <5> QED BY <4>1, <5>1, <5>2
      <4>6. m <= n
        <5>1. CASE i = j
          BY <1>8, <4>3, <4>4, <5>1
        <5>2. CASE Before(q, i, j, H)
          <6>1. ~(n < m)
            BY <1>1, <4>3, <4>4, <5>2
          <6> QED BY <6>1
        <5> QED BY <4>1, <5>1, <5>2
      <4>7. m \in 1..e
        BY <4>5, <4>6
      <4> QED BY <4>3, <4>7
    <3> HIDE DEF E
    <3>3. \A i \in E : \E m \in 1..e : i = s[m]
      BY <3>2
    <3>4. Cardinality(E) <= e
      BY <1>1, <3>3, AtMostPlaces
    <3> QED BY <3>1, <3>4 DEF E
  <2> QED BY <1>2, <2>1, <2>2
<1> QED BY <1>5, <1>6, <1>7 DEF AddsNothing

(* What of K is not in R comes after all of R. *)
Behind(q, K, R, H) == \A i \in K \ R, j \in R : Before(q, j, i, H)

(* All of K that is not in R comes after it, and R has its places before the
   next page. *)
Apace(q, S, K, R, H, next) ==
  /\ R \subseteq S /\ K \subseteq S /\ Behind(q, K, R, H)
  /\ K \subseteq R \/ next <= Cardinality(Down(q, S, R, H))

AllShown(K, R, p) == K \subseteq R \cup ToSet(p)

(* ... and leaves out nothing of what stays. *)
LEMMA NextPageWhole ==
  ASSUME NEW q, NEW S, NEW H, NEW s, Lined(q, s, S, H),
         NEW from \in Nat, NEW limit \in Nat, NEW p, p = Slice(s, from, limit),
         limit > 0, NEW R, NEW K, Apace(q, S, K, R, H, from)
  PROVE  /\ Apace(q, S, K, R \cup ToSet(p), H, from + Len(p))
         /\ AllShown(K, R, p) \/ Len(p) = limit
         /\ Len(s) <= from + Len(p) => AllShown(K, R, p)
<1> DEFINE D == Down(q, S, R, H)
           T == R \cup ToSet(p)
<1>7. /\ R \subseteq S /\ K \subseteq S /\ Behind(q, K, R, H)
      /\ K \subseteq R \/ from <= Cardinality(D)
  BY DEF Apace
<1>8. K \subseteq S
  BY <1>7
<1>9. s \in Seq(S)
  BY DEF Lined
<1>1. /\ s \in Seq(S) /\ IsFiniteSet(S) /\ Len(s) \in Nat
      /\ \A i \in S : \E m \in 1..Len(s) : s[m] = i
      /\ \A m, n \in 1..Len(s) : m < n =>
           Before(q, s[m], s[n], H) /\ ~Before(q, s[n], s[m], H)
  BY DEF Lined
<1>2. \A m, n \in 1..Len(s) : s[m] = s[n] => m = n
  BY DEF Lined
<1>3. /\ p \in Seq(S) /\ Len(p) \in Nat
      /\ Len(p) <= limit
      /\ Len(p) > 0 => from + Len(p) <= Len(s)
      /\ \A k \in 1..Len(p) : from + k \in 1..Len(s) /\ p[k] = s[from + k]
      /\ Len(p) # limit => Len(s) <= from + Len(p)
  <2>1. p = Slice(s, from, limit) /\ s \in Seq(S)
    BY <1>1
  <2>2. p \in Seq(S) /\ IsPage(p, s, from, limit)
    BY ONLY <2>1, SliceFacts, from \in Nat, limit \in Nat
  <2>3. /\ Len(p) \in Nat
        /\ limit > 0 => Len(p) <= limit
        /\ Len(p) > 0 => from + Len(p) <= Len(s)
        /\ \A k \in 1..Len(p) : from + k \in 1..Len(s) /\ p[k] = s[from + k]
        /\ limit = 0 \/ Len(p) # limit => Len(s) <= from + Len(p)
    BY <2>2 DEF IsPage
  <2> QED BY <2>2, <2>3
<1>4. T \subseteq S
  BY <1>3, <1>7 DEF ToSet
<1>5. CASE K \subseteq R
  BY <1>4, <1>5, <1>7 DEF Apace, Behind, AllShown
<1>6. CASE from <= Cardinality(D)
  <2>1. ASSUME NEW m \in 1..Len(s), s[m] \in K \ R
        PROVE  m > from
    <3>1. PICK e \in 0..Len(s) : e = m - 1
      BY <1>1
    <3>2. ASSUME NEW i \in D
          PROVE  \E n \in 1..e : i = s[n]
      <4>1. PICK j \in R \cap S : i = j \/ Before(q, i, j, H)
        BY <3>2 DEF Down
      <4>2. i \in S
        BY <3>2 DEF Down
      <4>3. PICK n \in 1..Len(s) : s[n] = i
        BY <1>1, <4>2
      <4>4. PICK l \in 1..Len(s) : s[l] = j
        BY <1>1, <4>1
      <4>5. l < m
        <5>1. Before(q, s[l], s[m], H) /\ s[l] # s[m]
          BY <1>7, <2>1, <4>1, <4>4 DEF Behind
        <5>2. ~(m < l) /\ l # m
          BY <1>1, <5>1
        <5> QED BY <5>2
      <4>6. n <= l
        <5>1. CASE i = j
          BY <1>2, <4>3, <4>4, <5>1
        <5>2. CASE Before(q, i, j, H)
          <6>1. ~(l < n)
            BY <1>1, <4>3, <4>4, <5>2
          <6> QED BY <6>1
        <5> QED BY <4>1, <5>1, <5>2
      <4>7. n \in 1..e
        BY <3>1, <4>5, <4>6
      <4> QED BY <4>3, <4>7
    <3> HIDE DEF D
    <3>3. \A i \in D : \E n \in 1..e : i = s[n]
      BY <3>2
    <3>4. Cardinality(D) <= e /\ Cardinality(D) \in Nat
      BY ONLY <1>2, <1>9, <3>3, e \in 0..Len(s), AtMostPlaces
    <3> QED BY <1>6, <3>1, <3>4 DEF D
  <2>2. ASSUME NEW m \in 1..Len(s), s[m] \in K \ T
        PROVE  m > from + Len(p) /\ Len(p) = limit
    <3>1. m > from
      BY <2>1, <2>2
    <3>2. ~(m <= from + Len(p))
      <4>1. SUFFICES ASSUME m <= from + Len(p)
                     PROVE  FALSE
        OBVIOUS
      <4>2. PICK k \in 1..Len(p) : m = from + k
        <5>1. m - from \in 1..Len(p) /\ m = from + (m - from)
          BY <1>3, <3>1, <4>1
        <5> QED BY <5>1
      <4>3. s[m] = p[k]
        BY <1>3, <4>2
      <4>4. s[m] \in ToSet(p)
        BY <1>3, <4>3 DEF ToSet
      <4> QED BY <2>2, <4>4
    <3>3. m <= Len(s)
      BY <1>1
    <3> QED BY <1>1, <1>3, <3>2, <3>3
  <2>3. ASSUME NEW i \in K \ T, NEW j \in T
        PROVE  Before(q, j, i, H)
    <3>1. CASE j \in R
      BY <1>7, <2>3, <3>1 DEF Behind
    <3>2. CASE j \in ToSet(p)
      <4>1. PICK m \in 1..Len(s) : s[m] = i
        BY <1>1, <1>8, <2>3
      <4>2. PICK k \in 1..Len(p) : j = p[k]
        BY <1>3, <3>2 DEF ToSet
      <4>3. from + k \in 1..Len(s) /\ j = s[from + k]
        BY <1>3, <4>2
      <4>4. from + k < m
        BY <1>3, <2>2, <2>3, <4>1
      <4> QED BY <1>1, <4>1, <4>3, <4>4
    <3> QED BY <2>3, <3>1, <3>2
  <2>4. ASSUME NEW i \in K \ T
        PROVE  from + Len(p) <= Cardinality(Down(q, S, T, H)) /\ Len(p) = limit
    <3>2. PICK l \in 1..Len(s) : s[l] = i
      BY <1>1, <1>8, <2>4
    <3>3. Len(p) = limit
      BY <2>2, <2>4, <3>2
    <3>4. PICK e \in 1..Len(s) : e = from + Len(p) /\ s[e] \in ToSet(p)
      <4>1. Len(p) \in 1..Len(p)
        BY <1>3, <3>3
      <4>2. from + Len(p) \in 1..Len(s) /\ p[Len(p)] = s[from + Len(p)]
        BY <1>3, <4>1
      <4>3. p[Len(p)] \in ToSet(p)
        BY <1>3, <4>1 DEF ToSet
      <4> QED BY <4>2, <4>3
    <3>5. \A m \in 1..e : s[m] \in Down(q, S, T, H)
      <4>1. ASSUME NEW m \in 1..e
            PROVE  s[m] \in Down(q, S, T, H)
        <5>1. m \in 1..Len(s) /\ (m = e \/ m < e)
          BY <1>1
        <5>2. \A n \in 1..Len(s) : s[n] \in S
          BY <1>1
        <5>3. s[m] = s[e] \/ Before(q, s[m], s[e], H)
          BY <1>1, <5>1
        <5> QED BY <3>4, <5>1, <5>2, <5>3 DEF Down
      <4> QED BY <4>1
    <3>6. IsFiniteSet(Down(q, S, T, H))
      <4>1. Down(q, S, T, H) \in SUBSET S
        BY DEF Down
      <4> QED BY <1>1, <4>1, FS_Subset
    <3>7. e \in 0..Len(s)
      BY <1>1
    <3>8. e <= Cardinality(Down(q, S, T, H))
      BY <1>1, <1>2, <3>5, <3>6, <3>7, AtLeastPlaces
    <3> QED BY <3>3, <3>4, <3>8
  <2>5. Len(s) <= from + Len(p) => K \subseteq T
    <3>1. SUFFICES ASSUME Len(s) <= from + Len(p), NEW i \in K \ T
                   PROVE  FALSE
      OBVIOUS
    <3>2. PICK l \in 1..Len(s) : s[l] = i
      BY <1>1, <1>8, <3>1
    <3>3. l > from + Len(p)
      BY <2>2, <3>1, <3>2
    <3> QED BY <1>1, <1>3, <3>1, <3>3
  <2>6. Behind(q, K, T, H)
    BY <2>3 DEF Behind
  <2> HIDE DEF T
  <2>7. K \subseteq T \/ (from + Len(p) <= Cardinality(Down(q, S, T, H)) /\ Len(p) = limit)
    BY <2>4
  <2> QED BY <1>4, <1>7, <2>5, <2>6, <2>7 DEF Apace, AllShown, T
<1> QED BY <1>5, <1>6, <1>7

-----------------------------------------------------------------------------
(* What changes of the store do to an order. *)

LEMMA SamePlaces ==
  ASSUME NEW q, NEW i, NEW j, NEW H, NEW G,
         OrderValue(q, i, H) = OrderValue(q, i, G),
         OrderValue(q, j, H) = OrderValue(q, j, G)
  PROVE  Before(q, i, j, H) <=> Before(q, i, j, G)
<1> DEFINE f == OrderField(q)
<1>1. /\ f \in DOMAIN H[i].fields <=> f \in DOMAIN G[i].fields
      /\ f \in DOMAIN H[i].fields => H[i].fields[f] = G[i].fields[f]
  BY DEF OrderValue
<1>2. /\ f \in DOMAIN H[j].fields <=> f \in DOMAIN G[j].fields
      /\ f \in DOMAIN H[j].fields => H[j].fields[f] = G[j].fields[f]
  BY DEF OrderValue
<1> QED BY <1>1, <1>2 DEF Before, Less

(* What was read has no more in front of it when what comes to the result, or
   to another place in it, comes after it. *)
LEMMA NothingInFront ==
  ASSUME NEW q, NEW S, NEW H, NEW S2, NEW H2, NEW R,
         \A i \in S2 :
           \/ i \in S /\ OrderValue(q, i, H) = OrderValue(q, i, H2)
           \/ \A j \in R : i # j /\ Before(q, j, i, H2),
         \A i, j \in S2 : i # j => ~(Before(q, i, j, H2) /\ Before(q, j, i, H2))
  PROVE  Down(q, S2, R, H2) \subseteq Down(q, S, R, H)
<1>1. SUFFICES ASSUME NEW k \in Down(q, S2, R, H2)
               PROVE  k \in Down(q, S, R, H)
  OBVIOUS
<1>2. k \in S2
  BY DEF Down
<1>3. PICK j \in R \cap S2 : k = j \/ Before(q, k, j, H2)
  BY DEF Down
<1>4. j \in S /\ OrderValue(q, j, H) = OrderValue(q, j, H2)
  BY <1>3
<1>5. k \in S /\ OrderValue(q, k, H) = OrderValue(q, k, H2)
  BY <1>2, <1>3
<1>6. k = j \/ Before(q, k, j, H)
  BY <1>3, <1>4, <1>5, SamePlaces
<1> QED BY <1>3, <1>4, <1>5, <1>6 DEF Down

(* ... and no less when what leaves the result or its place was after it. *)
LEMMA NothingGone ==
  ASSUME NEW q, NEW S, NEW H, NEW S2, NEW H2, NEW R,
         \A i \in S :
           \/ i \in S2 /\ OrderValue(q, i, H) = OrderValue(q, i, H2)
           \/ \A j \in R : i # j /\ Before(q, j, i, H),
         \A i, j \in S : i # j => ~(Before(q, i, j, H) /\ Before(q, j, i, H))
  PROVE  Down(q, S, R, H) \subseteq Down(q, S2, R, H2)
BY NothingInFront

PageRequests == {"list", "query", "nested"}

(* What a request has got at the places it comes to. *)
RequestOK ==
  /\ pc \in {"idle", "read", "copy", "join", "apply", "answer"} \cup DataPlaces
  /\ req \in Work.queries /\ offset \in Nat
  /\ joinNo \in 0..Len(req.joins) /\ pass \in 0..2
  /\ total \in Nat /\ hasMore \in BOOLEAN
  /\ page \in Seq(DOMAIN heap) /\ targets \in Seq(DOMAIN heap)
  /\ seen \in Seq(DOMAIN heap)
  /\ {row.id : row \in rows} \subseteq ToSet(page)
  /\ pc # "idle" => req.handler \in PageRequests \cup {"count"} \cup DataRequests
  /\ pc \in {"copy", "join", "apply"} =>
       req.handler \in PageRequests /\ req.joins # <<>>
  /\ pc \in {"join", "apply"} => joinNo > 0 /\ pass > 0
  /\ pc \in {"idle", "read", "copy"} => rows = {} /\ copies = {}
  /\ pc \in {"idle", "read"} => page = <<>>
  /\ pc = "idle" => seen = <<>> /\ joinNo = 0
  /\ req.handler \notin PageRequests =>
       /\ seen = <<>> /\ rows = {} /\ copies = {} /\ hasMore = FALSE
       /\ page = <<>> \/ \E i : page = <<i>>
  /\ DOMAIN stamps \subseteq
       DOMAIN Work.inserts \cup (IF pc = "insert" THEN {req.id} ELSE {})

(* A page was read. *)
PageRead ==
  pc \in {"copy", "join", "apply", "answer"} /\ req.handler \in PageRequests

(* HasMore of the response is set. *)
Counted == pc = "answer" \/ (pc \in {"join", "apply"} /\ pass = 2)

PageOK ==
  PageRead =>
    /\ req.limit > 0 => Len(page) <= req.limit
    /\ total <= Cardinality(DOMAIN heap)
    /\ IsFiniteSet(rows) /\ Cardinality(rows) <= Len(page)
    /\ Counted /\ hasMore => offset < total
    /\ Counted /\ ~hasMore => total <= offset + Len(page)

LEMMA QueryFacts ==
  ASSUME workload \in DOMAIN Workloads
  PROVE  /\ NoQuery \in Work.queries
         /\ \A q \in Work.queries :
              /\ q.limit \in Nat /\ q.offset \in Nat
              /\ q.joins \in Seq(ToSet(q.joins)) /\ Len(q.joins) \in Nat
              /\ DOMAIN q.joins = 1..Len(q.joins)
              /\ q.walk => /\ q.handler \in PageRequests
                           /\ q.limit > 0 /\ q.offset = 0
<1>1. Work \in Range(Workloads)
  BY DEF Work, Range
<1>2. /\ Work.queries # {}
      /\ \A q \in Work.queries :
           /\ q.limit \in Nat /\ q.offset \in Nat
           /\ q.joins \in Seq(ToSet(q.joins))
           /\ q.walk => /\ q.handler \in PageRequests
                        /\ q.limit > 0 /\ q.offset = 0
  BY <1>1, WorkloadsAssumption DEF PageRequests
<1>3. NoQuery \in Work.queries
  BY <1>2 DEF NoQuery
<1>4. ASSUME NEW q \in Work.queries
      PROVE  Len(q.joins) \in Nat /\ DOMAIN q.joins = 1..Len(q.joins)
  <2>1. q.joins \in Seq(ToSet(q.joins))
    BY <1>2
  <2>2. PICK J : q.joins \in Seq(J)
    BY <2>1
  <2> QED BY <2>2
<1> QED BY <1>2, <1>3, <1>4

LEMMA FiniteStore ==
  ASSUME StoreOK
  PROVE  /\ IsFiniteSet(IDs)
         /\ IsFiniteSet(DOMAIN heap) /\ Cardinality(DOMAIN heap) \in Nat
         /\ \A T \in SUBSET live :
              /\ IsFiniteSet(T) /\ Cardinality(T) \in Nat
              /\ Cardinality(T) <= Cardinality(DOMAIN heap)
<1>1. IsFiniteSet(IDs)
  <2>1. 0 \in Int /\ 9 \in Int
    OBVIOUS
  <2>2. IsFiniteSet(0..9)
    BY <2>1, FS_Interval
  <2> QED BY <2>2, IDsAssumption, FS_Subset
<1>2. DOMAIN heap \in SUBSET IDs /\ live \in SUBSET DOMAIN heap
  BY DEF StoreOK
<1>3. IsFiniteSet(DOMAIN heap) /\ Cardinality(DOMAIN heap) \in Nat
  BY <1>1, <1>2, FS_Subset, FS_CardinalityType
<1>4. ASSUME NEW T \in SUBSET live
      PROVE  /\ IsFiniteSet(T) /\ Cardinality(T) \in Nat
             /\ Cardinality(T) <= Cardinality(DOMAIN heap)
  <2>1. T \in SUBSET DOMAIN heap
    BY <1>2
  <2> QED BY <1>3, <2>1, FS_Subset, FS_CardinalityType
<1> QED BY <1>1, <1>3, <1>4

LEMMA TypeFollows ==
  ASSUME DataInv, RequestOK
  PROVE  TypeOK
<1>1. live \subseteq DOMAIN heap /\ DOMAIN heap \subseteq IDs
  BY DEF DataInv, StoreOK
<1>2. ToSet(page) \cup ToSet(targets) \cup ToSet(seen) \subseteq DOMAIN heap
  <2>1. \A s \in Seq(DOMAIN heap) : ToSet(s) \subseteq DOMAIN heap
    BY DEF ToSet
  <2> QED BY <2>1 DEF RequestOK
<1>3. ASSUME NEW i \in DOMAIN stamps
      PROVE  i \in IDs \ live
  <2>1. CASE i \in DOMAIN Work.inserts
    BY <1>1, <2>1, WorkloadFacts DEF DataInv, StoreOK, PlaceOK
  <2>2. CASE pc = "insert" /\ i = req.id
    BY <1>1, <2>2, WorkloadFacts DEF DataInv, PlaceOK, OwnStamp, RequestOK
  <2> QED BY <2>1, <2>2 DEF RequestOK
<1> QED BY <1>1, <1>2, <1>3 DEF RequestOK, TypeOK

-----------------------------------------------------------------------------
(* The shape of a request. *)

LEMMA RequestOthers ==
  ASSUME DataInv, RequestOK, OthersChange,
         DOMAIN stamps' \subseteq DOMAIN stamps \cup DOMAIN Work.inserts,
         UNCHANGED <<workload, requestVars, seen, copies>>
  PROVE  RequestOK'
<1>1. UNCHANGED <<pc, req, offset, page, rows, joinNo, pass, targets, total, hasMore>>
  BY DEF requestVars
<1>2. Work' = Work
  BY DEF Work
<1>3. DOMAIN heap \subseteq DOMAIN heap'
  BY DEF OthersChange
<1>4. \A s \in Seq(DOMAIN heap) : s \in Seq(DOMAIN heap')
  BY <1>3
<1>5. /\ page' \in Seq(DOMAIN heap') /\ targets' \in Seq(DOMAIN heap')
      /\ seen' \in Seq(DOMAIN heap')
  BY <1>1, <1>4 DEF RequestOK
<1> QED BY <1>1, <1>2, <1>5 DEF RequestOK

LEMMA RequestBegins ==
  ASSUME DataInv, RequestOK, NEW q \in Work.queries, NEW place, Begin(q, place),
         place \in {"read", "stamp", "get", "update", "find"},
         q.handler \in PageRequests \cup {"count"} \cup DataRequests
  PROVE  RequestOK'
<1>1. /\ pc = "idle" /\ pc' = place /\ req' = q /\ offset' = q.offset /\ seen' = <<>>
      /\ UNCHANGED <<workload, live, heap, stamps, page, rows, joinNo, pass, targets,
                     total, hasMore, copies>>
  BY DEF Begin, Idle, storeVars
<1>2. Work' = Work
  BY <1>1 DEF Work
<1>3. q.offset \in Nat /\ Len(q.joins) \in Nat
  BY QueryFacts DEF DataInv, PlaceOK
<1>4. hasMore = FALSE /\ joinNo = 0 /\ page = <<>> /\ rows = {} /\ copies = {}
  BY <1>1 DEF DataInv, PlaceOK, RequestOK
<1>5. joinNo' \in 0..Len(req'.joins)
  BY <1>1, <1>3, <1>4
<1>6. seen' \in Seq(DOMAIN heap')
  BY <1>1
<1>7. pc' \in {"idle", "read", "copy", "join", "apply", "answer"} \cup DataPlaces
  BY <1>1 DEF DataPlaces
<1> QED BY <1>1, <1>2, <1>3, <1>4, <1>5, <1>6, <1>7 DEF RequestOK

LEMMA RequestEnds ==
  ASSUME DataInv, RequestOK, End, pc # "insert"
  PROVE  RequestOK'
<1>1. /\ pc' = "idle" /\ page' = <<>> /\ rows' = {} /\ targets' = <<>> /\ copies' = {}
      /\ joinNo' = 0 /\ pass' = 0 /\ seen' = <<>> /\ total' = 0 /\ hasMore' = FALSE
      /\ offset' = 0 /\ req' = NoQuery
      /\ UNCHANGED <<workload, heap, stamps>>
  BY DEF End, storeVars
<1>2. Work' = Work
  BY <1>1 DEF Work
<1>3. NoQuery \in Work.queries /\ Len(NoQuery.joins) \in Nat
  BY QueryFacts DEF DataInv, PlaceOK
<1>4. page' \in Seq(DOMAIN heap')
  BY <1>1
<1>5. joinNo' \in 0..Len(req'.joins) /\ total' \in Nat /\ offset' \in Nat
  BY <1>1, <1>3
<1>6. {row.id : row \in rows'} = {}
  BY <1>1
<1>7. DOMAIN stamps' \subseteq DOMAIN Work'.inserts
  BY <1>1, <1>2 DEF RequestOK
<1>8. pass' \in 0..2
  BY <1>1
<1>9. hasMore' \in BOOLEAN
  BY <1>1
<1> QED BY <1>1, <1>2, <1>3, <1>4, <1>5, <1>6, <1>7, <1>8, <1>9 DEF RequestOK

(* A page that was read, and what its slice is of. *)
LEMMA ReadPageFacts ==
  ASSUME DataInv, RequestOK, ReadPage
  PROVE  \E s \in Sorted(req, live, heap) :
           /\ page' = Slice(s, offset, req.limit) /\ total' = Len(s)
           /\ s \in Seq(Filtered(req, live, heap)) /\ s \in Seq(DOMAIN heap)
           /\ Len(s) = Cardinality(Filtered(req, live, heap))
           /\ Len(s) \in Nat /\ Len(s) <= Cardinality(DOMAIN heap)
           /\ page' \in Seq(DOMAIN heap) /\ IsPage(page', s, offset, req.limit)
<1>1. PICK s \in Sorted(req, live, heap) :
        page' = Slice(s, offset, req.limit) /\ total' = Len(s)
  BY DEF ReadPage
<1> DEFINE S == Filtered(req, live, heap)
<1>2. S \subseteq live /\ S \subseteq DOMAIN heap
  BY DEF Filtered, OfType, DataInv, StoreOK
<1>3. IsFiniteSet(S) /\ Cardinality(S) <= Cardinality(DOMAIN heap)
  BY <1>2, FiniteStore DEF DataInv
<1>4. s \in Seq(S) /\ Len(s) = Cardinality(S) /\ Len(s) \in Nat
  <2>1. s \in SetToSeqs(S)
    BY DEF Sorted
  <2> QED BY <1>3, <2>1, Permutation
<1>5. s \in Seq(DOMAIN heap)
  <2> HIDE DEF S
  <2> QED BY <1>2, <1>4
<1>6. offset \in Nat /\ req.limit \in Nat
  BY QueryFacts DEF DataInv, PlaceOK, RequestOK
<1>7. page' \in Seq(DOMAIN heap) /\ IsPage(page', s, offset, req.limit)
  BY ONLY <1>1, <1>5, <1>6, SliceFacts
<1> QED BY <1>1, <1>3, <1>4, <1>5, <1>7

LEMMA HasMoreType ==
  ASSUME NEW count, NEW all
  PROVE  HasMore(count, all) \in BOOLEAN
BY DEF HasMore

LEMMA RequestReads ==
  ASSUME DataInv, RequestOK, ReadPage
  PROVE  RequestOK'
<1>1. /\ pc = "read" /\ req.handler # "count"
      /\ \/ req.joins = <<>> /\ pc' = "answer"
            /\ hasMore' = HasMore(Len(page'), total')
         \/ req.joins # <<>> /\ pc' = "copy" /\ hasMore' = hasMore
      /\ UNCHANGED <<workload, live, heap, stamps, req, offset, rows, joinNo, pass,
                     targets, seen, copies>>
  BY DEF ReadPage, storeVars, walkVars, joinVars
<1>2. total' \in Nat /\ page' \in Seq(DOMAIN heap)
  BY ReadPageFacts
<1>3. Work' = Work
  BY <1>1 DEF Work
<1>4. req.handler \in PageRequests
  BY <1>1 DEF RequestOK, DataInv, PlaceOK
<1>5. hasMore' \in BOOLEAN
  BY <1>1, HasMoreType DEF RequestOK
<1>6. {row.id : row \in rows'} = {}
  BY <1>1 DEF RequestOK
<1> QED BY <1>1, <1>2, <1>3, <1>4, <1>5, <1>6 DEF RequestOK

LEMMA RequestCopies ==
  ASSUME DataInv, RequestOK, CopyRows
  PROVE  RequestOK'
<1>1. /\ pc = "copy" /\ pc' = "join" /\ joinNo' = 1 /\ pass' = 1
      /\ rows' = {[id |-> i, fields |-> heap[i].fields] : i \in ToSet(page)}
      /\ UNCHANGED <<workload, live, heap, stamps, req, offset, page, total,
                     hasMore, targets, seen>>
  BY DEF CopyRows, storeVars, walkVars
<1>2. Work' = Work
  BY <1>1 DEF Work
<1>3. req.handler \in PageRequests /\ req.joins # <<>> /\ req \in Work.queries
  BY <1>1 DEF RequestOK
<1>4. joinNo' \in 0..Len(req'.joins)
  <2>1. Len(req.joins) \in Nat /\ req.joins \in Seq(ToSet(req.joins))
    BY <1>3, QueryFacts DEF DataInv, PlaceOK
  <2>2. PICK J : req.joins \in Seq(J)
    BY <2>1
  <2>3. Len(req.joins) # 0
    BY <1>3, <2>2
  <2> QED BY <1>1, <2>1, <2>3
<1>5. {row.id : row \in rows'} \subseteq ToSet(page')
  BY <1>1
<1>6. pass' \in 0..2
  BY <1>1
<1> QED BY <1>1, <1>2, <1>3, <1>4, <1>5, <1>6 DEF RequestOK

LEMMA RequestTargets ==
  ASSUME DataInv, RequestOK, ReadTargets
  PROVE  RequestOK'
<1>1. /\ pc = "join" /\ pc' = "apply"
      /\ targets' \in SetToSeqs(Filtered(req.joins[joinNo], live, heap))
      /\ UNCHANGED <<workload, live, heap, stamps, req, offset, page, rows, joinNo,
                     pass, total, hasMore, seen, copies>>
  BY DEF ReadTargets, storeVars, walkVars, joinVars
<1>2. Work' = Work
  BY <1>1 DEF Work
<1>3. targets' \in Seq(DOMAIN heap)
  <2> DEFINE S == Filtered(req.joins[joinNo], live, heap)
  <2>1. S \subseteq live /\ S \subseteq DOMAIN heap
    BY DEF Filtered, OfType, DataInv, StoreOK
  <2>2. IsFiniteSet(S)
    BY <2>1, FiniteStore DEF DataInv
  <2>3. targets' \in Seq(S)
    BY <1>1, <2>2, Permutation
  <2> HIDE DEF S
  <2> QED BY <2>1, <2>3
<1> QED BY <1>1, <1>2, <1>3 DEF RequestOK

LEMMA RequestJoins ==
  ASSUME DataInv, RequestOK, ApplyJoin
  PROVE  RequestOK'
<1>1. /\ pc = "apply" /\ rows' = Joined(rows, req.joins[joinNo]) /\ targets' = <<>>
      /\ joinNo' = IF joinNo = Len(req.joins) THEN 1 ELSE joinNo + 1
      /\ pass' \in {pass, 2} /\ pc' \in {"join", "answer"}
      /\ \/ hasMore' = HasMore(Cardinality(rows'), total)
         \/ hasMore' = hasMore
      /\ UNCHANGED <<workload, live, heap, stamps, req, offset, page, total, seen,
                     copies>>
  BY DEF ApplyJoin, storeVars, walkVars, joinVars
<1>2. Work' = Work
  BY <1>1 DEF Work
<1>3. /\ req.handler \in PageRequests /\ req \in Work.queries
      /\ joinNo \in 0..Len(req.joins) /\ joinNo > 0 /\ pass \in 0..2 /\ pass > 0
  BY <1>1 DEF RequestOK
<1>4. joinNo' \in 0..Len(req'.joins) /\ joinNo' > 0
  <2>1. Len(req.joins) \in Nat
    BY <1>3, QueryFacts DEF DataInv, PlaceOK
  <2> QED BY <1>1, <1>3, <2>1
<1>5. pass' \in 0..2 /\ pass' > 0
  BY <1>1, <1>3
<1>6. {row.id : row \in rows'} \subseteq ToSet(page')
  <2>1. ASSUME NEW r \in rows'
        PROVE  \E row \in rows : r.id = row.id
    <3>1. PICK row \in rows : r = JoinRow(row, req.joins[joinNo])
      BY <1>1, <2>1 DEF Joined
    <3> QED BY <3>1 DEF JoinRow
  <2> QED BY <1>1, <2>1 DEF RequestOK
<1>7. hasMore' \in BOOLEAN
  BY <1>1, HasMoreType DEF RequestOK
<1>8. targets' \in Seq(DOMAIN heap')
  BY <1>1
<1> QED BY <1>1, <1>2, <1>3, <1>4, <1>5, <1>6, <1>7, <1>8 DEF RequestOK

LEMMA RequestCounts ==
  ASSUME DataInv, RequestOK, ExecuteCountQuery, ~CountFails(req)
  PROVE  RequestOK'
<1>1. /\ pc = "read" /\ pc' = "answer" /\ req.handler = "count"
      /\ total' = CountOf(req)
      /\ UNCHANGED <<workload, live, heap, stamps, req, offset, page, rows, joinNo,
                     pass, targets, hasMore, seen, copies>>
  BY DEF ExecuteCountQuery, storeVars, walkVars, joinVars
<1>2. Work' = Work
  BY <1>1 DEF Work
<1>3. total' \in Nat
  <2>1. \E T \in SUBSET live : CountOf(req) = Cardinality(T)
    BY DEF CountOf, Filtered, IndexLookup, OfType
  <2> QED BY <1>1, <2>1, FiniteStore DEF DataInv
<1> QED BY <1>1, <1>2, <1>3 DEF RequestOK

LEMMA RequestWalks ==
  ASSUME DataInv, RequestOK, NextPage
  PROVE  RequestOK'
<1>1. /\ pc = "answer" /\ pc' = "read" /\ req.walk /\ hasMore
      /\ seen' = seen \o page /\ offset' = offset + req.limit
      /\ page' = <<>> /\ rows' = {} /\ copies' = {}
      /\ UNCHANGED <<workload, live, heap, stamps, req, joinNo, pass, targets, total,
                     hasMore>>
  BY DEF NextPage, storeVars
<1>2. Work' = Work
  BY <1>1 DEF Work
<1>3. req.limit \in Nat /\ req.handler \in PageRequests
  BY <1>1, QueryFacts DEF DataInv, PlaceOK, RequestOK
<1>4. seen' \in Seq(DOMAIN heap) /\ page' \in Seq(DOMAIN heap) /\ offset' \in Nat
  BY <1>1, <1>3 DEF RequestOK
<1>5. {row.id : row \in rows'} = {}
  BY <1>1
<1> QED BY <1>1, <1>2, <1>3, <1>4, <1>5 DEF RequestOK

(* None or one, of those there are. *)
AtMostOne(s, T) == s = <<>> \/ \E i \in T : s = <<i>>

LEMMA OneIsSequence ==
  ASSUME NEW s, NEW T, AtMostOne(s, T)
  PROVE  s \in Seq(T)
<1>1. CASE s = <<>>
  BY <1>1
<1>2. ASSUME NEW i \in T, s = <<i>>
      PROVE  s \in Seq(T)
  BY <1>2
<1> QED BY <1>1, <1>2 DEF AtMostOne

LEMMA RequestData ==
  ASSUME DataInv, RequestOK, req.handler \in DataRequests, pc # "idle",
         UNCHANGED <<workload, req, offset, rows, joinNo, pass, hasMore, seen, copies>>,
         DOMAIN heap \subseteq DOMAIN heap', total' \in Nat,
         pc' \in DataPlaces \cup {"answer"},
         page' = page \/ AtMostOne(page', DOMAIN heap'),
         targets' = targets \/ AtMostOne(targets', DOMAIN heap'),
         DOMAIN stamps' \subseteq
           DOMAIN Work.inserts \cup (IF pc' = "insert" THEN {req.id} ELSE {})
  PROVE  RequestOK'
<1>1. Work' = Work
  BY DEF Work
<1>2. \A s \in Seq(DOMAIN heap) : s \in Seq(DOMAIN heap')
  OBVIOUS
<1>3. page' \in Seq(DOMAIN heap') /\ targets' \in Seq(DOMAIN heap')
  <2>1. \A s : AtMostOne(s, DOMAIN heap') => s \in Seq(DOMAIN heap')
    BY OneIsSequence
  <2>2. page \in Seq(DOMAIN heap') /\ targets \in Seq(DOMAIN heap')
    BY <1>2 DEF RequestOK
  <2> QED BY <2>1, <2>2
<1>4. seen' \in Seq(DOMAIN heap')
  BY <1>2 DEF RequestOK
<1>5. req.handler \notin PageRequests
  BY DEF DataRequests, PageRequests
<1>6. {row.id : row \in rows'} = {}
  BY <1>5 DEF RequestOK
<1>7. page' = <<>> \/ \E i : page' = <<i>>
  BY <1>5 DEF RequestOK, AtMostOne
<1>8. pc' \notin {"idle", "read", "copy", "join", "apply"}
  BY DEF DataPlaces
<1>9. pc' \in {"idle", "read", "copy", "join", "apply", "answer"} \cup DataPlaces
  OBVIOUS
<1> QED BY <1>1, <1>3, <1>4, <1>5, <1>6, <1>7, <1>8, <1>9 DEF RequestOK

LEMMA FoundOne ==
  ASSUME StoreOK, NEW t, NEW i
  PROVE  AtMostOne(Found(t, i), DOMAIN heap)
BY DEF Found, Stored, OfType, AtMostOne, StoreOK

LEMMA RequestDataSteps ==
  ASSUME DataInv, RequestOK,
         \/ StampCreate \/ CommitCreate \/ AnswerNewest \/ GetByType \/ UpdateNamed
         \/ TryFormat \/ InspectEntities \/ DeleteFound
  PROVE  RequestOK'
<1>1. pc \in DataPlaces
  BY DEF StampCreate, CommitCreate, AnswerNewest, GetByType, UpdateNamed, TryFormat,
         InspectEntities, DeleteFound, DataPlaces
<1>2. req.handler \in DataRequests /\ pc # "idle"
  BY <1>1 DEF DataInv, PlaceOK, DataPlaces, DataRequests
<1>3. Remember => UNCHANGED <<seen, copies>>
  BY DEF Remember, walkVars, joinVars
<1>4. total \in Nat
  BY DEF RequestOK
<1>5. live \subseteq DOMAIN heap
  BY DEF DataInv, StoreOK
<1>6. \A t, i : AtMostOne(Found(t, i), DOMAIN heap)
  BY FoundOne DEF DataInv
<1>7. AtMostOne(<<>>, DOMAIN heap) /\ AtMostOne(NumberFound, DOMAIN heap)
  BY <1>6 DEF AtMostOne, NumberFound
<1>8. ASSUME NEW answered, NEW answer, Answers(answered, answer), live' \subseteq live,
             pc # "insert", seen' = seen, copies' = copies, DOMAIN heap' = DOMAIN heap,
             answered = page \/ AtMostOne(answered, DOMAIN heap),
             AtMostOne(answer, DOMAIN heap)
      PROVE  RequestOK'
  <2>1. /\ page' = answered /\ targets' = answer /\ pc' = "answer"
        /\ UNCHANGED <<workload, stamps, req, offset, rows, joinNo, pass, total, hasMore>>
    BY <1>8 DEF Answers
  <2>2. DOMAIN stamps' \subseteq DOMAIN Work.inserts
    BY <1>8, <2>1 DEF RequestOK
  <2> QED BY <1>2, <1>4, <1>8, <2>1, <2>2, RequestData
<1>9. CASE StampCreate
  <2>1. /\ pc' = "insert" /\ stamps' = Put(stamps, req.id, clock)
        /\ UNCHANGED <<workload, heap, req, offset, page, rows, joinNo, pass, targets,
                       total, hasMore, seen, copies>>
    BY <1>9 DEF StampCreate, walkVars, joinVars
  <2>2. pc # "insert"
    BY <1>9 DEF StampCreate
  <2>3. DOMAIN stamps' \subseteq DOMAIN Work.inserts \cup {req.id}
    BY <2>1, <2>2 DEF RequestOK, Put, Overlay
  <2>4. pc' \in DataPlaces
    BY <2>1 DEF DataPlaces
  <2> QED BY <1>2, <1>4, <2>1, <2>3, <2>4, RequestData
<1>10. CASE CommitCreate
  <2>1. /\ pc = "insert" /\ pc' = "newest" /\ page' = <<req.id>>
        /\ heap' = Put(heap, req.id,
                       Stamped([type |-> req.type, fields |-> req.fields],
                               stamps[req.id]))
        /\ stamps' = Restrict(stamps, DOMAIN stamps \ {req.id})
        /\ UNCHANGED <<workload, req, offset, rows, joinNo, pass, targets, total,
                       hasMore, seen, copies>>
    BY <1>3, <1>10 DEF CommitCreate
  <2>2. DOMAIN heap' = DOMAIN heap \cup {req.id}
    BY <2>1 DEF Put, Overlay
  <2>3. DOMAIN stamps' \subseteq DOMAIN Work.inserts
    BY <2>1 DEF RequestOK, Restrict
  <2>4. pc' \in DataPlaces
    BY <2>1 DEF DataPlaces
  <2>5. AtMostOne(page', DOMAIN heap')
    BY <2>1, <2>2 DEF AtMostOne
  <2> QED BY <1>2, <1>4, <2>1, <2>2, <2>3, <2>4, <2>5, RequestData
<1>11. CASE AnswerNewest
  <2>1. PICK answer : /\ Answers(page, answer) /\ AtMostOne(answer, live)
                      /\ pc = "newest" /\ UNCHANGED <<live, heap, seen, copies>>
    BY <1>11 DEF AnswerNewest, Newest, OfType, AtMostOne, walkVars, joinVars
  <2>2. AtMostOne(answer, DOMAIN heap)
    BY <1>5, <2>1 DEF AtMostOne
  <2> QED BY <1>8, <2>1, <2>2
<1>12. CASE GetByType
  <2>1. /\ pc = "get" /\ Answers(NumberFound, NumberFound)
        /\ UNCHANGED <<live, heap, seen, copies>>
    BY <1>12 DEF GetByType, NumberFound, walkVars, joinVars
  <2> QED BY <1>7, <1>8, <2>1
<1>13. CASE UpdateNamed
  <2>1. /\ pc = "update" /\ Answers(NumberFound, NumberFound) /\ live' = live
        /\ DOMAIN heap' = DOMAIN heap /\ Remember
    BY <1>13 DEF UpdateNamed, NumberFound
  <2> QED BY <1>3, <1>7, <1>8, <2>1
<1>14. CASE TryFormat
  <2>1. /\ pc = "find" /\ pc' \in {"find", "delete"}
        /\ page' = page \/ AtMostOne(page', live)
        /\ total' \in {total, total + 1}
        /\ UNCHANGED <<workload, live, heap, stamps, req, offset, rows, joinNo, pass,
                       targets, hasMore, seen, copies>>
    BY <1>14 DEF TryFormat, storeVars, walkVars, joinVars, AtMostOne
  <2>2. page' = page \/ AtMostOne(page', DOMAIN heap')
    BY <1>5, <2>1 DEF AtMostOne
  <2>3. DOMAIN stamps' \subseteq DOMAIN Work.inserts
    BY <2>1 DEF RequestOK
  <2>4. total' \in Nat
    BY <1>4, <2>1
  <2>5. pc' \in DataPlaces
    BY <2>1 DEF DataPlaces
  <2> QED BY <1>2, <2>1, <2>2, <2>3, <2>4, <2>5, RequestData
<1>15. CASE InspectEntities
  <2>1. pc = "find" /\ UNCHANGED <<live, heap, seen, copies>>
    BY <1>15 DEF InspectEntities, walkVars, joinVars
  <2>2. CASE Stored(req.type, Exact(req.raw))
    <3>1. /\ pc' = "delete" /\ page' = <<Exact(req.raw)>>
          /\ UNCHANGED <<workload, stamps, req, offset, rows, joinNo, pass, targets,
                         total, hasMore>>
      BY <1>15, <2>2 DEF InspectEntities
    <3>2. AtMostOne(page', DOMAIN heap')
      BY <1>5, <2>1, <2>2, <3>1 DEF AtMostOne, Stored, OfType
    <3>3. DOMAIN stamps' \subseteq DOMAIN Work.inserts
      BY <2>1, <3>1 DEF RequestOK
    <3>4. pc' \in DataPlaces
      BY <3>1 DEF DataPlaces
    <3> QED BY <1>2, <1>4, <2>1, <3>1, <3>2, <3>3, <3>4, RequestData
  <2>3. CASE ~Stored(req.type, Exact(req.raw))
    <3>1. Answers(<<>>, <<>>)
      BY <1>15, <2>3 DEF InspectEntities
    <3> QED BY <1>7, <1>8, <2>1, <3>1
  <2> QED BY <2>2, <2>3
<1>16. CASE DeleteFound
  <2>1. /\ pc = "delete" /\ heap' = heap /\ Remember
        /\ Answers(Found(req.type, page[1]), Found(req.type, page[1]))
        /\ live' \subseteq live
    BY <1>16 DEF DeleteFound
  <2> QED BY <1>3, <1>6, <1>8, <2>1
<1> QED BY <1>9, <1>10, <1>11, <1>12, <1>13, <1>14, <1>15, <1>16

-----------------------------------------------------------------------------
(* The numbers of a page. *)

LEMMA FiniteIDs ==
  ASSUME NEW S, S \subseteq IDs, NEW T, T \subseteq S
  PROVE  /\ IsFiniteSet(S) /\ Cardinality(S) \in Nat
         /\ IsFiniteSet(T) /\ Cardinality(T) \in Nat
         /\ Cardinality(T) <= Cardinality(S)
<1>1. IsFiniteSet(IDs)
  <2>1. 0 \in Int /\ 9 \in Int
    OBVIOUS
  <2>2. IsFiniteSet(0..9)
    BY <2>1, FS_Interval
  <2> QED BY <2>2, IDsAssumption, FS_Subset
<1>2. IsFiniteSet(S)
  BY <1>1, FS_Subset
<1> QED BY <1>2, FS_Subset, FS_CardinalityType

LEMMA HeapGrown ==
  ASSUME DataInv', DOMAIN heap \subseteq DOMAIN heap'
  PROVE  /\ Cardinality(DOMAIN heap) \in Nat /\ Cardinality(DOMAIN heap') \in Nat
         /\ Cardinality(DOMAIN heap) <= Cardinality(DOMAIN heap')
<1>1. DOMAIN heap' \subseteq IDs
  BY DEF DataInv, StoreOK
<1> QED BY <1>1, FiniteIDs

LEMMA WalkKept ==
  ASSUME RequestOK, WalkEnds, DataInv', DOMAIN heap \subseteq DOMAIN heap',
         workload \in DOMAIN Workloads, pc # "idle", UNCHANGED <<req, offset>>
  PROVE  WalkEnds'
<1>1. req.limit \in Nat /\ offset \in Nat
  BY QueryFacts DEF RequestOK
<1> QED BY <1>1, HeapGrown DEF WalkEnds, Idle

LEMMA PageKept ==
  ASSUME RequestOK, PageOK, WalkEnds, DataInv', DOMAIN heap \subseteq DOMAIN heap',
         workload \in DOMAIN Workloads,
         UNCHANGED <<pc, req, offset, page, rows, pass, total, hasMore>>
  PROVE  PageOK' /\ WalkEnds'
<1>1. PageOK'
  <2>1. Counted' = Counted /\ PageRead' = PageRead
    BY DEF Counted, PageRead
  <2>2. total \in Nat
    BY DEF RequestOK
  <2> QED BY <2>1, <2>2, HeapGrown DEF PageOK
<1>2. WalkEnds'
  BY WalkKept DEF WalkEnds, Idle
<1> QED BY <1>1, <1>2

LEMMA MoreFacts ==
  ASSUME NEW count \in Nat, NEW all \in Nat, offset \in Nat
  PROVE  /\ HasMore(count, all) => offset < all
         /\ ~HasMore(count, all) => all <= offset + count
<1>1. HasMore(count, all) <=> offset + count < all
  BY DEF HasMore
<1>2. offset + count < all => offset < all
  OBVIOUS
<1>3. ~(offset + count < all) => all <= offset + count
  OBVIOUS
<1> QED BY <1>1, <1>2, <1>3

LEMMA PageReads ==
  ASSUME DataInv, RequestOK, PageOK, WalkEnds, DataInv', ReadPage
  PROVE  PageOK' /\ WalkEnds'
<1>1. /\ pc = "read" /\ pc' \in {"copy", "answer"}
      /\ pc' = "answer" => hasMore' = HasMore(Len(page'), total')
      /\ UNCHANGED <<workload, live, heap, req, offset, rows>>
  BY DEF ReadPage, storeVars
<1>2. PICK s \in Sorted(req, live, heap) :
        /\ total' = Len(s) /\ Len(s) \in Nat /\ Len(s) <= Cardinality(DOMAIN heap)
        /\ page' \in Seq(DOMAIN heap) /\ IsPage(page', s, offset, req.limit)
  BY ReadPageFacts
<1>3. rows' = {} /\ offset \in Nat
  BY <1>1 DEF RequestOK
<1>4. IsFiniteSet(rows') /\ Cardinality(rows') = 0
  BY <1>3, FS_EmptySet
<1>5. Len(page') \in Nat /\ (req'.limit > 0 => Len(page') <= req'.limit)
  BY <1>1, <1>2 DEF IsPage
<1>6. Counted' => pc' = "answer"
  BY <1>1 DEF Counted
<1>11. total' \in Nat
  BY <1>2
<1>12. /\ HasMore(Len(page'), total') => offset < total'
       /\ ~HasMore(Len(page'), total') => total' <= offset + Len(page')
  BY <1>3, <1>5, <1>11, MoreFacts
<1>7. Counted' /\ hasMore' => offset' < total'
  BY <1>1, <1>6, <1>12
<1>8. Counted' /\ ~hasMore' => total' <= offset' + Len(page')
  BY <1>1, <1>6, <1>12
<1>9. PageOK'
  BY <1>1, <1>2, <1>4, <1>5, <1>7, <1>8 DEF PageOK
<1>10. WalkEnds'
  BY <1>1, WalkKept DEF DataInv, PlaceOK
<1> QED BY <1>9, <1>10

LEMMA PageCopies ==
  ASSUME DataInv, RequestOK, PageOK, WalkEnds, DataInv', CopyRows
  PROVE  PageOK' /\ WalkEnds'
<1>1. /\ pc = "copy" /\ pc' = "join" /\ pass' = 1
      /\ rows' = {[id |-> i, fields |-> heap[i].fields] : i \in ToSet(page)}
      /\ UNCHANGED <<workload, heap, req, offset, page, total, hasMore>>
  BY DEF CopyRows, storeVars
<1>2. PageRead
  BY <1>1 DEF PageRead, RequestOK
<1>3. Len(page) \in Nat /\ DOMAIN page = 1..Len(page)
  BY DEF RequestOK
<1>4. IsFiniteSet(rows') /\ Cardinality(rows') <= Len(page)
  <2> DEFINE f == [k \in 1..Len(page) |-> [id |-> page[k], fields |-> heap[page[k]].fields]]
  <2>1. IsFiniteSet(1..Len(page)) /\ Cardinality(1..Len(page)) = Len(page)
    <3>1. 1 \in Int /\ Len(page) \in Int
      BY <1>3
    <3>2. /\ IsFiniteSet(1..Len(page))
          /\ Cardinality(1..Len(page)) = IF 1 > Len(page) THEN 0 ELSE Len(page) - 1 + 1
      BY <3>1, FS_Interval
    <3> QED BY <1>3, <3>2
  <2>2. f \in Surjection(1..Len(page), rows')
    <3>1. \A k \in 1..Len(page) : f[k] \in rows'
      BY <1>1, <1>3 DEF ToSet
    <3>2. ASSUME NEW r \in rows'
          PROVE  \E k \in 1..Len(page) : f[k] = r
      <4>1. PICK i \in ToSet(page) : r = [id |-> i, fields |-> heap[i].fields]
        BY <1>1, <3>2
      <4>2. PICK k \in 1..Len(page) : i = page[k]
        BY <1>3, <4>1 DEF ToSet
      <4> QED BY <4>1, <4>2
    <3> QED BY <3>1, <3>2 DEF Surjection
  <2> HIDE DEF f
  <2> QED BY <2>1, <2>2, FS_Surjection
<1>5. ~Counted'
  BY <1>1 DEF Counted
<1>6. PageOK'
  BY <1>1, <1>2, <1>4, <1>5 DEF PageOK
<1>7. WalkEnds'
  BY <1>1, WalkKept DEF DataInv, PlaceOK
<1> QED BY <1>6, <1>7

LEMMA PageJoins ==
  ASSUME DataInv, RequestOK, PageOK, WalkEnds, DataInv', ApplyJoin
  PROVE  PageOK' /\ WalkEnds'
<1> DEFINE join == req.joins[joinNo]
           kept == {r \in rows : join.inner => Matched(r, join)}
<1>1. /\ pc = "apply" /\ pc' \in {"join", "answer"}
      /\ rows' = {JoinRow(r, join) : r \in kept}
      /\ UNCHANGED <<workload, heap, req, offset, page, total>>
  BY DEF ApplyJoin, storeVars, Joined
<1>2. /\ PageRead /\ IsFiniteSet(rows) /\ Cardinality(rows) <= Len(page)
      /\ Len(page) \in Nat /\ total \in Nat /\ offset \in Nat
      /\ pass \in {1, 2}
  BY <1>1 DEF PageRead, RequestOK, PageOK
<1>3. IsFiniteSet(rows') /\ Cardinality(rows') <= Len(page) /\ Cardinality(rows') \in Nat
  <2> DEFINE f == [r \in kept |-> JoinRow(r, join)]
  <2>1. f \in Surjection(kept, rows')
    BY <1>1 DEF Surjection
  <2>2. kept \in SUBSET rows
    OBVIOUS
  <2> HIDE DEF f, kept
  <2>3. IsFiniteSet(kept) /\ Cardinality(kept) <= Cardinality(rows)
    BY <1>2, <2>2, FS_Subset
  <2>4. IsFiniteSet(rows') /\ Cardinality(rows') <= Cardinality(kept)
    BY <2>1, <2>3, FS_Surjection
  <2>5. Cardinality(kept) \in Nat /\ Cardinality(rows) \in Nat /\ Cardinality(rows') \in Nat
    BY <1>2, <2>3, <2>4, FS_CardinalityType
  <2> QED BY <1>2, <2>3, <2>4, <2>5
<1>4. \/ hasMore' = HasMore(Cardinality(rows'), total)
      \/ /\ hasMore' = hasMore /\ pass' = pass
         /\ Counted' => Counted
  BY <1>1, <1>2 DEF ApplyJoin, Counted
<1>5. CASE hasMore' = HasMore(Cardinality(rows'), total)
  <2>3. /\ HasMore(Cardinality(rows'), total) => offset < total
        /\ ~HasMore(Cardinality(rows'), total) => total <= offset + Cardinality(rows')
    BY <1>2, <1>3, MoreFacts
  <2>1. hasMore' => offset' < total'
    BY <1>1, <1>5, <2>3
  <2>5. total <= offset + Cardinality(rows') => total <= offset + Len(page)
    BY <1>2, <1>3
  <2>2. ~hasMore' => total' <= offset' + Len(page')
    BY <1>1, <1>5, <2>3, <2>5
  <2> QED BY <1>1, <1>2, <1>3, <2>1, <2>2, WalkKept DEF PageOK, DataInv, PlaceOK
<1>6. CASE hasMore' = hasMore /\ (Counted' => Counted)
  BY <1>1, <1>2, <1>3, <1>6, WalkKept DEF PageOK, DataInv, PlaceOK
<1> QED BY <1>4, <1>5, <1>6

LEMMA PageWalks ==
  ASSUME DataInv, RequestOK, PageOK, WalkEnds, DataInv', NextPage
  PROVE  PageOK' /\ WalkEnds'
<1>1. /\ pc = "answer" /\ pc' = "read" /\ req.walk /\ hasMore
      /\ offset' = offset + req.limit
      /\ UNCHANGED <<workload, heap, req>>
  BY DEF NextPage, storeVars
<1>2. req.limit \in Nat /\ req.handler \in PageRequests /\ offset \in Nat /\ total \in Nat
  BY <1>1, QueryFacts DEF DataInv, PlaceOK, RequestOK
<1>3. offset < total /\ total <= Cardinality(DOMAIN heap)
  BY <1>1, <1>2 DEF PageOK, PageRead, Counted
<1>4. Cardinality(DOMAIN heap) \in Nat
  BY FiniteStore DEF DataInv
<1>5. offset' < Cardinality(DOMAIN heap') + req'.limit
  BY <1>1, <1>2, <1>3, <1>4
<1>6. WalkEnds'
  BY <1>5 DEF WalkEnds
<1>7. PageOK'
  BY <1>1 DEF PageOK, PageRead
<1> QED BY <1>6, <1>7

-----------------------------------------------------------------------------
(* What the steps are to a query. *)

(* A step of another client. *)
OthersStep ==
  /\ OthersChange /\ DOMAIN heap \subseteq DOMAIN heap'
  /\ DOMAIN stamps' \subseteq DOMAIN stamps \cup DOMAIN Work.inserts
  /\ UNCHANGED <<workload, requestVars, seen, copies>>
  /\ \A i \in DOMAIN heap : heap'[i] = heap[i] \/ i \in live'
  /\ Remember \/ UNCHANGED <<live, heap, walkVars, joinVars>>

BeginStep(q) ==
  \/ q.handler \in PageRequests \cup {"count"} /\ Begin(q, "read")
  \/ /\ q.handler \in DataRequests
     /\ \E place \in {"stamp", "get", "update", "find"} : Begin(q, place)

EndStep == End /\ pc # "insert"

CountStep == ExecuteCountQuery /\ ~CountFails(req)

DataHandlerStep ==
  \/ StampCreate \/ CommitCreate \/ AnswerNewest \/ GetByType \/ UpdateNamed
  \/ TryFormat \/ InspectEntities \/ DeleteFound

LEMMA OthersSteps ==
  ASSUME DataInv, DataNext,
         \/ \E i \in IDs : StampInsert(i) \/ CommitInsert(i) \/ Delete(i)
         \/ \E u \in Work.updates : Update(u)
  PROVE  OthersStep
<1> USE DEF DataInv
<1>1. OthersChange
  BY StampInsertChange, CommitInsertChange, DeleteChange, UpdateChange
<1>2. DOMAIN heap \subseteq DOMAIN heap'
  BY <1>1 DEF OthersChange
<1>3. Remember => UNCHANGED <<seen, copies>>
  BY DEF Remember, walkVars, joinVars
<1>4. ASSUME NEW i \in IDs, StampInsert(i)
      PROVE  OthersStep
  <2>1. /\ stamps' = Put(stamps, i, clock) /\ i \in DOMAIN Work.inserts
        /\ UNCHANGED <<workload, live, heap, requestVars, walkVars, joinVars>>
    BY <1>4 DEF StampInsert
  <2>2. DOMAIN stamps' \subseteq DOMAIN stamps \cup DOMAIN Work.inserts
    BY <2>1 DEF Put, Overlay
  <2> QED BY <1>1, <1>2, <2>1, <2>2 DEF OthersStep, walkVars, joinVars
<1>5. ASSUME NEW i \in IDs, CommitInsert(i)
      PROVE  OthersStep
  <2>1. /\ heap' = Put(heap, i, Stamped(Work.inserts[i], stamps[i]))
        /\ stamps' = Restrict(stamps, DOMAIN stamps \ {i}) /\ live' = live \cup {i}
        /\ UNCHANGED <<workload, requestVars>> /\ Remember
    BY <1>5 DEF CommitInsert
  <2>2. DOMAIN stamps' \subseteq DOMAIN stamps
    BY <2>1 DEF Restrict
  <2>3. \A j \in DOMAIN heap : heap'[j] = heap[j] \/ j \in live'
    BY <2>1 DEF Put, Overlay
  <2> QED BY <1>1, <1>2, <1>3, <2>1, <2>2, <2>3 DEF OthersStep
<1>6. ASSUME NEW i \in IDs, Delete(i)
      PROVE  OthersStep
  BY <1>1, <1>2, <1>3, <1>6 DEF Delete, OthersStep
<1>7. ASSUME NEW u \in Work.updates, Update(u)
      PROVE  OthersStep
  <2>1. /\ u.id \in live /\ live' = live
        /\ heap' = [heap EXCEPT ![u.id].fields = Put(@, u.field, u.value)]
        /\ UNCHANGED <<workload, stamps, requestVars>> /\ Remember
    BY <1>7 DEF Update
  <2>2. \A j \in DOMAIN heap : heap'[j] = heap[j] \/ j \in live'
    BY <2>1
  <2> QED BY <1>1, <1>2, <1>3, <2>1, <2>2 DEF OthersStep
<1> QED BY <1>4, <1>5, <1>6, <1>7

LEMMA RequestSteps ==
  ASSUME DataNext
  PROVE  \/ \E i \in IDs : StampInsert(i) \/ CommitInsert(i) \/ Delete(i)
         \/ \E u \in Work.updates : Update(u)
         \/ \E q \in Work.queries : BeginStep(q)
         \/ EndStep \/ ReadPage \/ CopyRows \/ ReadTargets \/ ApplyJoin
         \/ CountStep \/ NextPage \/ DataHandlerStep
<1>1. ASSUME NEW q \in Work.queries,
             \/ HandleListEntities(q) \/ HandleQuery(q)
             \/ HandleNestedQuery(q) \/ HandleCountQuery(q)
      PROVE  BeginStep(q)
  BY <1>1 DEF HandleListEntities, HandleQuery, HandleNestedQuery, HandleCountQuery,
              BeginStep, PageRequests
<1>2. ASSUME NEW q \in Work.queries,
             \/ HandleCreateEntity(q) \/ HandleGetEntity(q)
             \/ HandleUpdateEntity(q) \/ HandleDeleteEntity(q)
      PROVE  BeginStep(q)
  BY <1>2 DEF HandleCreateEntity, HandleGetEntity, HandleUpdateEntity,
              HandleDeleteEntity, Arrives, BeginStep, DataRequests
<1>3. Fail \/ Answer => EndStep
  BY DEF Fail, Answer, EndStep
<1>4. ExecuteCountQuery => EndStep \/ CountStep
  BY DEF ExecuteCountQuery, EndStep, CountStep
<1> QED BY <1>1, <1>2, <1>3, <1>4 DEF DataNext, Next, DataHandlerStep

LEMMA QuerySteps ==
  ASSUME DataInv, DataNext
  PROVE  \/ OthersStep \/ \E q \in Work.queries : BeginStep(q)
         \/ EndStep \/ ReadPage \/ CopyRows \/ ReadTargets \/ ApplyJoin
         \/ CountStep \/ NextPage \/ DataHandlerStep
BY RequestSteps, OthersSteps

(* A page request is not at work before its page is read, nor after its end. *)
LEMMA NotWalking ==
  ASSUME DataInv, RequestOK,
         EndStep \/ CountStep \/ DataHandlerStep
  PROVE  /\ ~(pc' # "idle" /\ req'.handler \in PageRequests)
         /\ ~DataHandlerStep => UNCHANGED <<live, heap>>
<1>1. CASE EndStep
  BY <1>1 DEF EndStep, End, storeVars
<1>2. CASE CountStep
  BY <1>2 DEF CountStep, ExecuteCountQuery, PageRequests, End, storeVars
<1>3. CASE DataHandlerStep
  <2>1. pc \in DataPlaces /\ req' = req
    BY <1>3 DEF DataHandlerStep, StampCreate, CommitCreate, AnswerNewest, GetByType,
       UpdateNamed, TryFormat, InspectEntities, DeleteFound, DataPlaces, Answers
  <2>2. req.handler \in DataRequests
    BY <2>1 DEF DataInv, PlaceOK, DataPlaces, DataRequests
  <2> QED BY <1>3, <2>1, <2>2 DEF DataRequests, PageRequests
<1> QED BY <1>1, <1>2, <1>3

LEMMA RequestStep ==
  ASSUME DataInv, RequestOK, [DataNext]_vars
  PROVE  RequestOK'
<1>1. CASE OthersStep
  BY <1>1, RequestOthers DEF OthersStep
<1>2. ASSUME NEW q \in Work.queries, BeginStep(q)
      PROVE  RequestOK'
  <2>1. PICK place \in {"read", "stamp", "get", "update", "find"} :
          /\ Begin(q, place)
          /\ q.handler \in PageRequests \cup {"count"} \cup DataRequests
    BY <1>2 DEF BeginStep
  <2> QED BY <2>1, RequestBegins
<1>3. CASE EndStep
  BY <1>3, RequestEnds DEF EndStep
<1>4. CASE ReadPage \/ CopyRows \/ ReadTargets \/ ApplyJoin \/ NextPage
  BY <1>4, RequestReads, RequestCopies, RequestTargets, RequestJoins, RequestWalks
<1>5. CASE CountStep
  BY <1>5, RequestCounts DEF CountStep
<1>6. CASE DataHandlerStep
  BY <1>6, RequestDataSteps DEF DataHandlerStep
<1>7. CASE UNCHANGED vars
  BY <1>7 DEF vars, storeVars, requestVars, walkVars, joinVars, RequestOK, Work
<1> QED BY <1>1, <1>2, <1>3, <1>4, <1>5, <1>6, <1>7, QuerySteps

LEMMA PageStep ==
  ASSUME DataInv, DataInv', RequestOK, PageOK, WalkEnds, [DataNext]_vars
  PROVE  PageOK' /\ WalkEnds'
<1> USE DEF DataInv, PlaceOK
<1>1. CASE OthersStep
  BY <1>1, PageKept DEF OthersStep, requestVars
<1>2. ASSUME NEW q \in Work.queries, BeginStep(q)
      PROVE  PageOK' /\ WalkEnds'
  <2>1. /\ pc' \in {"read", "stamp", "get", "update", "find"}
        /\ req' = q /\ offset' = q.offset
    BY <1>2 DEF BeginStep, Begin
  <2> QED BY <2>1 DEF PageOK, PageRead, WalkEnds
<1>3. CASE EndStep
  BY <1>3 DEF EndStep, End, PageOK, PageRead, WalkEnds, Idle
<1>4. CASE ReadPage \/ CopyRows \/ ApplyJoin \/ NextPage
  BY <1>4, PageReads, PageCopies, PageJoins, PageWalks
<1>5. CASE ReadTargets
  <2>1. /\ pc = "join" /\ pc' = "apply"
        /\ UNCHANGED <<workload, heap, req, offset, page, rows, pass, total, hasMore>>
    BY <1>5 DEF ReadTargets, storeVars
  <2>2. PageOK'
    BY <2>1 DEF PageOK, PageRead, Counted
  <2> QED BY <2>1, <2>2, WalkKept
<1>6. CASE CountStep
  <2>1. /\ pc = "read" /\ req.handler = "count"
        /\ UNCHANGED <<workload, heap, req, offset>>
    BY <1>6 DEF CountStep, ExecuteCountQuery, End, storeVars
  <2>2. PageOK'
    BY <1>6, NotWalking DEF PageOK, PageRead
  <2> QED BY <2>1, <2>2, WalkKept
<1>7. CASE DataHandlerStep
  <2>1. /\ pc # "idle" /\ UNCHANGED <<workload, req, offset>>
        /\ DOMAIN heap \subseteq DOMAIN heap'
    BY <1>7 DEF DataHandlerStep, StampCreate, CommitCreate, AnswerNewest, GetByType,
       UpdateNamed, TryFormat, InspectEntities, DeleteFound, Answers, storeVars,
       Put, Overlay
  <2>2. PageOK'
    BY <1>7, NotWalking DEF PageOK, PageRead
  <2> QED BY <2>1, <2>2, WalkKept
<1>8. CASE UNCHANGED vars
  BY <1>8 DEF vars, storeVars, requestVars, walkVars, joinVars, PageOK, PageRead,
     Counted, WalkEnds, Idle
<1> QED BY <1>1, <1>2, <1>3, <1>4, <1>5, <1>6, <1>7, <1>8, QuerySteps

-----------------------------------------------------------------------------
(* The walk through the pages. *)

(* What Query selects now, and what the client was shown. *)
Selection == Filtered(req, live, heap)

WasRead == ToSet(seen \o page)

(* How much of the result the pages so far stand for. *)
UpTo == IF pc = "read" THEN offset ELSE offset + Len(page)

Walking == pc # "idle" /\ req.handler \in PageRequests

(* What was read has its places before the next page. *)
NothingTwice ==
  Walking /\ ~pushed =>
    /\ ~Tied(req, live, heap)
    /\ IsInjective(seen \o page)
    /\ Cardinality(Down(req, Selection, WasRead, heap)) <= UpTo

(* What was not read and is there all the time comes after what was read. *)
NothingLeft ==
  Walking /\ req.walk /\ ~pulled =>
    /\ ~Tied(req, live, heap)
    /\ WasRead \subseteq Selection /\ stable \subseteq Selection
    /\ Behind(req, stable, WasRead, heap)
    /\ \/ stable \subseteq WasRead
       \/ /\ UpTo <= Cardinality(Down(req, Selection, WasRead, heap))
          /\ pc # "read" => Len(page) = req.limit
    /\ pc # "read" /\ total <= offset + Len(page) => stable \subseteq WasRead

LEMMA ConcatFacts ==
  ASSUME NEW S, NEW s \in Seq(S), NEW p \in Seq(S)
  PROVE  /\ s \o <<>> = s
         /\ ToSet(s \o p) = ToSet(s) \cup ToSet(p)
         /\ (/\ IsInjective(s)
             /\ \A k \in 1..Len(p) : p[k] \notin ToSet(s)
             /\ \A j, k \in 1..Len(p) : p[j] = p[k] => j = k)
            => IsInjective(s \o p)
<1>1. Len(s) \in Nat /\ Len(p) \in Nat /\ DOMAIN s = 1..Len(s) /\ DOMAIN p = 1..Len(p)
  OBVIOUS
<1>2. /\ s \o p \in Seq(S) /\ Len(s \o p) = Len(s) + Len(p)
      /\ DOMAIN (s \o p) = 1..(Len(s) + Len(p))
  BY <1>1
<1>3. \A m \in 1..Len(s) : (s \o p)[m] = s[m]
  BY <1>1
<1>4. \A k \in 1..Len(p) : Len(s) + k \in 1..(Len(s) + Len(p))
                           /\ (s \o p)[Len(s) + k] = p[k]
  BY <1>1
<1>5. \A m \in 1..(Len(s) + Len(p)) :
        m \in 1..Len(s) \/ (m - Len(s) \in 1..Len(p) /\ m = Len(s) + (m - Len(s)))
  BY <1>1
<1>6. \A m \in 1..Len(s) : m \in 1..(Len(s) + Len(p))
  BY <1>1
<1>7. s \o <<>> = s
  OBVIOUS
<1>8. ToSet(s \o p) = ToSet(s) \cup ToSet(p)
  <2>1. ASSUME NEW m \in 1..(Len(s) + Len(p))
        PROVE  (s \o p)[m] \in ToSet(s) \cup ToSet(p)
    <3>1. CASE m \in 1..Len(s)
      BY <1>1, <1>3, <3>1 DEF ToSet
    <3>2. CASE m - Len(s) \in 1..Len(p) /\ m = Len(s) + (m - Len(s))
      <4>1. PICK k \in 1..Len(p) : m = Len(s) + k
        BY <3>2
      <4> QED BY <1>1, <1>4, <4>1 DEF ToSet
    <3> QED BY <1>5, <3>1, <3>2
  <2>2. ASSUME NEW m \in 1..Len(s)
        PROVE  s[m] \in ToSet(s \o p)
    BY <1>2, <1>3, <1>6 DEF ToSet
  <2>3. ASSUME NEW k \in 1..Len(p)
        PROVE  p[k] \in ToSet(s \o p)
    BY <1>2, <1>4 DEF ToSet
  <2> QED BY <1>1, <1>2, <2>1, <2>2, <2>3 DEF ToSet
<1>9. ASSUME IsInjective(s), \A k \in 1..Len(p) : p[k] \notin ToSet(s),
             \A j, k \in 1..Len(p) : p[j] = p[k] => j = k
      PROVE  IsInjective(s \o p)
  <2>1. \A m, n \in 1..Len(s) : s[m] = s[n] => m = n
    BY <1>1, <1>9 DEF IsInjective
  <2>2. \A m \in 1..Len(s), k \in 1..Len(p) : s[m] # p[k]
    BY <1>1, <1>9 DEF ToSet
  <2>3. ASSUME NEW m \in 1..(Len(s) + Len(p)), NEW n \in 1..(Len(s) + Len(p)),
               (s \o p)[m] = (s \o p)[n]
        PROVE  m = n
    <3>1. CASE m \in 1..Len(s) /\ n \in 1..Len(s)
      BY <1>3, <2>1, <2>3, <3>1
    <3>2. CASE m \in 1..Len(s) /\ n \notin 1..Len(s)
      BY <1>3, <1>4, <1>5, <2>2, <2>3, <3>2
    <3>3. CASE m \notin 1..Len(s) /\ n \in 1..Len(s)
      BY <1>3, <1>4, <1>5, <2>2, <2>3, <3>3
    <3>4. CASE m \notin 1..Len(s) /\ n \notin 1..Len(s)
      <4>1. PICK j \in 1..Len(p) : m = Len(s) + j
        BY <1>5, <3>4
      <4>2. PICK k \in 1..Len(p) : n = Len(s) + k
        BY <1>5, <3>4
      <4>3. p[j] = p[k]
        BY <1>4, <2>3, <4>1, <4>2
      <4> QED BY <1>9, <4>1, <4>2, <4>3
    <3> QED BY <3>1, <3>2, <3>3, <3>4
  <2> QED BY <1>2, <2>3 DEF IsInjective
<1> QED BY <1>7, <1>8, <1>9

LEMMA EmptyWalk ==
  /\ IsInjective(<<>> \o <<>>) /\ ToSet(<<>> \o <<>>) = {}
<1>1. <<>> \o <<>> = <<>>
  OBVIOUS
<1> QED BY <1>1 DEF IsInjective, ToSet

LEMMA DownFacts ==
  ASSUME NEW q, NEW S, S \subseteq IDs, NEW R, NEW H
  PROVE  /\ Down(q, S, R, H) \subseteq S /\ IsFiniteSet(Down(q, S, R, H))
         /\ Cardinality(Down(q, S, R, H)) \in Nat
         /\ R = {} => Cardinality(Down(q, S, R, H)) = 0
<1>1. Down(q, S, R, H) \subseteq S
  BY DEF Down
<1>2. IsFiniteSet(Down(q, S, R, H)) /\ Cardinality(Down(q, S, R, H)) \in Nat
  BY <1>1, FiniteIDs
<1>3. R = {} => Down(q, S, R, H) = {}
  BY DEF Down
<1> QED BY <1>1, <1>2, <1>3, FS_EmptySet

(* Every pair of entities that are not tied is in one order only. *)
LEMMA UntiedOnce ==
  ASSUME NEW q, NEW L, NEW H, ~Tied(q, L, H)
  PROVE  \A i, j \in Filtered(q, L, H) :
           i # j => ~(Before(q, i, j, H) /\ Before(q, j, i, H))
BY DEF Tied

LEMMA TwiceOthers ==
  ASSUME DataInv, DataInv', RequestOK, NothingTwice, OthersStep, Remember
  PROVE  NothingTwice'
<1>1. SUFFICES ASSUME Walking', ~pushed'
               PROVE  NothingTwice'
  BY DEF NothingTwice
<1>2. UNCHANGED <<pc, req, offset, page, total, hasMore, seen>>
  BY DEF OthersStep, requestVars
<1>3. PICK q, S, H, R : q = req /\ S = Selection /\ H = heap /\ R = WasRead
  OBVIOUS
<1>4. PICK S2, H2 : S2 = Filtered(req, live', heap') /\ H2 = heap'
  OBVIOUS
<1>5. Walking /\ Selection' = S2 /\ WasRead' = R /\ UpTo' = UpTo /\ req' = q
  BY <1>1, <1>2, <1>3, <1>4 DEF Walking, Selection, WasRead, UpTo
<1>6. /\ ~pushed /\ ~Tied(q, live', H2)
      /\ \A i \in S2 :
           \/ i \in S /\ OrderValue(q, i, H) = OrderValue(q, i, H2)
           \/ ~\E j \in R : i = j \/ ~Before(q, j, i, H2)
  <2>1. ~Idle
    BY <1>5 DEF Walking, Idle
  <2>2. /\ ~pushed /\ ~Tied(req, live', heap')
        /\ \A i \in Filtered(req, live', heap') :
             \/ /\ i \in Filtered(req, live, heap)
                /\ OrderValue(req, i, heap) = OrderValue(req, i, heap')
             \/ ~BeforeSeen(i, heap')
    BY <1>1, <2>1 DEF Remember
  <2> QED BY <1>3, <1>4, <2>2 DEF BeforeSeen, Selection, WasRead
<1>7. \A i, j \in S2 : i # j => ~(Before(q, i, j, H2) /\ Before(q, j, i, H2))
  <2>1. ~Tied(req, live', heap')
    BY <1>3, <1>4, <1>6
  <2> QED BY <1>3, <1>4, <2>1, UntiedOnce
<1>8. Down(q, S2, R, H2) \subseteq Down(q, S, R, H)
  BY <1>6, <1>7, NothingInFront
<1>9. S \subseteq IDs
  BY <1>3 DEF Selection, Filtered, OfType, DataInv, StoreOK
<1>10. IsInjective(seen \o page) /\ Cardinality(Down(q, S, R, H)) <= UpTo
  BY <1>3, <1>5, <1>6 DEF NothingTwice
<1>11. Cardinality(Down(q, S2, R, H2)) <= UpTo
  <2>1. Down(q, S, R, H) \subseteq IDs
    BY <1>9, DownFacts
  <2>2. /\ Cardinality(Down(q, S, R, H)) \in Nat /\ Cardinality(Down(q, S2, R, H2)) \in Nat
        /\ Cardinality(Down(q, S2, R, H2)) <= Cardinality(Down(q, S, R, H))
    BY <1>8, <2>1, FiniteIDs
  <2>3. UpTo \in Nat
    BY DEF UpTo, RequestOK
  <2> QED BY <1>10, <2>2, <2>3
<1>12. ~Tied(req', live', heap') /\ IsInjective(seen' \o page')
  BY <1>2, <1>3, <1>4, <1>6, <1>10
<1> QED BY <1>4, <1>5, <1>11, <1>12 DEF NothingTwice

LEMMA LeftOthers ==
  ASSUME DataInv, DataInv', RequestOK, NothingLeft, OthersStep, Remember
  PROVE  NothingLeft'
<1>1. SUFFICES ASSUME Walking', req'.walk, ~pulled'
               PROVE  NothingLeft'
  BY DEF NothingLeft
<1>2. UNCHANGED <<pc, req, offset, page, total, hasMore, seen>>
  BY DEF OthersStep, requestVars
<1>3. PICK q, S, H, R, K :
        q = req /\ S = Selection /\ H = heap /\ R = WasRead /\ K = stable
  OBVIOUS
<1>4. PICK S2, H2, K2 :
        S2 = Filtered(req, live', heap') /\ H2 = heap' /\ K2 = stable'
  OBVIOUS
<1>5. /\ Walking /\ Selection' = S2 /\ WasRead' = R /\ UpTo' = UpTo /\ req' = q
      /\ req.walk
  BY <1>1, <1>2, <1>3, <1>4 DEF Walking, Selection, WasRead, UpTo
<1>6. /\ ~pulled /\ ~Tied(q, live', H2)
      /\ \A i \in S :
           \/ i \in S2 /\ OrderValue(q, i, H) = OrderValue(q, i, H2)
           \/ ~\E j \in R : i = j \/ ~Before(q, j, i, H)
      /\ \A i \in K2 : i \in K /\ i \in S2
      /\ \A i \in K2 \cap S : OrderValue(q, i, H) = OrderValue(q, i, H2)
  <2>1. ~Idle
    BY <1>5 DEF Walking, Idle
  <2>2. /\ ~pulled /\ ~Tied(req, live', heap')
        /\ \A i \in Filtered(req, live, heap) :
             \/ /\ i \in Filtered(req, live', heap')
                /\ OrderValue(req, i, heap) = OrderValue(req, i, heap')
             \/ ~BeforeSeen(i, heap)
        /\ \A i \in stable' : i \in stable /\ i \in Filtered(req, live', heap')
        /\ \A i \in stable' \cap Filtered(req, live, heap) :
             OrderValue(req, i, heap) = OrderValue(req, i, heap')
    BY <1>1, <2>1 DEF Remember
  <2> QED BY <1>3, <1>4, <2>2 DEF BeforeSeen, Selection, WasRead
<1>7. /\ ~Tied(q, live, H) /\ R \subseteq S /\ K \subseteq S
      /\ Behind(q, K, R, H)
      /\ \/ K \subseteq R
         \/ UpTo <= Cardinality(Down(q, S, R, H)) /\ (pc # "read" => Len(page) = q.limit)
      /\ pc # "read" /\ total <= offset + Len(page) => K \subseteq R
  BY <1>3, <1>5, <1>6 DEF NothingLeft
<1>8. \A i, j \in S : i # j => ~(Before(q, i, j, H) /\ Before(q, j, i, H))
  <2>1. ~Tied(req, live, heap)
    BY <1>3, <1>7
  <2> QED BY <1>3, <2>1, UntiedOnce DEF Selection
<1>9. Down(q, S, R, H) \subseteq Down(q, S2, R, H2)
  BY <1>6, <1>8, NothingGone
<1>10. /\ R \subseteq S2 /\ K2 \subseteq S2 /\ K2 \subseteq K
       /\ \A j \in R : OrderValue(q, j, H) = OrderValue(q, j, H2)
  BY <1>6, <1>7
<1>11. ASSUME NEW i \in K2 \ R, NEW j \in R
       PROVE  Before(q, j, i, H2)
  <2>1. i \in K \ R /\ i \in S
    BY <1>7, <1>10
  <2>2. OrderValue(q, i, H) = OrderValue(q, i, H2)
    BY <1>6, <2>1
  <2>3. Before(q, j, i, H)
    BY <1>7, <2>1 DEF Behind
  <2>4. OrderValue(q, j, H) = OrderValue(q, j, H2)
    BY <1>10
  <2> QED BY <2>2, <2>3, <2>4, SamePlaces
<1>15. Behind(q, K2, R, H2)
  BY <1>11 DEF Behind
<1>12. UpTo <= Cardinality(Down(q, S, R, H)) => UpTo <= Cardinality(Down(q, S2, R, H2))
  <2>1. S2 \subseteq IDs
    BY <1>4 DEF Filtered, OfType, DataInv, StoreOK
  <2>2. Down(q, S2, R, H2) \subseteq IDs
    BY <2>1, DownFacts
  <2>3. /\ Cardinality(Down(q, S, R, H)) \in Nat /\ Cardinality(Down(q, S2, R, H2)) \in Nat
        /\ Cardinality(Down(q, S, R, H)) <= Cardinality(Down(q, S2, R, H2))
    BY <1>9, <2>2, FiniteIDs
  <2>4. UpTo \in Nat
    BY DEF UpTo, RequestOK
  <2> QED BY <2>3, <2>4
<1>13. ~Tied(req', live', heap')
  BY <1>4, <1>5, <1>6
<1>14. /\ \/ stable' \subseteq WasRead'
          \/ /\ UpTo' <= Cardinality(Down(req', Selection', WasRead', heap'))
             /\ pc' # "read" => Len(page') = req'.limit
       /\ pc' # "read" /\ total' <= offset' + Len(page') => stable' \subseteq WasRead'
  BY <1>2, <1>4, <1>5, <1>7, <1>10, <1>12
<1> QED BY <1>4, <1>5, <1>10, <1>13, <1>14, <1>15 DEF NothingLeft

LEMMA WalkSame ==
  ASSUME NothingTwice, NothingLeft,
         UNCHANGED <<live, heap, req, offset, page, seen, stable, pushed, pulled, total>>,
         pc' = pc \/ (pc \notin {"idle", "read"} /\ pc' # "read")
  PROVE  NothingTwice' /\ NothingLeft'
<1>1. Walking' => Walking
  BY DEF Walking
<1>2. (pc' = "read") = (pc = "read")
  OBVIOUS
<1>3. Selection' = Selection /\ WasRead' = WasRead /\ UpTo' = UpTo
  BY <1>2 DEF Selection, WasRead, UpTo
<1>4. NothingTwice'
  BY <1>1, <1>3 DEF NothingTwice
<1>5. NothingLeft'
  BY <1>1, <1>2, <1>3 DEF NothingLeft
<1> QED BY <1>4, <1>5

LEMMA WalkBegins ==
  ASSUME DataInv, RequestOK, NEW q \in Work.queries, BeginStep(q)
  PROVE  NothingTwice' /\ NothingLeft'
<1>1. CASE q.handler \in PageRequests \cup {"count"} /\ Begin(q, "read")
  <2>1. /\ pc = "idle" /\ pc' = "read" /\ req' = q /\ offset' = q.offset
        /\ seen' = <<>> /\ page' = page /\ stable' = Filtered(q, live, heap)
        /\ pushed' = Tied(q, live, heap) /\ pulled' = Tied(q, live, heap)
        /\ UNCHANGED <<live, heap>>
    BY <1>1 DEF Begin, Idle, storeVars
  <2>2. page' = <<>>
    BY <2>1 DEF RequestOK
  <2>3. WasRead' = {} /\ IsInjective(seen' \o page')
    BY <2>1, <2>2, EmptyWalk DEF WasRead
  <2>4. /\ Selection' = Filtered(q, live, heap) /\ UpTo' = q.offset
    BY <2>1 DEF Selection, UpTo
  <2>5. /\ q.offset \in Nat /\ (q.walk => q.offset = 0)
    BY QueryFacts DEF DataInv, PlaceOK
  <2>6. Filtered(q, live, heap) \subseteq IDs
    BY DEF Filtered, OfType, DataInv, StoreOK
  <2>7. Cardinality(Down(q, Filtered(q, live, heap), {}, heap)) = 0
    BY <2>6, DownFacts
  <2>8. Cardinality(Down(req', Selection', WasRead', heap')) = 0
    BY <2>1, <2>3, <2>4, <2>7
  <2>9. Cardinality(Down(req', Selection', WasRead', heap')) <= UpTo'
    BY <2>4, <2>5, <2>8
  <2>10. req'.walk => UpTo' <= Cardinality(Down(req', Selection', WasRead', heap'))
    BY <2>1, <2>4, <2>5, <2>8
  <2>11. ~pushed' => ~Tied(req', live', heap')
    BY <2>1
  <2>12. ~pulled' => ~Tied(req', live', heap')
    BY <2>1
  <2>13. NothingTwice'
    BY <2>3, <2>9, <2>11 DEF NothingTwice
  <2>15. Behind(req', stable', WasRead', heap')
    BY <2>3 DEF Behind
  <2>14. NothingLeft'
    BY <2>1, <2>3, <2>4, <2>10, <2>12, <2>15 DEF NothingLeft
  <2> QED BY <2>13, <2>14
<1>2. CASE /\ q.handler \in DataRequests
           /\ \E place \in {"stamp", "get", "update", "find"} : Begin(q, place)
  <2>1. req' = q
    BY <1>2 DEF Begin
  <2> QED BY <1>2, <2>1 DEF NothingTwice, NothingLeft, Walking, DataRequests, PageRequests
<1> QED BY <1>1, <1>2 DEF BeginStep

(* The page that is read. *)
LEMMA WalkReads ==
  ASSUME DataInv, RequestOK, NothingTwice, NothingLeft, ReadPage
  PROVE  NothingTwice' /\ NothingLeft'
<1>1. /\ pc = "read" /\ pc' \in {"copy", "answer"}
      /\ UNCHANGED <<workload, live, heap, req, offset, seen, stable, pushed, pulled>>
  BY DEF ReadPage, storeVars, walkVars
<1>10. PICK s \in Sorted(req, live, heap) :
         /\ page' = Slice(s, offset, req.limit)
         /\ total' = Len(s) /\ page' \in Seq(DOMAIN heap)
  BY ReadPageFacts
<1>2. PICK p : /\ p = page' /\ p = Slice(s, offset, req.limit)
               /\ total' = Len(s) /\ p \in Seq(DOMAIN heap)
  BY <1>10
<1>3. /\ offset \in Nat /\ req.limit \in Nat /\ seen \in Seq(DOMAIN heap)
      /\ page = <<>> /\ (req.walk => req.limit > 0)
  BY <1>1, QueryFacts DEF DataInv, PlaceOK, RequestOK
<1>4. PICK q, S, H, R, K :
        q = req /\ S = Selection /\ H = heap /\ R = ToSet(seen) /\ K = stable
  OBVIOUS
<1>5. /\ WasRead = R /\ UpTo = offset /\ seen \o page = seen
      /\ WasRead' = R \cup ToSet(p) /\ UpTo' = offset + Len(p) /\ Selection' = S
  <2>1. ToSet(seen \o p) = ToSet(seen) \cup ToSet(p) /\ seen \o <<>> = seen
    BY <1>2, <1>3, ConcatFacts
  <2> QED BY <1>1, <1>2, <1>3, <1>4, <2>1 DEF WasRead, UpTo, Selection
<1>6. IsFiniteSet(S)
  <2>1. S \subseteq IDs
    BY <1>4 DEF Selection, Filtered, OfType, DataInv, StoreOK
  <2> QED BY <2>1, FiniteIDs
<1>7. ~Tied(q, live, H) => Lined(q, s, S, H)
  BY <1>4, <1>6, SortedLined DEF Selection
<1>8. NothingTwice'
  <2>1. SUFFICES ASSUME Walking', ~pushed'
                 PROVE  NothingTwice'
    BY DEF NothingTwice
  <2>2. /\ ~Tied(q, live, H) /\ IsInjective(seen)
        /\ Cardinality(Down(q, S, R, H)) <= offset
    BY <1>1, <1>4, <1>5, <2>1 DEF NothingTwice, Walking
  <2>3. /\ \A k \in 1..Len(p) : p[k] \notin R
        /\ \A j, k \in 1..Len(p) : p[j] = p[k] => j = k
        /\ Cardinality(Down(q, S, R \cup ToSet(p), H)) <= offset + Len(p)
    <3>1. Lined(q, s, S, H) /\ p = Slice(s, offset, req.limit)
      BY <1>2, <1>7, <2>2
    <3>2. offset \in Nat /\ req.limit \in Nat
      BY <1>3
    <3>3. Cardinality(Down(q, S, R, H)) <= offset
      BY <2>2
    <3>4. PICK from \in Nat, limit \in Nat : from = offset /\ limit = req.limit
      BY <3>2
    <3>5. p = Slice(s, from, limit)
      BY <3>1, <3>4
    <3>7. Cardinality(Down(q, S, R, H)) <= from
      BY <3>3, <3>4
    <3>8. Lined(q, s, S, H)
      BY <3>1
    <3>6. AddsNothing(q, S, H, p, R, from)
      BY ONLY <3>5, <3>7, <3>8, NextPageNew, from \in Nat, limit \in Nat
    <3>9. AddsNothing(q, S, H, p, R, offset)
      BY <3>4, <3>6
    <3> QED BY <3>9 DEF AddsNothing
  <2>4. IsInjective(seen \o p)
    BY <1>2, <1>3, <1>4, <2>2, <2>3, ConcatFacts
  <2> QED BY <1>1, <1>2, <1>4, <1>5, <2>2, <2>3, <2>4 DEF NothingTwice
<1>9. NothingLeft'
  <2>1. SUFFICES ASSUME Walking', req'.walk, ~pulled'
                 PROVE  NothingLeft'
    BY DEF NothingLeft
  <2>2. /\ ~Tied(q, live, H) /\ R \subseteq S /\ K \subseteq S
        /\ Behind(q, K, R, H)
        /\ K \subseteq R \/ offset <= Cardinality(Down(q, S, R, H))
    BY <1>1, <1>4, <1>5, <2>1 DEF NothingLeft, Walking
  <2>3. PICK T : T = R \cup ToSet(p)
    OBVIOUS
  <2>4. /\ T \subseteq S
        /\ Behind(q, K, T, H)
        /\ \/ K \subseteq T
           \/ /\ offset + Len(p) <= Cardinality(Down(q, S, T, H))
              /\ Len(p) = req.limit
        /\ Len(s) <= offset + Len(p) => K \subseteq T
    <3>1. Lined(q, s, S, H) /\ p = Slice(s, offset, req.limit)
      BY <1>2, <1>7, <2>2
    <3>2. req.limit > 0
      BY <1>1, <1>3, <2>1
    <3>3. offset \in Nat /\ req.limit \in Nat
      BY <1>3
    <3>4. PICK from \in Nat, limit \in Nat : from = offset /\ limit = req.limit
      BY <3>3
    <3>5. p = Slice(s, from, limit) /\ limit > 0
      BY <3>1, <3>2, <3>4
    <3>6. Lined(q, s, S, H)
      BY <3>1
    <3>7. Apace(q, S, K, R, H, from)
      BY <2>2, <3>4 DEF Apace
    <3>8. /\ Apace(q, S, K, R \cup ToSet(p), H, from + Len(p))
          /\ AllShown(K, R, p) \/ Len(p) = limit
          /\ Len(s) <= from + Len(p) => AllShown(K, R, p)
      BY ONLY <3>5, <3>6, <3>7, NextPageWhole, from \in Nat, limit \in Nat
    <3> QED BY <2>3, <3>4, <3>8 DEF Apace, AllShown
  <2>5. WasRead' = T /\ Selection' = S /\ stable' = K /\ req' = q /\ heap' = H
    BY <1>1, <1>4, <1>5, <2>3
  <2>6. /\ \/ stable' \subseteq WasRead'
           \/ /\ UpTo' <= Cardinality(Down(req', Selection', WasRead', heap'))
              /\ pc' # "read" => Len(page') = req'.limit
        /\ pc' # "read" /\ total' <= offset' + Len(page') => stable' \subseteq WasRead'
    BY <1>1, <1>2, <1>4, <1>5, <2>4, <2>5
  <2>7. ~Tied(req', live', heap')
    BY <1>1, <1>4, <2>2
  <2> QED BY <2>2, <2>4, <2>5, <2>6, <2>7 DEF NothingLeft
<1> QED BY <1>8, <1>9

(* The next page is asked for. *)
LEMMA WalkGoesOn ==
  ASSUME DataInv, RequestOK, PageOK, NothingTwice, NothingLeft, NextPage
  PROVE  NothingTwice' /\ NothingLeft'
<1>1. /\ pc = "answer" /\ pc' = "read" /\ req.walk /\ hasMore
      /\ seen' = seen \o page /\ offset' = offset + req.limit /\ page' = <<>>
      /\ UNCHANGED <<workload, live, heap, req, stable, pushed, pulled>>
  BY DEF NextPage, storeVars
<1>2. /\ req.handler \in PageRequests /\ req.limit \in Nat /\ req.limit > 0
      /\ offset \in Nat /\ Len(page) \in Nat
      /\ seen \in Seq(DOMAIN heap) /\ page \in Seq(DOMAIN heap)
  BY <1>1, QueryFacts DEF DataInv, PlaceOK, RequestOK
<1>3. seen' \o page' = seen \o page
  <2>1. seen' \in Seq(DOMAIN heap)
    BY <1>1, <1>2
  <2> QED BY <1>1, <2>1, ConcatFacts
<1>4. WasRead' = WasRead /\ Selection' = Selection
  BY <1>1, <1>3 DEF WasRead, Selection
<1>5. UpTo = offset + Len(page) /\ UpTo' = offset + req.limit
  BY <1>1 DEF UpTo
<1>6. Len(page) <= req.limit
  BY <1>1, <1>2 DEF PageOK, PageRead
<1>7. Walking
  BY <1>1, <1>2 DEF Walking
<1>8. NothingTwice'
  <2>1. SUFFICES ASSUME ~pushed'
                 PROVE  NothingTwice'
    BY DEF NothingTwice
  <2>2. /\ ~Tied(req, live, heap) /\ IsInjective(seen \o page)
        /\ Cardinality(Down(req, Selection, WasRead, heap)) <= offset + Len(page)
    BY <1>1, <1>5, <1>7, <2>1 DEF NothingTwice
  <2>3. Cardinality(Down(req, Selection, WasRead, heap)) \in Nat
    <3>1. Selection \subseteq IDs
      BY DEF Selection, Filtered, OfType, DataInv, StoreOK
    <3> QED BY <3>1, DownFacts
  <2>4. Cardinality(Down(req, Selection, WasRead, heap)) <= offset + req.limit
    BY <1>2, <1>6, <2>2, <2>3
  <2> QED BY <1>1, <1>3, <1>4, <1>5, <2>2, <2>4 DEF NothingTwice
<1>9. NothingLeft'
  <2>1. SUFFICES ASSUME ~pulled'
                 PROVE  NothingLeft'
    BY DEF NothingLeft
  <2>2. /\ ~Tied(req, live, heap) /\ WasRead \subseteq Selection /\ stable \subseteq Selection
        /\ Behind(req, stable, WasRead, heap)
        /\ \/ stable \subseteq WasRead
           \/ /\ offset + Len(page) <= Cardinality(Down(req, Selection, WasRead, heap))
              /\ Len(page) = req.limit
    BY <1>1, <1>5, <1>7, <2>1 DEF NothingLeft
  <2>3. \/ stable' \subseteq WasRead'
        \/ UpTo' <= Cardinality(Down(req', Selection', WasRead', heap'))
    BY <1>1, <1>4, <1>5, <2>2
  <2> QED BY <1>1, <1>4, <2>2, <2>3 DEF NothingLeft
<1> QED BY <1>8, <1>9

LEMMA WalkStep ==
  ASSUME DataInv, DataInv', RequestOK, PageOK, NothingTwice, NothingLeft,
         [DataNext]_vars
  PROVE  NothingTwice' /\ NothingLeft'
<1>1. CASE OthersStep /\ Remember
  BY <1>1, TwiceOthers, LeftOthers
<1>2. CASE OthersStep /\ ~Remember
  BY <1>2, WalkSame DEF OthersStep, requestVars, walkVars
<1>3. CASE \E q \in Work.queries : BeginStep(q)
  BY <1>3, WalkBegins
<1>4. CASE EndStep \/ CountStep \/ DataHandlerStep
  BY <1>4, NotWalking DEF NothingTwice, NothingLeft, Walking
<1>5. CASE ReadPage \/ NextPage
  BY <1>5, WalkReads, WalkGoesOn
<1>6. CASE CopyRows
  BY <1>6, WalkSame DEF CopyRows, storeVars, walkVars
<1>7. CASE ReadTargets
  BY <1>7, WalkSame DEF ReadTargets, storeVars, walkVars
<1>8. CASE ApplyJoin
  <2>1. /\ pc = "apply" /\ pc' \in {"join", "answer"}
        /\ UNCHANGED <<live, heap, req, offset, page, seen, stable, pushed, pulled, total>>
    BY <1>8 DEF ApplyJoin, storeVars, walkVars
  <2> QED BY <2>1, WalkSame
<1>9. CASE UNCHANGED vars
  BY <1>9, WalkSame DEF vars, storeVars, requestVars, walkVars
<1> QED BY <1>1, <1>2, <1>3, <1>4, <1>5, <1>6, <1>7, <1>8, <1>9, QuerySteps

-----------------------------------------------------------------------------
(* Keys. *)

LEMMA NormalizedText ==
  ASSUME NEW n \in 0..9
  PROVE  /\ NormalizeForJoinComparison(<<"str", DecimalText(n)>>) = <<"num", n>>
         /\ NormalizeForJoinComparison(<<"num", n>>) = <<"num", n>>
<1>1. (48 + n) - 48 = n
  OBVIOUS
<1>2. \A m \in 0..9 : <<"num", n>> # <<"str", DecimalText(m)>>
  <2>1. "num" # "str"
    OBVIOUS
  <2> QED BY <2>1
<1> QED BY <1>1, <1>2 DEF NormalizeForJoinComparison, DecimalText

LEMMA SameKeys ==
  ASSUME NEW v, NEW w
  PROVE  SameKey(v, w) <=>
           NormalizeForJoinComparison(v) = NormalizeForJoinComparison(w)
<1> DEFINE Text(x) == \E n \in 0..9 : x = <<"str", DecimalText(n)>>
<1>1. \A x : ~Text(x) => NormalizeForJoinComparison(x) = x
  BY DEF NormalizeForJoinComparison
<1>2. ASSUME SameKey(v, w)
      PROVE  NormalizeForJoinComparison(v) = NormalizeForJoinComparison(w)
  <2>1. CASE v = w
    BY <2>1
  <2>2. ASSUME NEW n \in 0..9, {v, w} = {<<"num", n>>, <<"str", DecimalText(n)>>}
        PROVE  NormalizeForJoinComparison(v) = NormalizeForJoinComparison(w)
    <3>1. \/ v = <<"num", n>> /\ w = <<"str", DecimalText(n)>>
          \/ w = <<"num", n>> /\ v = <<"str", DecimalText(n)>>
          \/ v = w
      BY <2>2
    <3> QED BY <3>1, NormalizedText
  <2> QED BY <1>2, <2>1, <2>2 DEF SameKey
<1>3. ASSUME NormalizeForJoinComparison(v) = NormalizeForJoinComparison(w)
      PROVE  SameKey(v, w)
  <2>1. CASE ~Text(v) /\ ~Text(w)
    BY <1>1, <1>3, <2>1 DEF SameKey
  <2>2. ASSUME NEW n \in 0..9, v = <<"str", DecimalText(n)>>
        PROVE  SameKey(v, w)
    <3>1. NormalizeForJoinComparison(w) = <<"num", n>>
      BY <1>3, <2>2, NormalizedText
    <3>2. CASE ~Text(w)
      <4>1. w = <<"num", n>>
        BY <1>1, <3>1, <3>2
      <4>2. {v, w} = {<<"num", n>>, <<"str", DecimalText(n)>>}
        BY <2>2, <4>1
      <4> QED BY <4>2 DEF SameKey
    <3>3. ASSUME NEW m \in 0..9, w = <<"str", DecimalText(m)>>
          PROVE  SameKey(v, w)
      <4>1. <<"num", m>> = <<"num", n>>
        BY <3>1, <3>3, NormalizedText
      <4>2. m = n
        BY <4>1
      <4> QED BY <2>2, <3>3, <4>2 DEF SameKey
    <3> QED BY <3>2, <3>3
  <2>3. ASSUME NEW n \in 0..9, w = <<"str", DecimalText(n)>>, ~Text(v)
        PROVE  SameKey(v, w)
    <3>1. v = <<"num", n>>
      BY <1>1, <1>3, <2>3, NormalizedText
    <3>2. {v, w} = {<<"num", n>>, <<"str", DecimalText(n)>>}
      BY <2>3, <3>1
    <3> QED BY <3>2 DEF SameKey
  <2> QED BY <2>1, <2>2, <2>3
<1> QED BY <1>2, <1>3 DEF SameKey

LEMMA Offered ==
  ASSUME NEW q, NEW L, NEW H, NEW n \in DOMAIN q.joins,
         NEW i \in OfType(q.joins[n].type, L, H), HasForeign(i, q.joins[n], H)
  PROVE  <<n, i, ForeignValue(i, q.joins[n], H)>> \in Offers(q, L, H)
<1> DEFINE values(j, join) ==
             IF join.foreign \in DOMAIN H[j].fields THEN {H[j].fields[join.foreign]}
             ELSE IF join.foreign = "id" THEN {IDText(j)} ELSE {}
           offers(m) == {{m} \X {j} \X values(j, q.joins[m]) :
                           j \in OfType(q.joins[m].type, L, H)}
<1>1. Offers(q, L, H) = UNION UNION {offers(m) : m \in DOMAIN q.joins}
  BY DEF Offers
<1>2. ForeignValue(i, q.joins[n], H) \in values(i, q.joins[n])
  BY DEF HasForeign, ForeignValue
<1>3. <<n, i, ForeignValue(i, q.joins[n], H)>> \in {n} \X {i} \X values(i, q.joins[n])
  <2> HIDE DEF values
  <2> QED BY <1>2
<1>4. {n} \X {i} \X values(i, q.joins[n]) \in offers(n)
  OBVIOUS
<1> HIDE DEF offers, values
<1>5. {n} \X {i} \X values(i, q.joins[n]) \in UNION {offers(m) : m \in DOMAIN q.joins}
  BY <1>4
<1> QED BY <1>1, <1>3, <1>5

LEMMA OfferFacts ==
  ASSUME NEW q, NEW L, NEW H, NEW o \in Offers(q, L, H)
  PROVE  /\ o[1] \in DOMAIN q.joins
         /\ HasForeign(o[2], q.joins[o[1]], H)
         /\ o[3] = ForeignValue(o[2], q.joins[o[1]], H)
<1> DEFINE values(j, join) ==
             IF join.foreign \in DOMAIN H[j].fields THEN {H[j].fields[join.foreign]}
             ELSE IF join.foreign = "id" THEN {IDText(j)} ELSE {}
           offers(m) == {{m} \X {j} \X values(j, q.joins[m]) :
                           j \in OfType(q.joins[m].type, L, H)}
<1>1. Offers(q, L, H) = UNION UNION {offers(m) : m \in DOMAIN q.joins}
  BY DEF Offers
<1>2. PICK m \in DOMAIN q.joins : \E T \in offers(m) : o \in T
  <2> HIDE DEF offers
  <2> QED BY <1>1
<1>3. PICK j \in OfType(q.joins[m].type, L, H) :
        o \in {m} \X {j} \X values(j, q.joins[m])
  <2> HIDE DEF values
  <2> QED BY <1>2
<1>4. o[1] = m /\ o[2] = j /\ o[3] \in values(j, q.joins[m])
  <2> HIDE DEF values
  <2> QED BY <1>3
<1>5. /\ HasForeign(j, q.joins[m], H)
      /\ o[3] = ForeignValue(j, q.joins[m], H)
  BY <1>4 DEF HasForeign, ForeignValue
<1> QED BY <1>4, <1>5

-----------------------------------------------------------------------------
(* The joins. *)

IsRow(row) == row = [id |-> row.id, fields |-> row.fields]

(* The joins find the same key in both rows. *)
SameLocals(r, c) ==
  /\ r.id = c.id
  /\ \A n \in DOMAIN req.joins :
       /\ HasLocal(r, req.joins[n]) <=> HasLocal(c, req.joins[n])
       /\ HasLocal(c, req.joins[n]) =>
            LocalValue(r, req.joins[n]) = LocalValue(c, req.joins[n])

(* What the n-th join put into the row was a target with the row's key. *)
Recorded(row, n) ==
  LET join == req.joins[n]
  IN join.result \in DOMAIN row.fields =>
       /\ HasLocal(row, join)
       /\ \A t \in row.fields[join.result][2] :
            \E o \in ever : /\ o[1] = n /\ o[2] = t.id
                            /\ SameKey(o[3], LocalValue(row, join))

Executed(n) == pc = "answer" \/ pass = 2 \/ n < joinNo

(* The targets of the join were offered since the request began, and those
   that were accepted all the time are among them. *)
TargetsOK ==
  pc = "apply" =>
    /\ \A i \in ToSet(targets) :
         /\ heap[i].type = req.joins[joinNo].type
         /\ HasForeign(i, req.joins[joinNo], heap) =>
              <<joinNo, i, ForeignValue(i, req.joins[joinNo], heap)>> \in ever
    /\ \A o \in always : o[1] = joinNo => o[2] \in ToSet(targets)

RowOK(row, n) ==
  /\ Recorded(row, n)
  /\ Executed(n) /\ req.joins[n].inner => req.joins[n].result \in DOMAIN row.fields

RowsOK ==
  /\ \A row \in rows \cup copies : IsRow(row)
  /\ Apart(req) =>
       /\ \A row \in rows, n \in DOMAIN req.joins : RowOK(row, n)
       /\ \A c \in copies : AlwaysJoined(c) => \E r \in rows : SameLocals(r, c)

JoinOK ==
  Walking =>
    /\ Offers(req, live, heap) \subseteq ever
    /\ always \subseteq Accepted(req, live, heap)
    /\ TargetsOK /\ RowsOK

(* Nothing but the time goes by for the rows. *)
LEMMA RowsSame ==
  ASSUME RowsOK, UNCHANGED <<req, rows, copies>>, ever \subseteq ever',
         always' \subseteq always, \A n \in DOMAIN req.joins : Executed(n)' => Executed(n)
  PROVE  RowsOK'
<1>1. Apart(req)' = Apart(req)
  BY DEF Apart
<1>2. ASSUME NEW row \in rows, NEW n \in DOMAIN req.joins, RowOK(row, n)
      PROVE  RowOK(row, n)'
  <2>1. Recorded(row, n)'
    <3>1. SUFFICES ASSUME req.joins[n].result \in DOMAIN row.fields
                   PROVE  Recorded(row, n)'
      BY DEF Recorded
    <3>2. /\ HasLocal(row, req.joins[n])
          /\ \A t \in row.fields[req.joins[n].result][2] :
               \E o \in ever : /\ o[1] = n /\ o[2] = t.id
                               /\ SameKey(o[3], LocalValue(row, req.joins[n]))
      BY <1>2, <3>1 DEF RowOK, Recorded
    <3>3. \A t \in row.fields[req.joins[n].result][2] :
            \E o \in ever' : /\ o[1] = n /\ o[2] = t.id
                             /\ SameKey(o[3], LocalValue(row, req.joins[n]))
      BY <3>2
    <3> QED BY <3>2, <3>3 DEF Recorded
  <2> QED BY <1>2, <2>1 DEF RowOK
<1>3. ASSUME NEW c, AlwaysJoined(c)'
      PROVE  AlwaysJoined(c)
  BY <1>3 DEF AlwaysJoined
<1>4. ASSUME NEW r, NEW c, SameLocals(r, c)
      PROVE  SameLocals(r, c)'
  BY <1>4 DEF SameLocals
<1> QED BY <1>1, <1>2, <1>3, <1>4 DEF RowsOK

LEMMA JoinOthers ==
  ASSUME DataInv, RequestOK, JoinOK, OthersStep, Remember
  PROVE  JoinOK'
<1>1. SUFFICES ASSUME Walking
               PROVE  JoinOK'
  BY DEF JoinOK, Walking, OthersStep, requestVars
<1>2. /\ UNCHANGED <<pc, req, rows, copies, joinNo, pass, targets>>
      /\ \A i \in DOMAIN heap : /\ heap'[i].type = heap[i].type
                                /\ heap'[i] = heap[i] \/ i \in live'
  BY DEF OthersStep, OthersChange, requestVars
<1>3. /\ ever' = ever \cup Offers(req, live', heap')
      /\ always' = always \cap Accepted(req, live', heap')
  BY <1>1 DEF Remember, Walking, Idle
<1>4. RowsOK'
  BY <1>1, <1>2, <1>3, RowsSame DEF JoinOK, Executed
<1>5. TargetsOK'
  <2>1. SUFFICES ASSUME pc = "apply"
                 PROVE  TargetsOK'
    BY <1>2 DEF TargetsOK
  <2>2. /\ \A i \in ToSet(targets) :
             /\ heap[i].type = req.joins[joinNo].type
             /\ HasForeign(i, req.joins[joinNo], heap) =>
                  <<joinNo, i, ForeignValue(i, req.joins[joinNo], heap)>> \in ever
        /\ \A o \in always : o[1] = joinNo => o[2] \in ToSet(targets)
    BY <1>1, <2>1 DEF JoinOK, TargetsOK
  <2>3. ToSet(targets) \subseteq DOMAIN heap
    BY DEF RequestOK, ToSet
  <2>4. joinNo \in DOMAIN req.joins
    BY <2>1, QueryFacts DEF RequestOK, DataInv, PlaceOK
  <2>5. ASSUME NEW i \in ToSet(targets), HasForeign(i, req.joins[joinNo], heap')
        PROVE  <<joinNo, i, ForeignValue(i, req.joins[joinNo], heap')>> \in ever'
    <3>1. CASE heap'[i] = heap[i]
      BY <1>3, <2>2, <2>5, <3>1 DEF HasForeign, ForeignValue
    <3>2. CASE i \in live'
      <4>1. i \in OfType(req.joins[joinNo].type, live', heap')
        BY <1>2, <2>2, <2>3, <3>2 DEF OfType
      <4>2. <<joinNo, i, ForeignValue(i, req.joins[joinNo], heap')>>
              \in Offers(req, live', heap')
        BY <2>4, <2>5, <4>1, Offered
      <4> QED BY <1>3, <4>2
    <3> QED BY <1>2, <2>3, <3>1, <3>2
  <2>6. \A i \in ToSet(targets) : heap'[i].type = req.joins[joinNo].type
    BY <1>2, <2>2, <2>3
  <2> QED BY <1>2, <1>3, <2>2, <2>5, <2>6 DEF TargetsOK
<1> QED BY <1>2, <1>3, <1>4, <1>5 DEF JoinOK

LEMMA JoinReads ==
  ASSUME DataInv, RequestOK, JoinOK, ReadTargets
  PROVE  JoinOK'
<1>1. /\ pc = "join" /\ pc' = "apply"
      /\ targets' \in SetToSeqs(Filtered(req.joins[joinNo], live, heap))
      /\ UNCHANGED <<workload, live, heap, req, rows, joinNo, pass, ever, always, copies>>
  BY DEF ReadTargets, storeVars, joinVars
<1>2. /\ Offers(req, live, heap) \subseteq ever
      /\ always \subseteq Accepted(req, live, heap) /\ RowsOK
  BY <1>1 DEF JoinOK, Walking, RequestOK
<1>3. RowsOK'
  BY <1>1, <1>2, RowsSame DEF Executed
<1>4. joinNo \in DOMAIN req.joins
  BY <1>1, QueryFacts DEF RequestOK, DataInv, PlaceOK
<1>5. ToSet(targets') = Filtered(req.joins[joinNo], live, heap)
  <2>1. Filtered(req.joins[joinNo], live, heap) \subseteq IDs
    BY DEF Filtered, OfType, DataInv, StoreOK
  <2> QED BY <1>1, <2>1, FiniteIDs, Permutation
<1>6. ASSUME NEW i \in ToSet(targets')
      PROVE  /\ heap[i].type = req.joins[joinNo].type
             /\ HasForeign(i, req.joins[joinNo], heap) =>
                  <<joinNo, i, ForeignValue(i, req.joins[joinNo], heap)>> \in ever
  <2>1. i \in OfType(req.joins[joinNo].type, live, heap)
    BY <1>5, <1>6, FilteredOfType
  <2> QED BY <1>2, <1>4, <2>1, Offered DEF OfType
<1>7. \A o \in always : o[1] = joinNo => o[2] \in ToSet(targets')
  BY <1>2, <1>5 DEF Accepted
<1>8. TargetsOK'
  BY <1>1, <1>6, <1>7 DEF TargetsOK
<1> QED BY <1>1, <1>2, <1>3, <1>8 DEF JoinOK

LEMMA JoinCopies ==
  ASSUME DataInv, RequestOK, JoinOK, CopyRows
  PROVE  JoinOK'
<1>1. /\ pc = "copy" /\ pc' = "join" /\ joinNo' = 1 /\ pass' = 1
      /\ rows' = {[id |-> i, fields |-> heap[i].fields] : i \in ToSet(page)}
      /\ copies' = rows'
      /\ UNCHANGED <<workload, live, heap, req, ever, always>>
  BY DEF CopyRows, storeVars
<1>2. /\ Offers(req, live, heap) \subseteq ever
      /\ always \subseteq Accepted(req, live, heap)
  BY <1>1 DEF JoinOK, Walking, RequestOK
<1>3. \A row \in rows' \cup copies' : IsRow(row)
  BY <1>1 DEF IsRow
<1>4. ASSUME Apart(req)', NEW row \in rows', NEW n \in DOMAIN req.joins
      PROVE  RowOK(row, n)'
  <2>1. req.joins[n].result \notin DOMAIN row.fields
    BY <1>1, <1>4 DEF Apart
  <2>2. ~Executed(n)'
    <3>1. n \in 1..Len(req.joins) /\ Len(req.joins) \in Nat
      BY <1>4, QueryFacts DEF RequestOK, DataInv, PlaceOK
    <3> QED BY <1>1, <3>1 DEF Executed
  <2> QED BY <1>1, <2>1, <2>2 DEF RowOK, Recorded
<1>5. \A c \in copies' : c \in rows' /\ SameLocals(c, c)'
  BY <1>1 DEF SameLocals
<1>6. RowsOK'
  BY <1>1, <1>3, <1>4, <1>5 DEF RowsOK
<1> QED BY <1>1, <1>2, <1>6 DEF JoinOK, TargetsOK

(* A join adds its result to a row and leaves the rest. *)
LEMMA JoinRowFacts ==
  ASSUME NEW row, IsRow(row), NEW n \in DOMAIN req.joins, Apart(req)
  PROVE  LET r == JoinRow(row, req.joins[n])
         IN /\ IsRow(r) /\ SameLocals(r, row)
            /\ \A m \in DOMAIN req.joins : m # n =>
                 /\ req.joins[m].result \in DOMAIN r.fields <=>
                      req.joins[m].result \in DOMAIN row.fields
                 /\ req.joins[m].result \in DOMAIN row.fields =>
                      r.fields[req.joins[m].result] = row.fields[req.joins[m].result]
<1> DEFINE join == req.joins[n]
           r == JoinRow(row, join)
<1>1. CASE ~Matched(row, join)
  <2>1. r = row
    BY <1>1 DEF JoinRow
  <2> QED BY <2>1 DEF SameLocals
<1>2. CASE Matched(row, join)
  <2>1. PICK v : r = [row EXCEPT !.fields = Put(row.fields, join.result, v)]
    BY <1>2 DEF JoinRow
  <2>2. r = [id |-> row.id, fields |-> Put(row.fields, join.result, v)]
    BY <2>1 DEF IsRow
  <2> HIDE DEF r
  <2>3. r.id = row.id /\ r.fields = Put(row.fields, join.result, v) /\ IsRow(r)
    BY <2>2 DEF IsRow
  <2>4. /\ DOMAIN r.fields = DOMAIN row.fields \cup {join.result}
        /\ \A k \in DOMAIN row.fields : k # join.result => r.fields[k] = row.fields[k]
    BY <2>3 DEF Put, Overlay
  <2>5. \A m \in DOMAIN req.joins : /\ join.result # req.joins[m].local
                                    /\ m # n => req.joins[m].result # join.result
    BY DEF Apart
  <2>6. SameLocals(r, row)
    BY <2>3, <2>4, <2>5 DEF SameLocals, HasLocal, LocalValue
  <2> QED BY <2>3, <2>4, <2>5, <2>6 DEF r
<1> QED BY <1>1, <1>2

(* What a join finds for a row. *)
LEMMA JoinRowFound ==
  ASSUME NEW row, IsRow(row), NEW n \in DOMAIN req.joins, Matched(row, req.joins[n])
  PROVE  LET r == JoinRow(row, req.joins[n])
         IN /\ req.joins[n].result \in DOMAIN r.fields
            /\ \A t \in r.fields[req.joins[n].result][2] :
                 t.id \in MatchesFor(row, req.joins[n])
<1> DEFINE join == req.joins[n]
           joined == {FilterJoinFields(i, join) : i \in Selected(row, join)}
<1>1. JoinRow(row, join)
        = [row EXCEPT !.fields = Put(row.fields, join.result, <<"map", joined>>)]
  BY DEF JoinRow
<1>2. PICK v : v = <<"map", joined>>
  OBVIOUS
<1>3. PICK r : r = JoinRow(row, join)
  OBVIOUS
<1>4. r = [id |-> row.id, fields |-> Put(row.fields, join.result, v)]
  BY <1>1, <1>2, <1>3 DEF IsRow
<1>5. join.result \in DOMAIN r.fields /\ r.fields[join.result] = v
  BY <1>4 DEF Put, Overlay
<1>6. Selected(row, join) \subseteq MatchesFor(row, join)
  BY DEF Selected
<1>7. ASSUME NEW t \in joined
      PROVE  t.id \in MatchesFor(row, join)
  <2>1. PICK i \in Selected(row, join) : t = FilterJoinFields(i, join)
    OBVIOUS
  <2>2. FilterJoinFields(i, join).id = i
    BY DEF FilterJoinFields
  <2> QED BY <1>6, <2>1, <2>2
<1>8. v[2] = joined
  BY <1>2
<1> HIDE DEF joined
<1>9. \A t \in r.fields[join.result][2] : t.id \in MatchesFor(row, join)
  BY <1>5, <1>7, <1>8
<1> QED BY <1>3, <1>5, <1>9

LEMMA SameLocalsTrans ==
  ASSUME NEW a, NEW b, NEW c, SameLocals(a, b), SameLocals(b, c)
  PROVE  SameLocals(a, c)
BY DEF SameLocals

LEMMA JoinApplies ==
  ASSUME DataInv, RequestOK, JoinOK, ApplyJoin
  PROVE  JoinOK'
<1>1. /\ pc = "apply" /\ rows' = Joined(rows, req.joins[joinNo])
      /\ pc' \in {"join", "answer"}
      /\ UNCHANGED <<workload, live, heap, req, ever, always, copies>>
  BY DEF ApplyJoin, storeVars, joinVars
<1>2. /\ Offers(req, live, heap) \subseteq ever
      /\ always \subseteq Accepted(req, live, heap) /\ TargetsOK /\ RowsOK
  BY <1>1 DEF JoinOK, Walking, RequestOK
<1>3. PICK n : n = joinNo
  OBVIOUS
<1>4. n \in DOMAIN req.joins
  BY <1>1, <1>3, QueryFacts DEF RequestOK, DataInv, PlaceOK
<1>5. \A r \in rows' : \E row \in rows :
        /\ r = JoinRow(row, req.joins[n])
        /\ req.joins[n].inner => Matched(row, req.joins[n])
  BY <1>1, <1>3 DEF Joined
<1>6. \A row \in rows : (req.joins[n].inner => Matched(row, req.joins[n]))
                          => JoinRow(row, req.joins[n]) \in rows'
  BY <1>1, <1>3 DEF Joined
<1>7. \A m \in DOMAIN req.joins : Executed(m)' => m = n \/ Executed(m)
  <2>1. ASSUME NEW m \in DOMAIN req.joins, Executed(m)', m # n
        PROVE  Executed(m)
    <3>1. m \in 1..Len(req.joins) /\ Len(req.joins) \in Nat /\ n \in 1..Len(req.joins)
      BY <1>4, QueryFacts DEF RequestOK, DataInv, PlaceOK
    <3>2. CASE n = Len(req.joins)
      BY <1>3, <2>1, <3>1, <3>2 DEF Executed
    <3>3. CASE n # Len(req.joins)
      <4>1. pc' = "join" /\ joinNo' = n + 1 /\ pass' = pass
        BY <1>3, <3>3 DEF ApplyJoin
      <4> QED BY <1>3, <2>1, <3>1, <4>1 DEF Executed
    <3> QED BY <3>2, <3>3
  <2> QED BY <2>1
<1>8. ASSUME NEW row \in rows
      PROVE  IsRow(row) /\ IsRow(JoinRow(row, req.joins[n]))
  <2>1. IsRow(row)
    BY <1>2 DEF RowsOK
  <2>2. JoinRow(row, req.joins[n]) = row
          \/ \E f : JoinRow(row, req.joins[n]) = [row EXCEPT !.fields = f]
    BY DEF JoinRow
  <2> QED BY <2>1, <2>2 DEF IsRow
<1>9. ASSUME Apart(req), NEW row \in rows, NEW m \in DOMAIN req.joins,
             req.joins[n].inner => Matched(row, req.joins[n]),
             NEW r, r = JoinRow(row, req.joins[n])
      PROVE  RowOK(r, m)'
  <2>1. r = JoinRow(row, req.joins[n])
    BY <1>9
  <2>2. IsRow(row) /\ RowOK(row, m) /\ RowOK(row, n)
    BY <1>2, <1>4, <1>9 DEF RowsOK
  <2>3. /\ SameLocals(r, row)
        /\ m # n =>
             /\ req.joins[m].result \in DOMAIN r.fields <=>
                  req.joins[m].result \in DOMAIN row.fields
             /\ req.joins[m].result \in DOMAIN row.fields =>
                  r.fields[req.joins[m].result] = row.fields[req.joins[m].result]
    BY <1>4, <1>9, <2>1, <2>2, JoinRowFacts
  <2>4. CASE m # n
    <3>1. Recorded(r, m)
      <4>1. SUFFICES ASSUME req.joins[m].result \in DOMAIN r.fields
                     PROVE  Recorded(r, m)
        BY DEF Recorded
      <4>2. /\ HasLocal(row, req.joins[m])
            /\ \A t \in row.fields[req.joins[m].result][2] :
                 \E o \in ever : /\ o[1] = m /\ o[2] = t.id
                                 /\ SameKey(o[3], LocalValue(row, req.joins[m]))
        BY <2>2, <2>3, <2>4, <4>1 DEF RowOK, Recorded
      <4>3. /\ HasLocal(r, req.joins[m])
            /\ LocalValue(r, req.joins[m]) = LocalValue(row, req.joins[m])
        BY <2>3, <4>2 DEF SameLocals
      <4> QED BY <2>3, <2>4, <4>1, <4>2, <4>3 DEF Recorded
    <3>2. Executed(m)' /\ req.joins[m].inner => req.joins[m].result \in DOMAIN r.fields
      BY <1>7, <2>2, <2>3, <2>4 DEF RowOK
    <3> QED BY <1>1, <2>1, <3>1, <3>2 DEF RowOK, Recorded
  <2>5. CASE m = n /\ ~Matched(row, req.joins[n])
    <3>1. r = row
      BY <2>1, <2>5 DEF JoinRow
    <3>2. ~req.joins[n].inner
      BY <1>9, <2>5
    <3> QED BY <1>1, <2>1, <2>2, <2>5, <3>1, <3>2 DEF RowOK, Recorded
  <2>6. CASE m = n /\ Matched(row, req.joins[n])
    <3>1. /\ req.joins[n].result \in DOMAIN r.fields
          /\ \A t \in r.fields[req.joins[n].result][2] :
               t.id \in MatchesFor(row, req.joins[n])
      BY <1>4, <2>1, <2>2, <2>6, JoinRowFound
    <3>2. HasLocal(row, req.joins[n])
      BY <2>6 DEF Matched
    <3>3. /\ HasLocal(r, req.joins[n])
          /\ LocalValue(r, req.joins[n]) = LocalValue(row, req.joins[n])
      BY <1>4, <2>3, <3>2 DEF SameLocals
    <3>4. ASSUME NEW i \in MatchesFor(row, req.joins[n])
          PROVE  \E o \in ever : /\ o[1] = n /\ o[2] = i
                                 /\ SameKey(o[3], LocalValue(row, req.joins[n]))
      <4>1. /\ i \in ToSet(targets) /\ HasForeign(i, req.joins[n], heap)
            /\ NormalizeForJoinComparison(ForeignValue(i, req.joins[n], heap))
                 = NormalizeForJoinComparison(LocalValue(row, req.joins[n]))
        BY <3>4 DEF MatchesFor
      <4>2. PICK o : o = <<n, i, ForeignValue(i, req.joins[n], heap)>>
        OBVIOUS
      <4>3. o \in ever
        BY <1>1, <1>2, <1>3, <4>1, <4>2 DEF TargetsOK
      <4>4. SameKey(ForeignValue(i, req.joins[n], heap), LocalValue(row, req.joins[n]))
        BY <4>1, SameKeys
      <4>5. o[1] = n /\ o[2] = i /\ o[3] = ForeignValue(i, req.joins[n], heap)
        BY <4>2
      <4> QED BY <4>3, <4>4, <4>5
    <3>5. Recorded(r, n)
      BY <3>1, <3>3, <3>4 DEF Recorded
    <3> QED BY <1>1, <2>1, <2>6, <3>1, <3>5 DEF RowOK, Recorded
  <2> QED BY <2>4, <2>5, <2>6
<1>10. ASSUME Apart(req), NEW c \in copies, AlwaysJoined(c)
       PROVE  \E r \in rows' : SameLocals(r, c)
  <2>1. PICK row \in rows : SameLocals(row, c)
    BY <1>2, <1>10 DEF RowsOK
  <2>2. req.joins[n].inner => Matched(row, req.joins[n])
    <3>1. SUFFICES ASSUME req.joins[n].inner
                   PROVE  Matched(row, req.joins[n])
      OBVIOUS
    <3>2. PICK o \in always :
            /\ HasLocal(c, req.joins[n]) /\ o[1] = n
            /\ SameKey(o[3], LocalValue(c, req.joins[n]))
      BY <1>4, <1>10, <3>1 DEF AlwaysJoined
    <3>3. /\ HasLocal(row, req.joins[n])
          /\ LocalValue(row, req.joins[n]) = LocalValue(c, req.joins[n])
      BY <1>4, <2>1, <3>2 DEF SameLocals
    <3>4. o \in Offers(req, live, heap)
      BY <1>2 DEF Accepted
    <3>5. /\ HasForeign(o[2], req.joins[n], heap)
          /\ o[3] = ForeignValue(o[2], req.joins[n], heap)
      BY <3>2, <3>4, OfferFacts
    <3>6. o[2] \in ToSet(targets)
      BY <1>1, <1>2, <1>3, <3>2 DEF TargetsOK
    <3>7. NormalizeForJoinComparison(ForeignValue(o[2], req.joins[n], heap))
            = NormalizeForJoinComparison(LocalValue(row, req.joins[n]))
      BY <3>2, <3>3, <3>5, SameKeys
    <3>8. o[2] \in MatchesFor(row, req.joins[n])
      BY <3>5, <3>6, <3>7 DEF MatchesFor
    <3> QED BY <3>3, <3>8 DEF Matched
  <2>3. JoinRow(row, req.joins[n]) \in rows'
    BY <1>6, <2>2
  <2>4. SameLocals(JoinRow(row, req.joins[n]), row)
    BY <1>4, <1>8, <1>10, JoinRowFacts
  <2> QED BY <2>1, <2>3, <2>4, SameLocalsTrans
<1>11. RowsOK'
  <2>1. Apart(req)' = Apart(req)
    BY <1>1 DEF Apart
  <2>2. \A row \in rows' \cup copies' : IsRow(row)
    BY <1>1, <1>2, <1>5, <1>8 DEF RowsOK
  <2>3. Apart(req) => \A r \in rows', m \in DOMAIN req.joins : RowOK(r, m)'
    BY <1>5, <1>9
  <2>4. \A c : AlwaysJoined(c)' = AlwaysJoined(c)
    BY <1>1 DEF AlwaysJoined
  <2>5. \A r, c : SameLocals(r, c)' = SameLocals(r, c)
    BY <1>1 DEF SameLocals
  <2> QED BY <1>1, <1>10, <2>1, <2>2, <2>3, <2>4, <2>5 DEF RowsOK
<1>12. TargetsOK'
  BY <1>1 DEF TargetsOK
<1> QED BY <1>1, <1>2, <1>11, <1>12 DEF JoinOK

LEMMA JoinStep ==
  ASSUME DataInv, DataInv', RequestOK, JoinOK, [DataNext]_vars
  PROVE  JoinOK'
<1>1. CASE OthersStep /\ Remember
  BY <1>1, JoinOthers
<1>2. ASSUME UNCHANGED <<workload, live, heap, req, rows, ever, always, copies>>,
             pc' \in {pc, "copy", "answer"}, pc \in {"idle", "read"} \/ pc' = pc,
             UNCHANGED <<joinNo, pass, targets>>, Walking
      PROVE  JoinOK'
  <2>1. CASE pc' = pc
    BY <1>2, <2>1, RowsSame DEF JoinOK, Walking, TargetsOK, Executed
  <2>2. CASE pc' # pc
    <3>1. rows = {} /\ copies = {}
      BY <1>2, <2>2 DEF RequestOK
    <3>2. RowsOK'
      BY <1>2, <3>1 DEF RowsOK
    <3> QED BY <1>2, <2>2, <3>2 DEF JoinOK, TargetsOK
  <2> QED BY <2>1, <2>2
<1>3. CASE OthersStep /\ ~Remember
  <2>1. ~Walking => ~Walking'
    BY <1>3 DEF OthersStep, requestVars, Walking
  <2> QED BY <1>2, <1>3, <2>1 DEF OthersStep, requestVars, joinVars, JoinOK
<1>4. ASSUME NEW q \in Work.queries, BeginStep(q)
      PROVE  JoinOK'
  <2>1. /\ pc = "idle" /\ pc' \in {"read", "stamp", "get", "update", "find"}
        /\ req' = q
        /\ ever' = Offers(q, live, heap) /\ always' = Accepted(q, live, heap)
        /\ UNCHANGED <<live, heap, rows, copies>>
    BY <1>4 DEF BeginStep, Begin, Idle, storeVars
  <2>2. RowsOK' /\ TargetsOK'
    BY <2>1 DEF RequestOK, RowsOK, TargetsOK
  <2> QED BY <2>1, <2>2 DEF JoinOK
<1>5. CASE EndStep \/ CountStep \/ DataHandlerStep
  BY <1>5, NotWalking DEF JoinOK, Walking
<1>6. CASE ReadPage
  <2>1. /\ pc = "read" /\ pc' \in {"copy", "answer"} /\ req.handler # "count"
        /\ UNCHANGED <<workload, live, heap, req, rows, ever, always, copies>>
        /\ UNCHANGED <<joinNo, pass, targets>>
    BY <1>6 DEF ReadPage, storeVars, joinVars
  <2>2. Walking
    BY <2>1 DEF Walking, RequestOK, DataInv, PlaceOK
  <2> QED BY <1>2, <2>1, <2>2
<1>7. CASE CopyRows \/ ReadTargets \/ ApplyJoin
  BY <1>7, JoinCopies, JoinReads, JoinApplies
<1>8. CASE NextPage
  <2>1. /\ pc' = "read" /\ rows' = {} /\ copies' = {}
        /\ ever' = Offers(req, live, heap) /\ always' = Accepted(req, live, heap)
        /\ UNCHANGED <<live, heap, req>>
    BY <1>8 DEF NextPage, storeVars
  <2>2. RowsOK' /\ TargetsOK'
    BY <2>1 DEF RowsOK, TargetsOK
  <2> QED BY <2>1, <2>2 DEF JoinOK
<1>9. CASE UNCHANGED vars
  <2>1. ~Walking => ~Walking'
    BY <1>9 DEF vars, requestVars, Walking
  <2> QED BY <1>2, <1>9, <2>1 DEF vars, storeVars, requestVars, joinVars, JoinOK
<1> QED BY <1>1, <1>3, <1>4, <1>5, <1>6, <1>7, <1>8, <1>9, QuerySteps

-----------------------------------------------------------------------------
(* The invariant of the query service. *)

QueryInv ==
  RequestOK /\ PageOK /\ WalkEnds /\ NothingTwice /\ NothingLeft /\ JoinOK

LEMMA QueryInit ==
  ASSUME Init
  PROVE  QueryInv
<1>1. /\ workload \in DOMAIN Workloads /\ stamps = <<>> /\ pc = "idle" /\ req = NoQuery
      /\ offset = 0 /\ page = <<>> /\ rows = {} /\ copies = {} /\ joinNo = 0
      /\ pass = 0 /\ targets = <<>> /\ total = 0 /\ hasMore = FALSE /\ seen = <<>>
  BY DEF Init
<1>2. NoQuery \in Work.queries /\ Len(NoQuery.joins) \in Nat
  BY <1>1, QueryFacts
<1>3. joinNo \in 0..Len(req.joins) /\ pass \in 0..2 /\ total \in Nat /\ offset \in Nat
  BY <1>1, <1>2
<1>4. /\ page \in Seq(DOMAIN heap) /\ targets \in Seq(DOMAIN heap)
      /\ seen \in Seq(DOMAIN heap)
  BY <1>1
<1>5. {row.id : row \in rows} = {} /\ DOMAIN stamps = {}
  BY <1>1
<1>6. RequestOK
  BY <1>1, <1>2, <1>3, <1>4, <1>5 DEF RequestOK
<1>7. PageOK /\ WalkEnds /\ NothingTwice /\ NothingLeft /\ JoinOK
  BY <1>1 DEF PageOK, PageRead, WalkEnds, Idle, NothingTwice, NothingLeft, JoinOK,
              Walking
<1> QED BY <1>6, <1>7 DEF QueryInv

LEMMA QueryInvariant == DataSpec => [](DataInv /\ QueryInv)
<1>1. Init => DataInv /\ QueryInv
  BY DataInit, QueryInit
<1>2. ASSUME DataInv, QueryInv, [DataNext]_vars
      PROVE  DataInv' /\ QueryInv'
  <2>1. DataInv'
    BY <1>2, DataStep, DataStutter
  <2>2. RequestOK' /\ PageOK' /\ WalkEnds'
    BY <1>2, <2>1, RequestStep, PageStep DEF QueryInv
  <2>3. NothingTwice' /\ NothingLeft' /\ JoinOK'
    BY <1>2, <2>1, WalkStep, JoinStep DEF QueryInv
  <2> QED BY <2>1, <2>2, <2>3 DEF QueryInv
<1>3. DataInv /\ QueryInv /\ [DataNext]_vars => DataInv' /\ QueryInv'
  BY <1>2
<1> QED BY <1>1, <1>3, PTL DEF DataSpec

(* The variables of the store and of a request have their types: above all, a
   page, the targets of a join and all that was shown are entities whose maps
   are still there, a row has its entity on the page, and joinNo stays among
   the joins of the request. *)
THEOREM RequestsTyped == DataSpec => []TypeOK
<1>1. DataInv /\ QueryInv => TypeOK
  BY TypeFollows DEF QueryInv
<1> QED BY <1>1, QueryInvariant, PTL

(* A client that walks through the pages never asks for one that begins a
   whole page after all the entities there are: ExecutePaginatedQuery and
   ExecuteQueryWithJoins say HasMore only while the page began before the end
   of the result, also when an inner join drops rows of it. *)
THEOREM WalksEnd == DataSpec => []WalkEnds
<1>1. DataInv /\ QueryInv => WalkEnds
  BY DEF QueryInv
<1> QED BY <1>1, QueryInvariant, PTL

(* The pages of a walk show no entity twice, for pages of any size and any
   order, however the store changes between them, as long as nothing comes to
   stand in front of what was shown or ties with another entity. *)
THEOREM NothingRepeated == DataSpec => []PagesRepeatNothing
<1>1. ASSUME DataInv, QueryInv, pc = "answer", ~pushed
      PROVE  IsInjective(seen \o page)
  <2>1. CASE req.handler \in PageRequests
    BY <1>1, <2>1 DEF QueryInv, NothingTwice, Walking
  <2>2. CASE req.handler \notin PageRequests
    <3>1. seen = <<>> /\ (page = <<>> \/ \E i : page = <<i>>)
      BY <1>1, <2>2 DEF QueryInv, RequestOK
    <3>2. \A i : <<>> \o <<i>> = <<i>>
      OBVIOUS
    <3>3. \A i : IsInjective(<<i>>)
      BY DEF IsInjective
    <3> QED BY <3>1, <3>2, <3>3, EmptyWalk
  <2> QED BY <2>1, <2>2
<1>2. DataInv /\ QueryInv => PagesRepeatNothing
  BY <1>1 DEF PagesRepeatNothing
<1> QED BY <1>2, QueryInvariant, PTL

(* A client that walks until HasMore is false was shown every entity that
   matched all the time, as long as nothing that was shown, or stood in front
   of it, left the result or its place. *)
THEOREM NothingMissed == DataSpec => []PagesMissNothing
<1>1. ASSUME DataInv, QueryInv, pc = "answer", req.walk, ~hasMore, ~pulled
      PROVE  stable \subseteq ToSet(seen \o page)
  <2>1. req.handler \in PageRequests
    BY <1>1, QueryFacts DEF QueryInv, RequestOK, DataInv, PlaceOK
  <2>2. total <= offset + Len(page)
    BY <1>1, <2>1 DEF QueryInv, PageOK, PageRead, Counted
  <2> QED BY <1>1, <2>1, <2>2 DEF QueryInv, NothingLeft, Walking, WasRead
<1>2. DataInv /\ QueryInv => PagesMissNothing
  BY <1>1 DEF PagesMissNothing
<1> QED BY <1>2, QueryInvariant, PTL

(* Whatever a join put into an answered row was, at some time of the request,
   an entity of the target type with the row's key, and the row of an inner
   join has it, although the targets are read, looked up and copied at three
   different times and the store changes in between. *)
THEOREM JoinsReal == DataSpec => []JoinedWereThere
<1>1. ASSUME DataInv, QueryInv, pc = "answer", Apart(req), NEW row \in rows,
             NEW n \in DOMAIN req.joins
      PROVE  RowOK(row, n) /\ Executed(n)
  <2>1. req.handler \in PageRequests
    BY <1>1 DEF QueryInv, RequestOK
  <2> QED BY <1>1, <2>1 DEF QueryInv, JoinOK, RowsOK, Walking, Executed
<1>2. DataInv /\ QueryInv => JoinedWereThere
  BY <1>1 DEF JoinedWereThere, RowOK, Recorded
<1> QED BY <1>2, QueryInvariant, PTL

(* An inner join, executed once or twice, drops no row that had a target all
   the time of the request. *)
THEOREM StableRowsKept == DataSpec => []JoinKeepsStable
<1>1. ASSUME DataInv, QueryInv, pc = "answer", Apart(req), NEW c \in copies,
             AlwaysJoined(c)
      PROVE  \E r \in rows : r.id = c.id
  <2>1. req.handler \in PageRequests
    BY <1>1 DEF QueryInv, RequestOK
  <2> QED BY <1>1, <2>1 DEF QueryInv, JoinOK, RowsOK, Walking, SameLocals
<1>2. DataInv /\ QueryInv => JoinKeepsStable
  BY <1>1 DEF JoinKeepsStable
<1> QED BY <1>2, QueryInvariant, PTL

-----------------------------------------------------------------------------
(* The order of a result. *)

LEMMA LeastOf ==
  ASSUME NEW S \in SUBSET Nat, S # {}
  PROVE  \E m \in S : \A n \in S : m <= n
<1> DEFINE R == OpToRel(<, Nat)
<1>1. IsWellFoundedOn(R, Nat)
  BY NatLessThanWellFounded
<1>2. \A m, n \in Nat : n < m => <<n, m>> \in R
  BY DEF OpToRel
<1> HIDE DEF R
<1>3. PICK m \in S : \A n \in S : ~(<<n, m>> \in R)
  BY <1>1, WFMin
<1>4. ASSUME NEW n \in S PROVE m <= n
  <2>1. ~(n < m)
    BY <1>2, <1>3
  <2> QED BY <2>1
<1> QED BY <1>4

(* The strings agree in front of place n + 1, and there s comes first. *)
LessAt(s, t, n) ==
  /\ n < Len(t)
  /\ \A k \in 1..n : s[k] = t[k]
  /\ n = Len(s) \/ s[n + 1] < t[n + 1]

LEMMA LessAtPlace ==
  ASSUME NEW s \in Seq(Int), NEW t \in Seq(Int)
  PROVE  StringLess(s, t) <=> \E n \in 0..Len(s) : LessAt(s, t, n)
<1>1. ASSUME NEW n \in 0..Len(s), n < Len(t)
      PROVE  SubSeq(s, 1, n) = SubSeq(t, 1, n) <=> \A k \in 1..n : s[k] = t[k]
  <2>1. /\ SubSeq(s, 1, n) = [k \in 1..n |-> s[k]]
        /\ SubSeq(t, 1, n) = [k \in 1..n |-> t[k]]
    BY <1>1
  <2> QED BY <2>1
<1> QED BY <1>1 DEF StringLess, LessAt

(* Go's < on strings is a strict order, in which any two strings compare. *)
LEMMA StringOrder ==
  ASSUME NEW s \in Seq(Int), NEW t \in Seq(Int), NEW u \in Seq(Int),
         StringLess(s, t)
  PROVE  ~StringLess(t, s) /\ (StringLess(s, u) \/ StringLess(u, t))
<1>1. PICK n \in 0..Len(s) : LessAt(s, t, n)
  BY LessAtPlace
<1>2. /\ n \in Nat /\ n <= Len(s) /\ n < Len(t) /\ \A k \in 1..n : s[k] = t[k]
      /\ n = Len(s) \/ s[n + 1] < t[n + 1]
      /\ Len(s) \in Nat /\ Len(t) \in Nat /\ Len(u) \in Nat
  BY <1>1 DEF LessAt
<1>3. \A k \in 1..Len(s) : s[k] \in Int
  OBVIOUS
<1>4. \A k \in 1..Len(t) : t[k] \in Int
  OBVIOUS
<1>5. \A k \in 1..Len(u) : u[k] \in Int
  OBVIOUS
<1>6. ~StringLess(t, s)
  <2>1. SUFFICES ASSUME NEW m \in 0..Len(t), LessAt(t, s, m) PROVE FALSE
    BY LessAtPlace
  <2>2. /\ m < Len(s) /\ \A k \in 1..m : t[k] = s[k]
        /\ m = Len(t) \/ t[m + 1] < s[m + 1]
    BY <2>1 DEF LessAt
  <2>3. CASE n < m
    <3>1. n + 1 \in 1..m /\ n + 1 \in 1..Len(s) /\ n # Len(s)
      BY <1>2, <2>2, <2>3
    <3> QED BY <1>2, <1>3, <1>4, <2>2, <3>1
  <2>4. CASE m < n
    <3>1. m + 1 \in 1..n /\ m + 1 \in 1..Len(s) /\ m # Len(t)
      BY <1>2, <2>2, <2>4
    <3> QED BY <1>2, <1>3, <1>4, <2>2, <3>1
  <2>5. CASE m = n
    <3>1. n + 1 \in 1..Len(s) /\ n + 1 \in 1..Len(t) /\ n # Len(s) /\ n # Len(t)
      BY <1>2, <2>2, <2>5
    <3> QED BY <1>2, <1>3, <1>4, <2>2, <2>5, <3>1
  <2> QED BY <1>2, <2>3, <2>4, <2>5
<1>7. CASE n <= Len(u) /\ \A k \in 1..n : u[k] = s[k]
  <2>1. CASE n = Len(u)
    <3>1. LessAt(u, t, n)
      BY <1>2, <1>7, <2>1 DEF LessAt
    <3> QED BY <1>6, <2>1, <3>1, LessAtPlace
  <2>2. CASE n < Len(u) /\ u[n + 1] < t[n + 1]
    <3>1. LessAt(u, t, n)
      BY <1>2, <1>7, <2>2 DEF LessAt
    <3> QED BY <1>2, <1>6, <2>2, <3>1, LessAtPlace
  <2>3. CASE n < Len(u) /\ ~(u[n + 1] < t[n + 1])
    <3>1. n = Len(s) \/ s[n + 1] < u[n + 1]
      <4>1. n + 1 \in 1..Len(u) /\ n + 1 \in 1..Len(t)
        BY <1>2, <2>3
      <4>2. CASE n # Len(s)
        <5>1. n + 1 \in 1..Len(s)
          BY <1>2, <4>2
        <5> QED BY <1>2, <1>3, <1>4, <1>5, <2>3, <4>1, <4>2, <5>1
      <4> QED BY <4>2
    <3>2. LessAt(s, u, n)
      BY <1>2, <1>7, <2>3, <3>1 DEF LessAt
    <3> QED BY <1>2, <1>6, <3>2, LessAtPlace
  <2> QED BY <1>2, <1>7, <2>1, <2>2, <2>3
<1>8. CASE ~(n <= Len(u) /\ \A k \in 1..n : u[k] = s[k])
  <2> DEFINE Differ(d) == d > Len(u) \/ u[d] # s[d]
  <2>0. PICK D : D = {d \in 1..n : Differ(d)}
    OBVIOUS
  <2> HIDE DEF Differ
  <2>1. \E d \in 1..n : Differ(d)
    <3>1. CASE n > Len(u)
      <4>1. n \in 1..n
        BY <1>2, <3>1
      <4> QED BY <3>1, <4>1 DEF Differ
    <3>2. CASE ~(n > Len(u))
      <4>1. PICK k \in 1..n : u[k] # s[k]
        BY <1>2, <1>8, <3>2
      <4>2. Differ(k)
        BY <4>1 DEF Differ
      <4> QED BY <4>2
    <3> QED BY <3>1, <3>2
  <2>9. D \in SUBSET Nat /\ D # {}
    <3>1. PICK x \in 1..n : Differ(x)
      BY <2>1
    <3>2. x \in D
      BY <2>0, <3>1
    <3>3. \A y \in D : y \in 1..n
      BY <2>0
    <3> QED BY <3>2, <3>3
  <2>2. PICK d \in D : \A e \in D : d <= e
    BY <2>9, LeastOf
  <2>3. PICK m \in Nat : m + 1 = d
    <3>1. d \in 1..n
      BY <2>0
    <3>2. d - 1 \in Nat /\ (d - 1) + 1 = d
      BY <1>2, <3>1
    <3> QED BY <3>2
  <2>4. /\ m < n /\ d \in 1..n /\ (d > Len(u) \/ u[d] # s[d])
        /\ m <= Len(u) /\ \A k \in 1..m : u[k] = s[k]
    <3>1. m < n /\ d \in 1..n /\ (d > Len(u) \/ u[d] # s[d])
      BY <1>2, <2>0, <2>2, <2>3 DEF Differ
    <3>2. ASSUME NEW k \in 1..m PROVE k <= Len(u) /\ u[k] = s[k]
      <4>1. k \in 1..n /\ ~(d <= k)
        BY <1>2, <2>3, <3>1
      <4>2. k \notin D
        BY <2>2, <4>1
      <4> QED BY <1>2, <2>0, <4>1, <4>2 DEF Differ
    <3>3. m <= Len(u)
      <4>1. CASE m = 0
        BY <1>2, <4>1
      <4>2. CASE m # 0
        <5>1. m \in 1..m
          BY <4>2
        <5> QED BY <3>2, <5>1
      <4> QED BY <4>1, <4>2
    <3> QED BY <3>1, <3>2, <3>3
  <2>5. /\ d \in 1..Len(s) /\ d \in 1..Len(t) /\ s[d] = t[d] /\ m \in 0..Len(s)
        /\ m < Len(t) /\ m # Len(s)
    BY <1>2, <2>3, <2>4
  <2>6. CASE d > Len(u) \/ u[d] < s[d]
    <3>1. m = Len(u) \/ u[m + 1] < t[m + 1]
      <4>1. CASE d > Len(u)
        BY <1>2, <2>3, <2>4, <4>1
      <4>2. CASE u[d] < s[d]
        BY <2>3, <2>5, <4>2
      <4> QED BY <2>6, <4>1, <4>2
    <3>2. \A k \in 1..m : u[k] = t[k]
      BY <1>2, <2>4
    <3>3. LessAt(u, t, m)
      BY <2>5, <3>1, <3>2 DEF LessAt
    <3>4. m \in 0..Len(u)
      BY <1>2, <2>4
    <3> QED BY <1>6, <3>3, <3>4, LessAtPlace
  <2>7. CASE ~(d > Len(u)) /\ u[d] > s[d]
    <3>1. s[m + 1] < u[m + 1] /\ m < Len(u)
      <4>1. d \in 1..Len(u)
        BY <1>2, <2>5, <2>7
      <4>2. s[d] \in Int /\ u[d] \in Int
        BY <1>3, <1>5, <2>5, <4>1
      <4>3. s[d] < u[d]
        BY <2>7, <4>2
      <4>4. m < Len(u)
        BY <1>2, <2>3, <4>1
      <4> QED BY <2>3, <4>3, <4>4
    <3>2. LessAt(s, u, m)
      BY <2>4, <3>1 DEF LessAt
    <3> QED BY <1>6, <2>5, <3>2, LessAtPlace
  <2>8. d > Len(u) \/ u[d] < s[d] \/ u[d] > s[d]
    <3>1. CASE ~(d > Len(u))
      <4>1. d \in 1..Len(u)
        BY <1>2, <2>5, <3>1
      <4>2. u[d] \in Int /\ s[d] \in Int /\ u[d] # s[d]
        BY <1>3, <1>5, <2>4, <2>5, <3>1, <4>1
      <4> QED BY <4>2
    <3> QED BY <3>1
  <2> QED BY <2>6, <2>7, <2>8
<1> QED BY <1>7, <1>8

(* What the kind of a value says of its content. *)
LEMMA ContentOf ==
  ASSUME NEW v, IsValue(v)
  PROVE  /\ Kind(v) \in {"num", "time"} => v = <<Kind(v), v[2]>> /\ v[2] \in Int
         /\ Kind(v) = "str" => v = <<"str", v[2]>> /\ v[2] \in Texts
         /\ Kind(v) = "bool" => v = <<"bool", v[2]>> /\ v[2] \in BOOLEAN
         /\ Kind(v) = "null" => v = <<"null">>
BY DEF IsValue, Kind

LEMMA TextOfNumbers ==
  ASSUME NEW s \in Texts
  PROVE  s \in Seq(Int)
<1>1. PICK C : C = 0..127
  OBVIOUS
<1>2. s \in Seq(C)
  BY <1>1 DEF Texts
<1>3. C \subseteq Int
  BY <1>1
<1>4. Len(s) \in Nat /\ s \in [1..Len(s) -> C]
  BY <1>2
<1>5. s \in [1..Len(s) -> Int]
  BY <1>3, <1>4
<1> QED BY <1>4, <1>5

(* Values that compare are in a strict order, but for those that are equal. *)
LEMMA ValueOrder ==
  ASSUME NEW v, NEW w, NEW x, IsValue(v), IsValue(w), IsValue(x),
         Comparable(v, w), Comparable(v, x), ValueLess(v, w)
  PROVE  ~ValueLess(w, v) /\ (ValueLess(v, x) \/ ValueLess(x, w))
<1>1. /\ Kind(w) = Kind(v) /\ Kind(x) = Kind(v)
      /\ Kind(v) \in {"num", "time", "str", "bool"}
  BY DEF Comparable
<1>2. CASE Kind(v) \in {"num", "time"}
  <2>1. v[2] \in Int /\ w[2] \in Int /\ x[2] \in Int
    BY <1>1, <1>2, ContentOf
  <2>2. /\ ValueLess(v, w) <=> v[2] < w[2]
        /\ ValueLess(w, v) <=> w[2] < v[2]
        /\ ValueLess(v, x) <=> v[2] < x[2]
        /\ ValueLess(x, w) <=> x[2] < w[2]
    BY <1>1, <1>2 DEF ValueLess
  <2> QED BY <2>1, <2>2
<1>3. CASE Kind(v) = "str"
  <2>1. v[2] \in Seq(Int) /\ w[2] \in Seq(Int) /\ x[2] \in Seq(Int)
    <3>1. v[2] \in Texts /\ w[2] \in Texts /\ x[2] \in Texts
      BY <1>1, <1>3, ContentOf
    <3> QED BY <3>1, TextOfNumbers
  <2>2. /\ ValueLess(v, w) <=> StringLess(v[2], w[2])
        /\ ValueLess(w, v) <=> StringLess(w[2], v[2])
        /\ ValueLess(v, x) <=> StringLess(v[2], x[2])
        /\ ValueLess(x, w) <=> StringLess(x[2], w[2])
    BY <1>1, <1>3 DEF ValueLess
  <2> QED BY <2>1, <2>2, StringOrder
<1>4. CASE Kind(v) = "bool"
  <2>1. v[2] \in BOOLEAN /\ w[2] \in BOOLEAN /\ x[2] \in BOOLEAN
    BY <1>1, <1>4, ContentOf
  <2>2. /\ ValueLess(v, w) <=> ~v[2] /\ w[2]
        /\ ValueLess(w, v) <=> ~w[2] /\ v[2]
        /\ ValueLess(v, x) <=> ~v[2] /\ x[2]
        /\ ValueLess(x, w) <=> ~x[2] /\ w[2]
    BY <1>1, <1>4 DEF ValueLess
  <2> QED BY <2>1, <2>2
<1> QED BY <1>1, <1>2, <1>3, <1>4

(* Two maps whose values of a field compare, if both have it. *)
Compare(a, b, field) ==
  /\ field \in DOMAIN a => IsValue(a[field])
  /\ field \in DOMAIN b => IsValue(b[field])
  /\ field \in DOMAIN a \cap DOMAIN b =>
       Comparable(a[field], b[field]) /\ Comparable(b[field], a[field])

(* So does the less function of sortEntities order them, in either direction,
   whichever of them have the field. *)
LEMMA LessOrder ==
  ASSUME NEW a, NEW b, NEW c, NEW field, NEW descending,
         Compare(a, b, field), Compare(a, c, field), Compare(b, c, field),
         Less(a, b, field, descending)
  PROVE  /\ ~Less(b, a, field, descending)
         /\ Less(a, c, field, descending) \/ Less(c, b, field, descending)
<1>1. CASE field \notin DOMAIN a \/ field \notin DOMAIN b
  BY <1>1 DEF Less
<1>2. CASE field \in DOMAIN a /\ field \in DOMAIN b /\ field \notin DOMAIN c
  <2>1. Comparable(a[field], b[field]) /\ Comparable(b[field], a[field])
    BY <1>2 DEF Compare
  <2>2. Less(a, c, field, descending) \/ Less(c, b, field, descending)
    BY <1>2 DEF Less
  <2>3. ~Less(b, a, field, descending)
    <3>1. IsValue(a[field]) /\ IsValue(b[field])
      BY <1>2 DEF Compare
    <3>2. Comparable(a[field], a[field]) /\ Comparable(b[field], b[field])
      BY <2>1 DEF Comparable
    <3> QED BY <1>2, <2>1, <3>1, <3>2, ValueOrder DEF Less
  <2> QED BY <2>2, <2>3
<1>3. CASE field \in DOMAIN a /\ field \in DOMAIN b /\ field \in DOMAIN c
  <2> DEFINE v == a[field]
             w == b[field]
             x == c[field]
  <2>1. IsValue(v) /\ IsValue(w) /\ IsValue(x)
    BY <1>3 DEF Compare
  <2>2. /\ Comparable(v, w) /\ Comparable(w, v) /\ Comparable(v, x)
        /\ Comparable(x, v) /\ Comparable(w, x) /\ Comparable(x, w)
    BY <1>3 DEF Compare
  <2>3. CASE descending
    <3>1. /\ Less(a, b, field, descending) <=> ValueLess(w, v)
          /\ Less(b, a, field, descending) <=> ValueLess(v, w)
          /\ Less(a, c, field, descending) <=> ValueLess(x, v)
          /\ Less(c, b, field, descending) <=> ValueLess(w, x)
      BY <1>3, <2>2, <2>3 DEF Less
    <3> HIDE DEF v, w, x
    <3> QED BY <2>1, <2>2, <3>1, ValueOrder
  <2>4. CASE ~descending
    <3>1. /\ Less(a, b, field, descending) <=> ValueLess(v, w)
          /\ Less(b, a, field, descending) <=> ValueLess(w, v)
          /\ Less(a, c, field, descending) <=> ValueLess(v, x)
          /\ Less(c, b, field, descending) <=> ValueLess(x, w)
      BY <1>3, <2>2, <2>4 DEF Less
    <3> HIDE DEF v, w, x
    <3> QED BY <2>1, <2>2, <3>1, ValueOrder
  <2> QED BY <2>3, <2>4
<1> QED BY <1>1, <1>2, <1>3

(* Where the values of the order's field compare, sort.Slice is given a strict
   weak order. *)
LEMMA OrderConsistent ==
  ASSUME NEW q, NEW S, NEW H,
         \A i, j \in S : Compare(H[i].fields, H[j].fields, OrderField(q))
  PROVE  /\ Consistent(q, S, H)
         /\ \A i \in S : ~Before(q, i, i, H)
<1>1. ASSUME NEW i \in S, NEW j \in S, NEW k \in S, Before(q, i, j, H)
      PROVE  ~Before(q, j, i, H) /\ (Before(q, i, k, H) \/ Before(q, k, j, H))
  BY <1>1, LessOrder DEF Before
<1> QED BY <1>1 DEF Consistent

-----------------------------------------------------------------------------
(* What Query selects is what the filters ask for. *)

(* Nothing but a fuzzy filter asks for the edit distance, and the texts in the
   store that it finds by the two rows of the code are those that it finds by
   the definition. *)
FuzzyAgrees ==
  \A w \in Range(Workloads) : \A q \in w.queries : \A f \in q.filters :
    f.operator = "fuzzy" =>
      \A s \in Texts : FuzzyMatch("rows", s, f.value[2], FuzzyOpts)
                         <=> FuzzyMatch("definition", s, f.value[2], FuzzyOpts)

LEMMA FilterValues ==
  ASSUME workload \in DOMAIN Workloads
  PROVE  /\ \A i \in DOMAIN Work.start : HasValues(Work.start[i].fields)
         /\ \A i \in DOMAIN Work.inserts : HasValues(Work.inserts[i].fields)
         /\ \A u \in Work.updates : IsValue(u.value)
         /\ \A q \in Work.queries :
              /\ \A f \in q.filters : IsValue(f.value)
              /\ q.handler \in {"create", "update"} => HasValues(q.fields)
<1>1. Work \in Range(Workloads)
  BY DEF Work, Range
<1> QED BY <1>1, WorkloadsAssumption, DataAssumption

(* An index lists a value under the key of another one of its kind only if
   they are equal, but for times. *)
LEMMA KeysApart ==
  ASSUME NEW v, NEW w, IsValue(v), IsValue(w),
         Kind(w) \notin {"null", "time"}, Kind(v) \in {Kind(w), "null"}
  PROVE  (Kind(v) # "null" /\ GetIndexableValue(v) = GetIndexableValue(w)) <=> v = w
<1>1. CASE Kind(v) = "null"
  BY <1>1
<1>2. CASE Kind(v) = Kind(w) /\ Kind(v) = "num"
  <2>1. /\ v = <<"num", v[2]>> /\ v[2] \in Int /\ w = <<"num", w[2]>> /\ w[2] \in Int
    BY <1>2, ContentOf
  <2>2. /\ GetIndexableValue(v) = <<"str", <<48 + v[2]>>>>
        /\ GetIndexableValue(w) = <<"str", <<48 + w[2]>>>>
    BY <1>2 DEF GetIndexableValue, DecimalText
  <2>3. ASSUME GetIndexableValue(v) = GetIndexableValue(w) PROVE v[2] = w[2]
    <3>1. <<48 + v[2]>> = <<48 + w[2]>>
      BY <2>2, <2>3
    <3>2. 48 + v[2] = 48 + w[2]
      BY <3>1
    <3> QED BY <2>1, <3>2
  <2> QED BY <1>2, <2>1, <2>3
<1>3. CASE Kind(v) = Kind(w) /\ Kind(v) = "bool"
  <2>1. /\ v = <<"bool", v[2]>> /\ v[2] \in BOOLEAN
        /\ w = <<"bool", w[2]>> /\ w[2] \in BOOLEAN
    BY <1>3, ContentOf
  <2>2. GetIndexableValue(<<"bool", TRUE>>) = <<"str", <<116, 114, 117, 101>>>>
    BY DEF GetIndexableValue, Kind
  <2>3. GetIndexableValue(<<"bool", FALSE>>) = <<"str", <<102, 97, 108, 115, 101>>>>
    BY DEF GetIndexableValue, Kind
  <2>4. GetIndexableValue(<<"bool", TRUE>>) # GetIndexableValue(<<"bool", FALSE>>)
    <3>1. <<116, 114, 117, 101>> # <<102, 97, 108, 115, 101>>
      OBVIOUS
    <3> QED BY <2>2, <2>3, <3>1
  <2>5. \/ v = <<"bool", TRUE>> \/ v = <<"bool", FALSE>>
    BY <2>1
  <2>6. \/ w = <<"bool", TRUE>> \/ w = <<"bool", FALSE>>
    BY <2>1
  <2> QED BY <1>3, <2>4, <2>5, <2>6
<1>4. CASE Kind(v) = Kind(w) /\ Kind(v) \notin {"num", "bool"}
  <2>1. GetIndexableValue(v) = v /\ GetIndexableValue(w) = w
    BY <1>4 DEF GetIndexableValue
  <2> QED BY <1>4, <2>1
<1> QED BY <1>1, <1>2, <1>3, <1>4

(* The kinds of the filters that go to an index, as WellTyped has it. *)
LEMMA FilterAgrees ==
  ASSUME FuzzyAgrees, workload \in DOMAIN Workloads, NEW q \in Work.queries,
         WellTyped(q), NEW f \in q.filters,
         NEW i \in OfType(q.type, live, heap), HasValues(heap[i].fields)
  PROVE  (IF UsesIndex(q.type, f)
            THEN i \in IndexLookup(q.type, f.field, f.value, live, heap)
            ELSE ScanMatches(heap[i].fields, f, "rows"))
         <=> ScanMatches(heap[i].fields, f, "definition")
<1>1. IsValue(f.value)
  BY FilterValues
<1>2. CASE UsesIndex(q.type, f)
  <2>1. f.operator = "eq" /\ Kind(f.value) \notin {"null", "time"}
    BY <1>2 DEF UsesIndex, WellTyped
  <2>2. CASE f.field \in DOMAIN heap[i].fields
    <3>1. IsValue(heap[i].fields[f.field])
      BY <2>2 DEF HasValues
    <3>2. Kind(heap[i].fields[f.field]) \in {Kind(f.value), "null"}
      BY <1>2, <2>2 DEF WellTyped
    <3>3. i \in IndexLookup(q.type, f.field, f.value, live, heap)
            <=> heap[i].fields[f.field] = f.value
      BY <1>1, <2>1, <2>2, <3>1, <3>2, KeysApart DEF IndexLookup
    <3>4. ScanMatches(heap[i].fields, f, "definition")
            <=> heap[i].fields[f.field] = f.value
      BY <2>1, <2>2 DEF ScanMatches, MatchesFilter
    <3> QED BY <1>2, <3>3, <3>4
  <2>3. CASE f.field \notin DOMAIN heap[i].fields
    BY <1>2, <2>3 DEF IndexLookup, ScanMatches
  <2> QED BY <2>2, <2>3
<1>3. CASE ~UsesIndex(q.type, f)
  <2>1. CASE f.operator # "fuzzy"
    BY <1>3, <2>1 DEF ScanMatches
  <2>2. CASE f.operator = "fuzzy"
    <3>1. CASE f.field \in DOMAIN heap[i].fields
               /\ Kind(heap[i].fields[f.field]) = "str"
      <4>1. heap[i].fields[f.field][2] \in Texts
        BY <3>1, ContentOf DEF HasValues
      <4>2. Work \in Range(Workloads)
        BY DEF Work, Range
      <4>3. FuzzyMatch("rows", heap[i].fields[f.field][2], f.value[2], FuzzyOpts)
              <=> FuzzyMatch("definition", heap[i].fields[f.field][2], f.value[2],
                             FuzzyOpts)
        BY <2>2, <4>1, <4>2 DEF FuzzyAgrees
      <4> QED BY <1>3, <2>2, <3>1, <4>3 DEF ScanMatches
    <3>2. CASE ~(f.field \in DOMAIN heap[i].fields
                 /\ Kind(heap[i].fields[f.field]) = "str")
      BY <1>3, <2>2, <3>2 DEF ScanMatches
    <3> QED BY <3>1, <3>2
  <2> QED BY <2>1, <2>2
<1> QED BY <1>2, <1>3

(* All values in the store are of the kinds that the filters know. *)
ValuesOK == \A i \in DOMAIN heap : HasValues(heap[i].fields)

LEMMA FilteredMatching ==
  ASSUME FuzzyAgrees, workload \in DOMAIN Workloads, ValuesOK,
         live \subseteq DOMAIN heap, NEW q \in Work.queries, WellTyped(q)
  PROVE  Filtered(q, live, heap) = Matching(q, live, heap)
<1>1. ASSUME NEW i \in OfType(q.type, live, heap)
      PROVE  i \in Filtered(q, live, heap) <=> i \in Matching(q, live, heap)
  <2>1. HasValues(heap[i].fields)
    BY DEF ValuesOK, OfType
  <2>2. \A f \in q.filters :
          (IF UsesIndex(q.type, f)
             THEN i \in IndexLookup(q.type, f.field, f.value, live, heap)
             ELSE ScanMatches(heap[i].fields, f, "rows"))
          <=> ScanMatches(heap[i].fields, f, "definition")
    BY <2>1, FilterAgrees
  <2> QED BY <2>2 DEF Filtered, Matching
<1> QED BY <1>1 DEF Filtered, Matching

LEMMA PutValues ==
  ASSUME NEW f, HasValues(f), NEW key, NEW v, IsValue(v)
  PROVE  HasValues(Put(f, key, v))
BY DEF HasValues, Put, Overlay

LEMMA OverlayValues ==
  ASSUME NEW f, HasValues(f), NEW g, HasValues(g)
  PROVE  HasValues(Overlay(g, f))
BY DEF HasValues, Overlay

LEMMA StampedValues ==
  ASSUME NEW e, IsEntity(e), HasValues(e.fields), NEW time \in Int
  PROVE  HasValues(Stamped(e, time).fields)
<1>1. Stamped(e, time) =
        [e EXCEPT !.fields = Put(e.fields, "_created_at", <<"time", time>>)]
  BY DEF Stamped
<1>2. IsValue(<<"time", time>>)
  BY DEF IsValue
<1>3. HasValues(Put(e.fields, "_created_at", <<"time", time>>))
  BY <1>2, PutValues
<1> QED BY <1>1, <1>3, FieldsChanged

LEMMA ValuesInit ==
  ASSUME Init
  PROVE  ValuesOK
<1>1. workload \in DOMAIN Workloads /\ heap = Work.start
  BY DEF Init
<1> QED BY <1>1, FilterValues DEF ValuesOK

(* What enters the store is stamped first. *)
LEMMA ValuesEnter ==
  ASSUME DataInv, ValuesOK, NEW i \in DOMAIN stamps, NEW e, IsEntity(e),
         HasValues(e.fields), heap' = Put(heap, i, Stamped(e, stamps[i]))
  PROVE  ValuesOK'
<1>1. stamps[i] \in Int
  BY DEF DataInv, StoreOK
<1>2. HasValues(Stamped(e, stamps[i]).fields)
  BY <1>1, StampedValues
<1>3. ASSUME NEW j \in DOMAIN heap'
      PROVE  HasValues(heap'[j].fields)
  <2>1. CASE j = i
    <3>1. heap'[i] = Stamped(e, stamps[i])
      BY DEF Put, Overlay
    <3> QED BY <1>2, <2>1, <3>1
  <2>2. CASE j # i
    <3>1. j \in DOMAIN heap /\ heap'[j] = heap[j]
      BY <1>3, <2>2 DEF Put, Overlay
    <3> QED BY <3>1 DEF ValuesOK
  <2> QED BY <2>1, <2>2
<1> QED BY <1>3 DEF ValuesOK

(* The fields of an entity were set one by one. *)
LEMMA ValuesSet ==
  ASSUME DataInv, ValuesOK, DOMAIN heap' = DOMAIN heap,
         \A j \in DOMAIN heap :
           \/ heap'[j] = heap[j]
           \/ \E g : heap'[j] = [heap[j] EXCEPT !.fields = g] /\ HasValues(g)
  PROVE  ValuesOK'
<1>1. ASSUME NEW j \in DOMAIN heap
      PROVE  HasValues(heap'[j].fields)
  <2>1. CASE heap'[j] = heap[j]
    BY <2>1 DEF ValuesOK
  <2>2. ASSUME NEW g, heap'[j] = [heap[j] EXCEPT !.fields = g], HasValues(g)
        PROVE  HasValues(heap'[j].fields)
    <3>1. IsEntity(heap[j])
      BY DEF DataInv, StoreOK
    <3> QED BY <2>2, <3>1, FieldsChanged
  <2> QED BY <2>1, <2>2
<1> QED BY <1>1 DEF ValuesOK

LEMMA ValuesStep ==
  ASSUME DataInv, RequestOK, ValuesOK, [DataNext]_vars
  PROVE  ValuesOK'
<1>1. workload \in DOMAIN Workloads
  BY DEF DataInv, PlaceOK
<1>2. ASSUME NEW i \in IDs, CommitInsert(i)
      PROVE  ValuesOK'
  <2>1. /\ i \in DOMAIN stamps /\ i \in DOMAIN Work.inserts
        /\ heap' = Put(heap, i, Stamped(Work.inserts[i], stamps[i]))
    BY <1>2 DEF CommitInsert
  <2>2. IsEntity(Work.inserts[i]) /\ HasValues(Work.inserts[i].fields)
    BY <1>1, <2>1, WorkloadFacts, FilterValues
  <2> QED BY <2>1, <2>2, ValuesEnter
<1>3. ASSUME NEW u \in Work.updates, Update(u)
      PROVE  ValuesOK'
  <2>1. /\ u.id \in DOMAIN heap
        /\ heap' = [heap EXCEPT ![u.id].fields = Put(@, u.field, u.value)]
    BY <1>3 DEF Update, DataInv, StoreOK
  <2>2. IsValue(u.value)
    BY <1>1, FilterValues
  <2>3. HasValues(Put(heap[u.id].fields, u.field, u.value))
    BY <2>1, <2>2, PutValues DEF ValuesOK
  <2>4. /\ DOMAIN heap' = DOMAIN heap
        /\ \A j \in DOMAIN heap \ {u.id} : heap'[j] = heap[j]
        /\ heap'[u.id] =
             [heap[u.id] EXCEPT !.fields = Put(heap[u.id].fields, u.field, u.value)]
    BY <2>1
  <2> QED BY <2>3, <2>4, ValuesSet
<1>4. CASE CommitCreate
  <2> DEFINE e == [type |-> req.type, fields |-> req.fields]
  <2>1. /\ pc = "insert" /\ heap' = Put(heap, req.id, Stamped(e, stamps[req.id]))
    BY <1>4 DEF CommitCreate
  <2>2. req.handler = "create" /\ req \in Work.queries /\ req.id \in DOMAIN stamps
    BY <2>1 DEF DataInv, PlaceOK, OwnStamp
  <2>3. IsEntity(e) /\ HasValues(e.fields)
    BY <1>1, <2>2, FilterValues DEF IsEntity
  <2> HIDE DEF e
  <2> QED BY <2>1, <2>2, <2>3, ValuesEnter
<1>5. CASE UpdateNamed
  <2>1. PICK found :
          heap' = [i \in DOMAIN heap |->
                     IF i \in ToSet(found)
                       THEN [heap[i] EXCEPT !.fields = Overlay(req.fields, @)]
                       ELSE heap[i]]
    BY <1>5 DEF UpdateNamed
  <2>2. HasValues(req.fields)
    <3>1. req.handler = "update" /\ req \in Work.queries
      BY <1>5 DEF UpdateNamed, DataInv, PlaceOK
    <3> QED BY <1>1, <3>1, FilterValues
  <2>3. ASSUME NEW j \in DOMAIN heap
        PROVE  \/ heap'[j] = heap[j]
               \/ \E g : heap'[j] = [heap[j] EXCEPT !.fields = g] /\ HasValues(g)
    <3>1. HasValues(Overlay(req.fields, heap[j].fields))
      BY <2>2, OverlayValues DEF ValuesOK
    <3>2. \/ heap'[j] = heap[j]
          \/ heap'[j] = [heap[j] EXCEPT !.fields = Overlay(req.fields, heap[j].fields)]
      BY <2>1
    <3> QED BY <3>1, <3>2
  <2>4. DOMAIN heap' = DOMAIN heap
    BY <2>1
  <2> QED BY <2>3, <2>4, ValuesSet
<1>6. CASE UNCHANGED heap
  BY <1>6 DEF ValuesOK
<1>7. ASSUME NEW i \in IDs, StampInsert(i) \/ Delete(i)
      PROVE  ValuesOK'
  BY <1>6, <1>7 DEF StampInsert, Delete
<1>8. ASSUME NEW q \in Work.queries, BeginStep(q)
      PROVE  ValuesOK'
  BY <1>6, <1>8 DEF BeginStep, Begin, storeVars
<1>9. CASE \/ EndStep \/ ReadPage \/ CopyRows \/ ReadTargets \/ ApplyJoin
           \/ CountStep \/ NextPage
  BY <1>6, <1>9 DEF EndStep, End, ReadPage, CopyRows, ReadTargets, ApplyJoin,
     CountStep, ExecuteCountQuery, NextPage, storeVars
<1>10. CASE \/ StampCreate \/ AnswerNewest \/ GetByType
            \/ TryFormat \/ InspectEntities \/ DeleteFound
  BY <1>6, <1>10 DEF StampCreate, AnswerNewest, GetByType, TryFormat,
     InspectEntities, DeleteFound, storeVars
<1>11. CASE UNCHANGED vars
  BY <1>6, <1>11 DEF vars, storeVars
<1> QED BY <1>2, <1>3, <1>4, <1>5, <1>7, <1>8, <1>9, <1>10, <1>11, RequestSteps
        DEF DataHandlerStep

LEMMA MaxMinOfTwo ==
  ASSUME NEW a \in Int, NEW b \in Int
  PROVE  /\ Max({a, b}) = IF a >= b THEN a ELSE b
         /\ Min({a, b}) = IF a <= b THEN a ELSE b
<1>1. \E x \in {a, b} : \A y \in {a, b} : x >= y
  OBVIOUS
<1>2. \E x \in {a, b} : \A y \in {a, b} : x <= y
  OBVIOUS
<1> QED BY <1>1, <1>2 DEF Max, Min

(* A page is as long as the limit or as what is left. *)
HasLength(p, all, from, limit) ==
  LET left == Max({0, all - from})
  IN Len(p) = IF limit > 0 THEN Min({left, limit}) ELSE left

LEMMA PageLength ==
  ASSUME NEW p, NEW s, NEW from \in Nat, NEW limit \in Nat, Len(s) \in Nat,
         IsPage(p, s, from, limit)
  PROVE  HasLength(p, Len(s), from, limit)
<1>1. PICK len \in Nat, all \in Nat : len = Len(p) /\ all = Len(s)
  BY DEF IsPage
<1>2. /\ limit > 0 => len <= limit
      /\ len > 0 => from + len <= all
      /\ limit = 0 \/ len # limit => all <= from + len
  BY <1>1 DEF IsPage
<1>3. PICK left \in Int : left = Max({0, all - from})
  BY MaxMinOfTwo
<1>4. left = IF 0 >= all - from THEN 0 ELSE all - from
  BY <1>3, MaxMinOfTwo
<1>5. CASE limit > 0
  <2>1. Min({left, limit}) = IF left <= limit THEN left ELSE limit
    <3>1. left \in Int /\ limit \in Int
      BY <1>3
    <3> QED BY ONLY <3>1, MaxMinOfTwo
  <2> QED BY <1>1, <1>2, <1>3, <1>4, <1>5, <2>1 DEF HasLength
<1>6. CASE ~(limit > 0)
  BY <1>1, <1>2, <1>3, <1>4, <1>6 DEF HasLength
<1> QED BY <1>5, <1>6

(* In a sorted sequence an element has at its place those before it in front
   and those after it behind. *)
IsRanked(q, S, H, i, place) ==
  /\ Cardinality({j \in S : Before(q, j, i, H)}) < place
  /\ place <= Cardinality(S \ {j \in S : Before(q, i, j, H)})

LEMMA RankOfPlace ==
  ASSUME NEW q, NEW S, IsFiniteSet(S), NEW H, NEW s \in Seq(S),
         \A m, n \in 1..Len(s) : s[m] = s[n] => m = n,
         \A i \in S : \E m \in 1..Len(s) : s[m] = i,
         \A i \in S : ~Before(q, i, i, H),
         \A m, n \in 1..Len(s) : m < n => ~Before(q, s[n], s[m], H),
         NEW place \in 1..Len(s)
  PROVE  IsRanked(q, S, H, s[place], place)
<1>1. Len(s) \in Nat /\ \A m \in 1..Len(s) : s[m] \in S
  OBVIOUS
<1> DEFINE Ahead == {j \in S : Before(q, j, s[place], H)}
           Rest == S \ {j \in S : Before(q, s[place], j, H)}
<1>2. PICK p \in 0..Len(s) : place = p + 1
  <2>1. place - 1 \in 0..Len(s) /\ place = (place - 1) + 1
    BY <1>1
  <2> QED BY <2>1
<1>3. \A i \in Ahead : \E m \in 1..p : i = s[m]
  <2>1. ASSUME NEW i \in Ahead PROVE \E m \in 1..p : i = s[m]
    <3>1. PICK m \in 1..Len(s) : s[m] = i
      OBVIOUS
    <3>2. Before(q, s[m], s[place], H)
      BY <3>1
    <3>3. ~(place < m) /\ m # place
      BY <1>1, <3>2
    <3>4. m \in 1..p
      BY <1>1, <1>2, <3>3
    <3> QED BY <3>1, <3>4
  <2> QED BY <2>1
<1>4. \A m \in 1..place : s[m] \in Rest
  <2>1. ASSUME NEW m \in 1..place PROVE s[m] \in Rest
    <3>1. m \in 1..Len(s) /\ (m < place \/ m = place)
      BY <1>1
    <3>2. ~Before(q, s[place], s[m], H)
      BY <1>1, <3>1
    <3> QED BY <1>1, <3>1, <3>2
  <2> QED BY <2>1
<1>5. IsFiniteSet(Rest)
  BY FS_Difference
<1> HIDE DEF Ahead, Rest
<1>6. Cardinality(Ahead) <= p /\ Cardinality(Ahead) \in Nat
  BY <1>3, AtMostPlaces
<1>7. place <= Cardinality(Rest)
  <2>1. place \in 0..Len(s)
    BY <1>1
  <2> QED BY <1>4, <1>5, <2>1, AtLeastPlaces
<1>8. Cardinality(Ahead) < place
  BY <1>1, <1>2, <1>6
<1> QED BY <1>7, <1>8 DEF Ahead, Rest, IsRanked

LEMMA ResultSorted ==
  ASSUME FuzzyAgrees, DataInv, RequestOK, ValuesOK, WellTyped(req), Orderable(req),
         NEW s \in Sorted(req, live, heap)
  PROVE  /\ \A m, n \in 1..Len(s) : m < n => ~Before(req, s[n], s[m], heap)
         /\ \A i \in Matching(req, live, heap) : ~Before(req, i, i, heap)
         /\ Filtered(req, live, heap) = Matching(req, live, heap)
         /\ IsFiniteSet(Matching(req, live, heap))
<1> DEFINE S == Matching(req, live, heap)
<1>1. Filtered(req, live, heap) = S
  BY FilteredMatching DEF DataInv, StoreOK, PlaceOK, RequestOK
<1>2. S \subseteq live /\ S \subseteq DOMAIN heap
  BY DEF Matching, OfType, DataInv, StoreOK
<1>3. IsFiniteSet(S)
  BY <1>2, FiniteStore DEF DataInv
<1>4. ASSUME NEW i \in S, NEW j \in S
      PROVE  Compare(heap[i].fields, heap[j].fields, OrderField(req))
  <2>1. HasValues(heap[i].fields) /\ HasValues(heap[j].fields)
    BY <1>2 DEF ValuesOK
  <2>2. OrderField(req) \in DOMAIN heap[i].fields \cap DOMAIN heap[j].fields =>
          /\ Comparable(heap[i].fields[OrderField(req)],
                        heap[j].fields[OrderField(req)])
          /\ Comparable(heap[j].fields[OrderField(req)],
                        heap[i].fields[OrderField(req)])
    BY DEF Orderable
  <2> QED BY <2>1, <2>2 DEF Compare, HasValues
<1> HIDE DEF S
<1>5. Consistent(req, S, heap) /\ \A i \in S : ~Before(req, i, i, heap)
  BY <1>4, OrderConsistent
<1>6. s \in SetToSeqs(S) /\ \A m, n \in DOMAIN s : m < n => ~Before(req, s[n], s[m], heap)
  BY <1>1, <1>5 DEF Sorted
<1>7. DOMAIN s = 1..Len(s)
  <2>1. s \in Seq(S)
    BY <1>3, <1>6, Permutation
  <2> QED BY <2>1
<1> QED BY <1>1, <1>3, <1>5, <1>6, <1>7 DEF S

LEMMA PageIsRight ==
  ASSUME FuzzyAgrees, DataInv, RequestOK, ValuesOK, ReadPage
  PROVE  PageRight
<1>0. SUFFICES ASSUME WellTyped(req), Orderable(req)
               PROVE  PageRight
  BY DEF PageRight
<1> DEFINE S == Matching(req, live, heap)
<1>1. PICK s \in Sorted(req, live, heap) :
        /\ page' = Slice(s, offset, req.limit) /\ total' = Len(s)
        /\ s \in Seq(Filtered(req, live, heap))
        /\ Len(s) = Cardinality(Filtered(req, live, heap))
        /\ Len(s) \in Nat /\ page' \in Seq(DOMAIN heap)
        /\ IsPage(page', s, offset, req.limit)
  BY ReadPageFacts
<1>2. /\ \A m, n \in 1..Len(s) : m < n => ~Before(req, s[n], s[m], heap)
      /\ \A i \in S : ~Before(req, i, i, heap)
      /\ Filtered(req, live, heap) = S /\ IsFiniteSet(S)
  BY <1>0, ResultSorted
<1>3. /\ \A m, n \in 1..Len(s) : s[m] = s[n] => m = n
      /\ \A i \in S : \E m \in 1..Len(s) : s[m] = i
  <2>1. s \in SetToSeqs(S)
    BY <1>2 DEF Sorted
  <2> QED BY <1>2, <2>1, Permutation
<1> HIDE DEF S
<1>4. offset \in Nat /\ req.limit \in Nat
  BY QueryFacts DEF DataInv, PlaceOK, RequestOK
<1>5. PICK from \in Nat : from = offset
  BY <1>4
<1> PICK p : p = page'
  OBVIOUS
<1>6. /\ p \in Seq(DOMAIN heap) /\ Len(p) \in Nat /\ DOMAIN p = 1..Len(p)
      /\ \A k \in 1..Len(p) : from + k \in 1..Len(s) /\ p[k] = s[from + k]
  BY <1>1, <1>5 DEF IsPage
<1>7. s \in Seq(S) /\ Len(s) = Cardinality(S) /\ total' = Cardinality(S)
  BY <1>1, <1>2
<1>8. HasLength(p, Cardinality(S), from, req.limit)
  <2>1. IsPage(p, s, from, req.limit)
    BY <1>1, <1>5
  <2>2. Len(s) \in Nat /\ req.limit \in Nat /\ from \in Nat
    BY <1>1, <1>4
  <2>3. HasLength(p, Len(s), from, req.limit)
    BY ONLY <2>1, <2>2, PageLength
  <2> QED BY <1>7, <2>3
<1>9. IsInjective(p) /\ ToSet(p) \subseteq S
  <2>1. ASSUME NEW a \in 1..Len(p), NEW b \in 1..Len(p), p[a] = p[b]
        PROVE  a = b
    <3>1. from + a = from + b
      BY <1>3, <1>6, <2>1
    <3> QED BY <1>6, <3>1
  <2>2. \A k \in 1..Len(p) : p[k] \in S
    BY <1>6, <1>7
  <2> QED BY <1>6, <2>1, <2>2 DEF IsInjective, ToSet
<1>10. ASSUME NEW n \in DOMAIN p
       PROVE  IsRanked(req, S, heap, p[n], from + n)
  <2>1. PICK place \in 1..Len(s) : place = from + n /\ p[n] = s[place]
    BY <1>6
  <2>2. IsRanked(req, S, heap, s[place], place)
    BY <1>2, <1>3, <1>7, RankOfPlace
  <2> QED BY <2>1, <2>2
<1> QED BY <1>5, <1>7, <1>8, <1>9, <1>10 DEF PageRight, S, HasLength, IsRanked

LEMMA CountIsRight ==
  ASSUME FuzzyAgrees, DataInv, RequestOK, ValuesOK, CountStep
  PROVE  CountRight
<1>0. SUFFICES ASSUME WellTyped(req), pc' = "answer",
                      req.joins # <<>> \/ \A f \in req.filters : f.operator # "fuzzy"
               PROVE  total' = Cardinality(Matching(req, live, heap))
  BY DEF CountRight
<1>1. total' = CountOf(req)
  BY <1>0 DEF CountStep, ExecuteCountQuery, End
<1>2. Filtered(req, live, heap) = Matching(req, live, heap)
  BY <1>0, FilteredMatching DEF DataInv, StoreOK, PlaceOK, RequestOK
<1>3. CASE req.joins # <<>>
  BY <1>1, <1>2, <1>3 DEF CountOf
<1>4. CASE req.joins = <<>> /\ \E f \in req.filters : req.filters = {f} /\ UsesIndex(req.type, f)
  <2>1. PICK f \in req.filters : req.filters = {f} /\ UsesIndex(req.type, f)
    BY <1>4
  <2>2. (CHOOSE g \in req.filters : TRUE) = f
    BY <2>1
  <2>3. CountOf(req) = Cardinality(IndexLookup(req.type, f.field, f.value, live, heap))
    BY <1>4, <2>2 DEF CountOf
  <2>4. Filtered(req, live, heap) = IndexLookup(req.type, f.field, f.value, live, heap)
    BY <2>1 DEF Filtered, IndexLookup
  <2> QED BY <1>1, <1>2, <2>3, <2>4
<1>5. CASE /\ req.joins = <<>>
           /\ ~\E f \in req.filters : req.filters = {f} /\ UsesIndex(req.type, f)
  <2>1. \A i : \A f \in req.filters :
          (f.operator # "fuzzy" /\ ScanMatches(heap[i].fields, f, "rows"))
            <=> ScanMatches(heap[i].fields, f, "definition")
    BY <1>0, <1>5 DEF ScanMatches
  <2>2. {i \in OfType(req.type, live, heap) :
           \A f \in req.filters :
             f.operator # "fuzzy" /\ ScanMatches(heap[i].fields, f, "rows")}
          = Matching(req, live, heap)
    BY <2>1 DEF Matching
  <2>3. CountOf(req) = Cardinality(Matching(req, live, heap))
    BY <1>5, <2>2 DEF CountOf
  <2> QED BY <1>1, <2>3
<1> QED BY <1>3, <1>4, <1>5

LEMMA RightStep ==
  ASSUME FuzzyAgrees, DataInv, RequestOK, ValuesOK, [DataNext]_vars
  PROVE  [PageRight]_vars /\ [CountRight]_vars
<1>1. CASE ReadPage
  BY <1>1, PageIsRight DEF ReadPage, CountRight
<1>2. CASE CountStep
  BY <1>2, CountIsRight DEF CountStep, ExecuteCountQuery, PageRight
<1>3. CASE pc # "read" \/ pc' \notin {"copy", "answer"}
  BY <1>3 DEF PageRight, CountRight
<1>4. CASE OthersStep
  <2>1. pc' = pc
    BY <1>4 DEF OthersStep, requestVars
  <2> QED BY <1>3, <2>1
<1>5. ASSUME NEW q \in Work.queries, BeginStep(q)
      PROVE  [PageRight]_vars /\ [CountRight]_vars
  BY <1>3, <1>5 DEF BeginStep, Begin, Idle
<1>6. CASE EndStep \/ CopyRows \/ ReadTargets \/ ApplyJoin \/ NextPage
  BY <1>3, <1>6 DEF EndStep, End, CopyRows, ReadTargets, ApplyJoin, NextPage
<1>7. CASE DataHandlerStep
  BY <1>3, <1>7 DEF DataHandlerStep, StampCreate, CommitCreate, AnswerNewest,
     GetByType, UpdateNamed, TryFormat, InspectEntities, DeleteFound
<1>8. CASE UNCHANGED vars
  BY <1>8
<1> QED BY <1>1, <1>2, <1>4, <1>5, <1>6, <1>7, <1>8, QuerySteps

LEMMA ValuesInvariant == DataSpec => [](DataInv /\ RequestOK /\ ValuesOK)
<1>1. Init => ValuesOK
  BY ValuesInit
<1>2. DataInv /\ QueryInv => DataInv /\ RequestOK
  BY DEF QueryInv
<1>3. DataInv /\ RequestOK /\ ValuesOK /\ [DataNext]_vars => ValuesOK'
  BY ValuesStep
<1> QED BY <1>1, <1>2, <1>3, QueryInvariant, PTL DEF DataSpec

(* A page that Query answers is the part of the result that its offset and
   limit name, by the definition of the filters: each entity has the rank its
   place says, whether indices or scans selected it and in whatever order the
   map was iterated, and the total is exact; excepted are the filters and
   orders over kinds that do not compare.  That a fuzzy filter finds what the
   edit distance says is left to FuzzyAgrees. *)
THEOREM PagesExact ==
  ASSUME FuzzyAgrees
  PROVE  DataSpec => PageExact
<1>1. DataInv /\ RequestOK /\ ValuesOK /\ [DataNext]_vars => [PageRight]_vars
  BY RightStep
<1> QED BY <1>1, ValuesInvariant, PTL DEF DataSpec, PageExact

(* Likewise a count is the number of the entities that match, on each of the
   paths that ExecuteCountQuery takes. *)
THEOREM CountsExact ==
  ASSUME FuzzyAgrees
  PROVE  DataSpec => CountExact
<1>1. DataInv /\ RequestOK /\ ValuesOK /\ [DataNext]_vars => [CountRight]_vars
  BY RightStep
<1> QED BY <1>1, ValuesInvariant, PTL DEF DataSpec, CountExact
=============================================================================
