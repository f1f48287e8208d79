---------------------------- MODULE DataHandlers ----------------------------
(***************************************************************************)
(* The HTTP handlers that create, read, update and delete one entity of an *)
(* auto-increment type (internal/api/handlers.go), beside the query        *)
(* handlers of QueryService and against the same changing store.           *)
(*                                                                         *)
(* A handler is several calls on the engine, each under locks of its own.  *)
(* The create handler does not learn the ID from Insert: it looks for the  *)
(* newest entity afterwards.  The delete handler looks for the entity      *)
(* under several readings of the ID in the URL before it deletes.          *)
(*                                                                         *)
(* Of the variables of the request, `page' holds the entity that the       *)
(* request is about and `targets' the one that is answered.  A `raw' ID of *)
(* a URL is a record of its sign ("", "+" or "-"; "x" is no number), of    *)
(* whether it has leading zeros, and of its number.  The IDs in the store  *)
(* have neither sign nor leading zeros, as the generator makes them.       *)
(***************************************************************************)
EXTENDS QueryService

(* No entity has this ID. *)
NoID == 10

RawID == [sign: {"", "+", "-", "x"}, zeros: BOOLEAN, num: 0..9]

(* What the requests carry.  The generator makes no ID that another Insert
   has. *)
ASSUME DataAssumption ==
  \A w \in Range(Workloads) : \A q \in w.queries :
    /\ q.handler = "create" =>
         q.id \in IDs \ DOMAIN w.inserts /\ "_created_at" \notin DOMAIN q.fields
    /\ q.handler = "update" => "_created_at" \notin DOMAIN q.fields
    /\ q.handler \in {"create", "update"} => HasValues(q.fields)
    /\ q.handler \in {"get", "update", "delete"} => q.raw \in RawID

(* ... which is what a text is taken for that no entity has as its ID. *)
Exact(raw) == IF raw.sign = "" /\ ~raw.zeros THEN raw.num ELSE NoID

Signed(raw) == IF raw.sign = "-" /\ raw.num # 0 THEN NoID ELSE raw.num

(* normalizeEntityID: ParseUint, which accepts no sign. *)
Normalizable(raw) == raw.sign = ""

(* A mutant: the ID is only tried as it stands in the URL. *)
FormatsAsGiven(raw) == <<Exact(raw)>>

(* The readings of the ID that handleDeleteEntity tries.  The error of
   ParseUint on a sign is dropped, and what is tried is "0". *)
Formats(raw) ==
  IF raw.sign = "x" THEN <<NoID>>
  ELSE <<Exact(raw), IF raw.sign = "" THEN raw.num ELSE 0,
         Signed(raw), Signed(raw)>>

(* The request arrives; an unknown type is refused. *)
Arrives(q, handler, place) ==
  q.handler = handler /\ q.type \in Registered /\ Begin(q, place)

Answers(touched, answer) ==
  /\ page' = touched /\ targets' = answer
  /\ pc' = "answer"
  /\ UNCHANGED <<workload, clock, stamps, req, offset, rows, joinNo, pass, total,
                 hasMore>>

-----------------------------------------------------------------------------
(* handleCreateEntity: Insert generates an ID, a new one (AutoIncrement), and
   stamps the entity ... *)
HandleCreateEntity(q) ==
  Arrives(q, "create", "stamp") /\ q.id \notin DOMAIN heap

StampCreate ==
  /\ pc = "stamp"
  /\ stamps' = Put(stamps, req.id, clock)
  /\ clock' = clock + 1
  /\ pc' = "insert"
  /\ UNCHANGED <<workload, live, heap, req, offset, page, rows, joinNo, pass,
                 targets, total, hasMore, walkVars, joinVars>>

(* ... and commits it ... *)
CommitCreate ==
  /\ pc = "insert"
  /\ live' = live \cup {req.id}
  /\ heap' = Put(heap, req.id,
                 Stamped([type |-> req.type, fields |-> req.fields],
                         stamps[req.id]))
  /\ stamps' = Restrict(stamps, DOMAIN stamps \ {req.id})
  /\ page' = <<req.id>>
  /\ pc' = "newest"
  /\ UNCHANGED <<workload, clock, req, offset, rows, joinNo, pass, targets, total,
                 hasMore>>
  /\ Remember

Created(i) == heap[i].fields["_created_at"][2]

(* A mutant: the oldest one. *)
Oldest(t) ==
  {i \in OfType(t, live, heap) :
     \A j \in OfType(t, live, heap) : Created(i) <= Created(j)}

(* The newest entities of the type; the one met first is taken. *)
Newest(t) ==
  {i \in OfType(t, live, heap) :
     \A j \in OfType(t, live, heap) : Created(j) <= Created(i)}

(* ... and the handler answers with the newest one there is, or none. *)
AnswerNewest ==
  /\ pc = "newest"
  /\ \/ Newest(req.type) = {} /\ Answers(page, <<>>)
     \/ \E i \in Newest(req.type) : Answers(page, <<i>>)
  /\ UNCHANGED <<live, heap, walkVars, joinVars>>

-----------------------------------------------------------------------------
Stored(t, i) == i \in OfType(t, live, heap)

Found(t, i) == IF Stored(t, i) THEN <<i>> ELSE <<>>

(* handleGetEntity *)
HandleGetEntity(q) == Arrives(q, "get", "get")

GetByType ==
  /\ pc = "get"
  /\ LET found == IF Normalizable(req.raw) THEN Found(req.type, req.raw.num)
                                           ELSE <<>>
     IN Answers(found, found)
  /\ UNCHANGED <<live, heap, walkVars, joinVars>>

(* handleUpdateEntity *)
HandleUpdateEntity(q) == Arrives(q, "update", "update")

UpdateNamed ==
  /\ pc = "update"
  /\ LET found == IF Normalizable(req.raw) THEN Found(req.type, req.raw.num)
                                           ELSE <<>>
     IN /\ heap' = [i \in DOMAIN heap |->
                      IF i \in ToSet(found)
                        THEN [heap[i] EXCEPT !.fields = Overlay(req.fields, @)]
                        ELSE heap[i]]
        /\ Answers(found, found)
  /\ UNCHANGED live
  /\ Remember

(* handleDeleteEntity: Get, of whatever type, for one reading after the other;
   `total' counts them ... *)
HandleDeleteEntity(q) == Arrives(q, "delete", "find")

TryFormat ==
  /\ pc = "find" /\ total < Len(Formats(req.raw))
  /\ LET format == Formats(req.raw)[total + 1]
     IN IF format \in live
          THEN pc' = "delete" /\ page' = <<format>> /\ UNCHANGED total
          ELSE total' = total + 1 /\ UNCHANGED <<pc, page>>
  /\ UNCHANGED <<workload, storeVars, req, offset, rows, joinNo, pass, targets,
                 hasMore, walkVars, joinVars>>

(* ... then a last look at the whole map, for the ID as it stands ... *)
InspectEntities ==
  /\ pc = "find" /\ total = Len(Formats(req.raw))
  /\ IF Stored(req.type, Exact(req.raw))
       THEN /\ pc' = "delete" /\ page' = <<Exact(req.raw)>>
            /\ UNCHANGED <<workload, clock, stamps, req, offset, rows, joinNo,
                           pass, targets, total, hasMore>>
       ELSE Answers(<<>>, <<>>)
  /\ UNCHANGED <<live, heap, walkVars, joinVars>>

(* ... and Delete, of the type. *)
DeleteFound ==
  /\ pc = "delete"
  /\ LET found == Found(req.type, page[1])
     IN live' = live \ ToSet(found) /\ Answers(found, found)
  /\ UNCHANGED heap
  /\ Remember

-----------------------------------------------------------------------------
DataNext ==
  \/ Next
  \/ \E q \in Work.queries :
       \/ HandleCreateEntity(q) \/ HandleGetEntity(q)
       \/ HandleUpdateEntity(q) \/ HandleDeleteEntity(q)
  \/ StampCreate \/ CommitCreate \/ AnswerNewest
  \/ GetByType \/ UpdateNamed
  \/ TryFormat \/ InspectEntities \/ DeleteFound

DataSpec == Init /\ [][DataNext]_vars

-----------------------------------------------------------------------------
(* The create handler: "We need to find the entity that was just inserted".  It
   answers with the ID of the entity it created, although others are inserted
   that were stamped before it and committed after it, deleted and changed;
   excepted are an Insert that was stamped after it, and the deletion of the
   entity itself.  (The clock moves with every stamp.) *)
CreateAnswersOwn ==
  pc = "answer" /\ req.handler = "create" /\ page[1] \in live
    /\ clock = Created(page[1]) + 1
  => targets = page

(* What a request with an ID reads, changes or deletes is the entity of the
   type that has this number, and an entity that was there all the time is
   reached, whatever is inserted and deleted between the calls on the engine
   and however the ID is written, if the handler accepts it.  (Excepted is the
   deletion by an ID with a sign while there is an entity 0.) *)
ReachesTheNamed ==
  pc = "answer" /\ req.handler \in {"get", "update", "delete"}
    /\ (Normalizable(req.raw) \/ 0 \notin DOMAIN heap)
  => /\ page # <<>> =>
          /\ page = <<req.raw.num>> /\ heap[page[1]].type = req.type
          /\ req.raw.sign \in {"", "+"}
     /\ page = <<>> /\ req.raw.num \in stable =>
          req.raw.sign \in (IF req.handler = "delete" THEN {"-", "x"}
                                                      ELSE {"+", "-", "x"})
=============================================================================
