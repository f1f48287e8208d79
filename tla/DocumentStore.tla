---------------------------- MODULE DocumentStore ----------------------------
(***************************************************************************)
(* What the engine promises its clients, with neither locks nor indices:   *)
(* a table of documents in which every request takes effect in one step,   *)
(* between its arrival and its answer, or is refused for a reason that is  *)
(* true of the table at a moment in between.  Uniqueness is stated on the  *)
(* documents themselves.                                                   *)
(***************************************************************************)
EXTENDS Naturals

CONSTANTS Requests, Types, IDs, Values, Nil, Absent, BadValue, Unregistered,
          NoRequest, NoDocument, Workload

VARIABLES
  schema,    \* type -> its schema
  contents,  \* type, ID -> the field of the document, or NoDocument
  status,    \* how far each request is
  asked      \* what each request asks for

absVars == <<schema, contents, status, asked>>

Known(t) == schema[t] # Unregistered

Present(t, i) == contents[t][i] # NoDocument

(* Giving document i the value v would make it a second one with v. *)
Taken(t, i, v) ==
  /\ Known(t) /\ schema[t].unique
  /\ v \in Values
  /\ \E j \in IDs \ {i} : contents[t][j] = v

NewField(q) ==
  CASE q.val = Absent /\ q.op = "update" -> contents[q.type][q.id]
    [] q.val \in Values -> q.val
    [] OTHER -> Nil

Acceptable(q) ==
  CASE q.op = "insert" -> /\ Known(q.type) /\ q.val # BadValue
                          /\ ~Present(q.type, q.id)
                          /\ ~Taken(q.type, q.id, NewField(q))
    [] q.op = "update" -> /\ Present(q.type, q.id) /\ q.val # BadValue
                          /\ ~Taken(q.type, q.id, NewField(q))
    [] q.op = "delete" -> Present(q.type, q.id)
    [] q.op = "truncate" -> Known(q.type)
    [] OTHER -> TRUE

Effect(q) ==
  CASE q.op \in {"insert", "update"} ->
         [contents EXCEPT ![q.type][q.id] = NewField(q)]
    [] q.op = "delete" -> [contents EXCEPT ![q.type][q.id] = NoDocument]
    [] q.op = "truncate" ->
         [contents EXCEPT ![q.type] = [i \in IDs |-> NoDocument]]
    [] OTHER -> [t \in Types |-> [i \in IDs |-> NoDocument]]

AbsInit ==
  /\ contents = [t \in Types |-> [i \in IDs |-> NoDocument]]
  /\ status = [r \in Requests |-> "idle"]
  /\ asked = [r \in Requests |-> NoRequest]

Arrives(r, q) ==
  /\ status[r] = "idle"
  /\ asked' = [asked EXCEPT ![r] = q]
  /\ status' = [status EXCEPT ![r] = "waiting"]
  /\ UNCHANGED <<schema, contents>>

RefusedAtOnce(r, q) ==
  /\ status[r] = "idle"
  /\ ~Acceptable(q)
  /\ asked' = [asked EXCEPT ![r] = q]
  /\ status' = [status EXCEPT ![r] = "rejected"]
  /\ UNCHANGED <<schema, contents>>

Refused(r) ==
  /\ status[r] = "waiting"
  /\ ~Acceptable(asked[r])
  /\ status' = [status EXCEPT ![r] = "rejected"]
  /\ UNCHANGED <<schema, contents, asked>>

TakesEffect(r) ==
  /\ status[r] = "waiting"
  /\ Acceptable(asked[r])
  /\ contents' = Effect(asked[r])
  /\ status' = [status EXCEPT ![r] = "effective"]
  /\ UNCHANGED <<schema, asked>>

(* A truncation of what is empty already is answered at once. *)
NothingToDo(r) ==
  /\ status[r] = "waiting"
  /\ asked[r].op \in {"truncate", "truncatedb"}
  /\ Effect(asked[r]) = contents
  /\ status' = [status EXCEPT ![r] = "ok"]
  /\ UNCHANGED <<schema, contents, asked>>

Answered(r) ==
  /\ status[r] = "effective"
  /\ status' = [status EXCEPT ![r] = "ok"]
  /\ UNCHANGED <<schema, contents, asked>>

(* The client learns that a truncation is not on disk; it took effect. *)
NotOnDisk(r) ==
  /\ status[r] = "effective"
  /\ asked[r].op \in {"truncate", "truncatedb"}
  /\ status' = [status EXCEPT ![r] = "failed"]
  /\ UNCHANGED <<schema, contents, asked>>

AbsNext ==
  \E r \in Requests :
    \/ \E q \in Workload : Arrives(r, q) \/ RefusedAtOnce(r, q)
    \/ Refused(r) \/ TakesEffect(r) \/ NothingToDo(r)
    \/ Answered(r) \/ NotOnDisk(r)

AbsSpec == AbsInit /\ [][AbsNext]_absVars
=============================================================================
