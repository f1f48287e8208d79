---------------------------- MODULE EngineAudit ----------------------------
(***************************************************************************)
(* Engine with two history variables that judge its rollbacks: what the    *)
(* documents were when the last request was answered, and whether requests *)
(* have overlapped.                                                        *)
(***************************************************************************)
EXTENDS Engine

CONSTANT NoDocument

ASSUME NoDocumentAssumption == NoDocument \notin Values \cup {Nil}

VARIABLES answered, overlapped

auditVars == <<vars, answered, overlapped>>

Documents ==
  [t \in Types |-> [i \in IDs |->
     IF Exists(t, i) THEN FieldOf(t, i) ELSE NoDocument]]

AuditInit ==
  /\ Init
  /\ answered = Documents
  /\ overlapped = FALSE

(* The answer says what became of the request.  A truncation that could not be
   persisted is announced as an error and stays in effect. *)
Announced(r) ==
  \/ pc'[r] = "ok"
  \/ pc'[r] = "failed" /\ req[r].op \in {"truncate", "truncatedb"}

Audit ==
  /\ answered' = IF \E r \in Requests : pc[r] # pc'[r] /\ Announced(r)
                   THEN Documents' ELSE answered
  /\ overlapped' =
       (overlapped \/ Cardinality({r \in Requests : Active(r)'}) > 1)

AuditNext ==
  \E r \in Requests :
    \/ Prepare(r) /\ Audit
    \/ Commit(r) /\ Audit
    \/ Persisted(r) /\ Audit
    \/ InsertRollback(r) /\ Audit
    \/ UpdateRollback(r) /\ Audit
    \/ DeleteRollback(r) /\ Audit
    \/ TruncateFails(r) /\ Audit

AuditSpec == AuditInit /\ [][AuditNext]_auditVars

(* Requests that do not overlap find exact indices, whichever persistence calls
   fail: a rollback takes back every index entry and restores every one. *)
RollbackRestoresIndices == overlapped \/ (UniqueIndexExact /\ IndexExact)

(* With nobody in flight, and no overlap so far, the store is what the answers
   made of it: the requests whose persistence call failed left no trace.
   (engine: "If persistence fails, we need to remove the entity from memory",
   "Rollback in-memory state on error", "Restore original entity".) *)
FailedLeaveNoTrace ==
  overlapped \/ (\E r \in Requests : Active(r)) \/ Documents = answered
=============================================================================
