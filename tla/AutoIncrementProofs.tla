------------------------ MODULE AutoIncrementProofs ------------------------
(***************************************************************************)
(* What AutoIncrement guarantees for any number of requests, IDs, crashes  *)
(* and snapshots: its types, that the generator never makes an ID twice    *)
(* that was used before (NeverReused), and that two Inserts in flight have *)
(* different IDs from it (GeneratedIDsDistinct).                           *)
(***************************************************************************)
EXTENDS AutoIncrement, WellFoundedInduction, TLAPS

Places == {"idle", "done", "exists", "notfound", "lost", "generate", "check",
           "commit", "log", "counter", "save", "copy", "savemarks", "remove",
           "logdelete", "logtruncate"}

LogEntry == [op: {"insert", "delete"}, id: IDs]
              \cup [op: {"truncate"}, id: {0}]

(* A request has got an ID that it has not logged yet. *)
WorksOn(r) == pc[r] \in {"check", "commit", "log", "copy", "savemarks",
                         "remove", "logdelete"}

(* Where the requests are, and what they carry there. *)
RequestsOK ==
  /\ pc \in [Requests -> Places]
  /\ \A r \in Requests : WorksOn(r) => id[r] \in IDs
  /\ \A r \in Requests : pc[r] = "idle" => ~generated[r]
  /\ \A r \in Requests :
       pc[r] = "save" => \E c \in 0..MaxID : buf[r] = {c}
  /\ \A r \in Requests : pc[r] = "savemarks" => buf[r] \subseteq IDs

(* The log, and how far a recovery is with it. *)
RecoveryOK ==
  /\ log \in Seq(LogEntry)
  /\ recovering \in BOOLEAN
  /\ replayed \in 0..Len(log)
  /\ IF recovering THEN crashes > 0 /\ \A r \in Requests : AtRest(r)
                   ELSE replayed = 0
  /\ crashes \in Nat /\ snapshots \in Nat
  /\ snapshots = 0 => snap = {}

(* Request r has an ID of the generator that is not logged yet. *)
Holds(r) == generated[r] /\ pc[r] \in {"check", "commit", "log"}

HeldDistinct ==
  /\ \A r \in Requests : Holds(r) => id[r] <= counter
  /\ \A r, s \in Requests : r # s /\ Holds(r) /\ Holds(s) => id[r] # id[s]

(* The condition of NeverReused. *)
Judged == crashes > 0 => snapshots = 0 /\ ~TruncateLogged

(* Up to a snapshot the log has an Insert for each used ID ... *)
UsedLogged ==
  snapshots = 0 =>
    \A i \in used : \E k \in 1..Len(log) : log[k] = [op |-> "insert", id |-> i]

(* ... and the replay of an Insert leaves the ID alive or marked, so that ... *)
ReplayedKnown ==
  recovering /\ Judged =>
    \A k \in 1..replayed : log[k].op = "insert" => log[k].id \in live \cup deletedIDs

(* ... each used ID is below the counter or marked when requests are served. *)
UsedBarred ==
  ~recovering /\ Judged => \A i \in used : i <= counter \/ i \in deletedIDs

(* An ID that was used is caught by CheckDeleted. *)
HeldUnused ==
  Judged => \A r \in Requests :
    Holds(r) => \/ id[r] \notin used
                \/ pc[r] = "check" /\ id[r] \in deletedIDs

IndInv ==
  /\ TypeOK /\ RequestsOK /\ RecoveryOK
  /\ HeldDistinct /\ UsedLogged /\ ReplayedKnown /\ UsedBarred /\ HeldUnused

-----------------------------------------------------------------------------
(* A set of numbers that is not empty has a least element: induction over the
   numbers, in the form in which it can be used here. *)
LEMMA LeastElement ==
  ASSUME NEW S \in SUBSET Nat, S # {}
  PROVE  \E m \in S : \A n \in S : m <= n
<1> DEFINE Less == OpToRel(<, Nat)
<1>1. IsWellFoundedOn(Less, Nat)
  BY NatLessThanWellFounded
<1>2. \A m, n \in Nat : n < m => <<n, m>> \in Less
  BY DEF OpToRel
<1> HIDE DEF Less
<1>3. PICK m \in S : \A n \in S : ~(<<n, m>> \in Less)
  BY <1>1, WFMin
<1>4. ASSUME NEW n \in S PROVE m <= n
  <2>1. ~(n < m)
    BY <1>2, <1>3
  <2> QED BY <2>1
<1> QED BY <1>4

(* Max is what it says on the sets that the engine takes it of. *)
LEMMA MaxIsGreatest ==
  ASSUME NEW N \in Nat, NEW S \in SUBSET (0..N), S # {}
  PROVE  Max(S) \in S /\ \A i \in S : i <= Max(S)
<1> DEFINE T == {N - i : i \in S}
<1>1. T \in SUBSET Nat /\ T # {}
  <2>1. \A i \in S : N - i \in Nat
    OBVIOUS
  <2>2. PICK i \in S : TRUE
    OBVIOUS
  <2>3. N - i \in T
    OBVIOUS
  <2> QED BY <2>1, <2>3
<1>2. PICK m \in T : \A n \in T : m <= n
  BY <1>1, LeastElement
<1>3. PICK x \in S : m = N - x
  OBVIOUS
<1>4. \A y \in S : x >= y
  BY <1>2, <1>3
<1> QED BY <1>4 DEF Max

(* Increment keeps the inductive invariant. *)
LEMMA IncrementKeeps ==
  ASSUME IndInv, NEW r \in Requests, Increment(r)
  PROVE  IndInv'
<1> USE AutoIncrementAssumption DEF IndInv
<1>0. /\ ~recovering
      /\ Judged' = Judged
      /\ id'[r] = counter + 1 /\ id'[r] \in IDs
  <2>1. ~recovering
    BY DEF Increment, Arrives, RecoveryOK, AtRest
  <2>2. Judged' = Judged
    BY DEF Increment, Judged, TruncateLogged, disk, history
  <2> QED BY <2>1, <2>2 DEF Increment, TypeOK, IDs
<1>1. TypeOK'
  BY DEF Increment, TypeOK, RequestsOK, RecoveryOK, WorksOn, IDs, LogEntry,
         Goes, Arrives, disk, history, recovery
<1>2. RequestsOK'
  BY DEF Increment, TypeOK, RequestsOK, RecoveryOK, Places, WorksOn, IDs,
         AtRest, Goes, Arrives, disk, history, recovery
<1>3. RecoveryOK'
  BY DEF Increment, TypeOK, RequestsOK, RecoveryOK, LogEntry, WorksOn, IDs,
         AtRest, Goes, Arrives, disk, history, recovery
<1>4. HeldDistinct'
  BY DEF Increment, TypeOK, RequestsOK, RecoveryOK, HeldDistinct, Holds,
         AtRest, Goes, Arrives, disk, history, recovery
<1>5. UsedLogged'
  BY DEF Increment, TypeOK, RequestsOK, RecoveryOK, UsedLogged, LogEntry, Goes,
         Arrives, disk, history, recovery
<1>6. ReplayedKnown'
  BY DEF Increment, TypeOK, RequestsOK, RecoveryOK, ReplayedKnown, Judged,
         TruncateLogged, AtRest, Goes, Arrives, disk, history, recovery
<1>7. UsedBarred'
  BY <1>0 DEF Increment, UsedBarred, TypeOK, IDs, recovery, history
<1>8. HeldUnused'
  <2> SUFFICES ASSUME Judged', NEW s \in Requests, Holds(s)'
               PROVE  \/ id'[s] \notin used
                      \/ pc'[s] = "check" /\ id'[s] \in deletedIDs
    BY DEF Increment, HeldUnused, history
  <2>1. CASE s = r
    <3>1. id'[s] \in used => id'[s] \in deletedIDs
      BY <1>0, <2>1 DEF UsedBarred, TypeOK
    <3> QED BY <2>1, <3>1 DEF Increment, Goes, RequestsOK
  <2>2. CASE s # r
    BY <1>0, <2>2 DEF Increment, Goes, RequestsOK, TypeOK, HeldUnused, Holds
  <2> QED BY <2>1, <2>2
<1> QED BY <1>1, <1>2, <1>3, <1>4, <1>5, <1>6, <1>7, <1>8

(* CheckDeleted keeps the inductive invariant. *)
LEMMA CheckDeletedKeeps ==
  ASSUME IndInv, NEW r \in Requests, CheckDeleted(r)
  PROVE  IndInv'
<1> USE AutoIncrementAssumption DEF IndInv
<1>1. TypeOK'
  BY DEF CheckDeleted, TypeOK, RequestsOK, RecoveryOK, WorksOn, IDs, LogEntry,
         Goes, memory, disk, history, recovery
<1>2. RequestsOK'
  BY DEF CheckDeleted, TypeOK, RequestsOK, RecoveryOK, Places, WorksOn, IDs,
         AtRest, Goes, memory, disk, history, recovery
<1>3. RecoveryOK'
  BY DEF CheckDeleted, TypeOK, RequestsOK, RecoveryOK, LogEntry, WorksOn, IDs,
         AtRest, Goes, memory, disk, history, recovery
<1>4. HeldDistinct'
  BY DEF CheckDeleted, TypeOK, RequestsOK, RecoveryOK, HeldDistinct, Holds,
         AtRest, Goes, memory, disk, history, recovery
<1>5. UsedLogged'
  BY DEF CheckDeleted, TypeOK, RequestsOK, RecoveryOK, UsedLogged, LogEntry,
         Goes, memory, disk, history, recovery
<1>6. ReplayedKnown'
  BY DEF CheckDeleted, TypeOK, RequestsOK, RecoveryOK, ReplayedKnown, Judged,
         TruncateLogged, AtRest, Goes, memory, disk, history, recovery
<1>7. UsedBarred'
  BY DEF CheckDeleted, TypeOK, RequestsOK, RecoveryOK, UsedBarred,
         HeldDistinct, Holds, Judged, TruncateLogged, AtRest, Goes, memory,
         disk, history, recovery
<1>8. HeldUnused'
  BY DEF CheckDeleted, TypeOK, RequestsOK, RecoveryOK, UsedBarred,
         HeldDistinct, HeldUnused, Holds, Judged, TruncateLogged, AtRest, Goes,
         memory, disk, history, recovery
<1> QED BY <1>1, <1>2, <1>3, <1>4, <1>5, <1>6, <1>7, <1>8

(* ChooseID keeps the inductive invariant. *)
LEMMA ChooseIDKeeps ==
  ASSUME IndInv, NEW r \in Requests, ChooseID(r)
  PROVE  IndInv'
<1> USE AutoIncrementAssumption DEF IndInv
<1>1. TypeOK'
  BY DEF ChooseID, TypeOK, RequestsOK, RecoveryOK, WorksOn, IDs, LogEntry,
         Goes, Arrives, memory, disk, history, recovery
<1>2. RequestsOK'
  BY DEF ChooseID, TypeOK, RequestsOK, RecoveryOK, Places, WorksOn, IDs,
         AtRest, Goes, Arrives, memory, disk, history, recovery
<1>3. RecoveryOK'
  BY DEF ChooseID, TypeOK, RequestsOK, RecoveryOK, LogEntry, WorksOn, IDs,
         AtRest, Goes, Arrives, memory, disk, history, recovery
<1>4. HeldDistinct'
  BY DEF ChooseID, TypeOK, RequestsOK, RecoveryOK, HeldDistinct, Holds, AtRest,
         Goes, Arrives, memory, disk, history, recovery
<1>5. UsedLogged'
  BY DEF ChooseID, TypeOK, RequestsOK, RecoveryOK, UsedLogged, LogEntry, Goes,
         Arrives, memory, disk, history, recovery
<1>6. ReplayedKnown'
  BY DEF ChooseID, TypeOK, RequestsOK, RecoveryOK, ReplayedKnown, Judged,
         TruncateLogged, AtRest, Goes, Arrives, memory, disk, history, recovery
<1>7. UsedBarred'
  BY DEF ChooseID, TypeOK, RequestsOK, RecoveryOK, UsedBarred, HeldDistinct,
         Holds, Judged, TruncateLogged, AtRest, Goes, Arrives, memory, disk,
         history, recovery
<1>8. HeldUnused'
  BY DEF ChooseID, TypeOK, RequestsOK, RecoveryOK, UsedBarred, HeldDistinct,
         HeldUnused, Holds, Judged, TruncateLogged, AtRest, Goes, Arrives,
         memory, disk, history, recovery
<1> QED BY <1>1, <1>2, <1>3, <1>4, <1>5, <1>6, <1>7, <1>8

(* CommitInsert keeps the inductive invariant. *)
LEMMA CommitInsertKeeps ==
  ASSUME IndInv, NEW r \in Requests, CommitInsert(r)
  PROVE  IndInv'
<1> USE AutoIncrementAssumption DEF IndInv
<1>1. TypeOK'
  BY DEF CommitInsert, TypeOK, RequestsOK, RecoveryOK, WorksOn, IDs, LogEntry,
         Goes, disk, history, recovery
<1>2. RequestsOK'
  BY DEF CommitInsert, TypeOK, RequestsOK, RecoveryOK, Places, WorksOn, IDs,
         AtRest, Goes, disk, history, recovery
<1>3. RecoveryOK'
  BY DEF CommitInsert, TypeOK, RequestsOK, RecoveryOK, LogEntry, WorksOn, IDs,
         AtRest, Goes, disk, history, recovery
<1>4. HeldDistinct'
  BY DEF CommitInsert, TypeOK, RequestsOK, RecoveryOK, HeldDistinct, Holds,
         AtRest, Goes, disk, history, recovery
<1>5. UsedLogged'
  BY DEF CommitInsert, TypeOK, RequestsOK, RecoveryOK, UsedLogged, LogEntry,
         Goes, disk, history, recovery
<1>6. ReplayedKnown'
  BY DEF CommitInsert, TypeOK, RequestsOK, RecoveryOK, ReplayedKnown, Judged,
         TruncateLogged, AtRest, Goes, disk, history, recovery
<1>7. UsedBarred'
  BY DEF CommitInsert, TypeOK, RequestsOK, RecoveryOK, UsedBarred,
         HeldDistinct, Holds, Judged, TruncateLogged, AtRest, Goes, disk,
         history, recovery
<1>8. HeldUnused'
  BY DEF CommitInsert, TypeOK, RequestsOK, RecoveryOK, UsedBarred,
         HeldDistinct, HeldUnused, Holds, Judged, TruncateLogged, AtRest, Goes,
         disk, history, recovery
<1> QED BY <1>1, <1>2, <1>3, <1>4, <1>5, <1>6, <1>7, <1>8

(* LogInsert keeps the inductive invariant. *)
LEMMA LogInsertKeeps ==
  ASSUME IndInv, NEW r \in Requests, LogInsert(r)
  PROVE  IndInv'
<1> USE AutoIncrementAssumption DEF IndInv
<1>0. Judged' => Judged
  BY DEF LogInsert, Judged, TruncateLogged, RecoveryOK, history, recovery
<1>1. TypeOK'
  BY DEF LogInsert, TypeOK, RequestsOK, RecoveryOK, WorksOn, IDs, LogEntry,
         Goes, memory, recovery
<1>2. RequestsOK'
  BY DEF LogInsert, TypeOK, RequestsOK, RecoveryOK, Places, WorksOn, IDs,
         AtRest, Goes, memory, recovery
<1>3. RecoveryOK'
  BY DEF LogInsert, TypeOK, RequestsOK, RecoveryOK, LogEntry, WorksOn, IDs,
         AtRest, Goes, memory, recovery
<1>4. HeldDistinct'
  BY DEF LogInsert, TypeOK, RequestsOK, RecoveryOK, HeldDistinct, Holds,
         AtRest, Goes, memory, recovery
<1>5. UsedLogged'
  <2> SUFFICES ASSUME snapshots = 0, NEW i \in used'
               PROVE  \E k \in 1..Len(log') : log'[k] = [op |-> "insert", id |-> i]
    BY DEF LogInsert, UsedLogged
  <2>1. log' = Append(log, [op |-> "insert", id |-> id[r]]) /\ log \in Seq(LogEntry)
    BY DEF LogInsert, RecoveryOK
  <2>2. Len(log') = Len(log) + 1 /\ \A k \in 1..Len(log) : log'[k] = log[k]
    BY <2>1
  <2>3. CASE i \in used
    BY <2>2, <2>3 DEF UsedLogged
  <2>4. CASE i = id[r]
    <3>1. log'[Len(log) + 1] = [op |-> "insert", id |-> i]
      BY <2>1, <2>4
    <3> QED BY <3>1, <2>1, <2>2
  <2> QED BY <2>3, <2>4 DEF LogInsert
<1>6. ReplayedKnown'
  BY DEF LogInsert, TypeOK, RequestsOK, RecoveryOK, ReplayedKnown, Judged,
         TruncateLogged, AtRest, Goes, memory, recovery
<1>7. UsedBarred'
  BY <1>0 DEF LogInsert, UsedBarred, HeldDistinct, Holds, RequestsOK, memory,
              recovery
<1>8. HeldUnused'
  BY <1>0 DEF LogInsert, HeldUnused, HeldDistinct, Holds, RequestsOK, TypeOK, Goes,
              memory
<1> QED BY <1>1, <1>2, <1>3, <1>4, <1>5, <1>6, <1>7, <1>8

(* ReadCounter keeps the inductive invariant. *)
LEMMA ReadCounterKeeps ==
  ASSUME IndInv, NEW r \in Requests, ReadCounter(r)
  PROVE  IndInv'
<1> USE AutoIncrementAssumption DEF IndInv
<1>1. TypeOK'
  BY DEF ReadCounter, TypeOK, RequestsOK, RecoveryOK, WorksOn, IDs, LogEntry,
         Goes, memory, disk, history, recovery
<1>2. RequestsOK'
  BY DEF ReadCounter, TypeOK, RequestsOK, RecoveryOK, Places, WorksOn, IDs,
         AtRest, Goes, memory, disk, history, recovery
<1>3. RecoveryOK'
  BY DEF ReadCounter, TypeOK, RequestsOK, RecoveryOK, LogEntry, WorksOn, IDs,
         AtRest, Goes, memory, disk, history, recovery
<1>4. HeldDistinct'
  BY DEF ReadCounter, TypeOK, RequestsOK, RecoveryOK, HeldDistinct, Holds,
         AtRest, Goes, memory, disk, history, recovery
<1>5. UsedLogged'
  BY DEF ReadCounter, TypeOK, RequestsOK, RecoveryOK, UsedLogged, LogEntry,
         Goes, memory, disk, history, recovery
<1>6. ReplayedKnown'
  BY DEF ReadCounter, TypeOK, RequestsOK, RecoveryOK, ReplayedKnown, Judged,
         TruncateLogged, AtRest, Goes, memory, disk, history, recovery
<1>7. UsedBarred'
  BY DEF ReadCounter, TypeOK, RequestsOK, RecoveryOK, UsedBarred, HeldDistinct,
         Holds, Judged, TruncateLogged, AtRest, Goes, memory, disk, history,
         recovery
<1>8. HeldUnused'
  BY DEF ReadCounter, TypeOK, RequestsOK, RecoveryOK, UsedBarred, HeldDistinct,
         HeldUnused, Holds, Judged, TruncateLogged, AtRest, Goes, memory, disk,
         history, recovery
<1> QED BY <1>1, <1>2, <1>3, <1>4, <1>5, <1>6, <1>7, <1>8

(* SaveCounter keeps the inductive invariant. *)
LEMMA SaveCounterKeeps ==
  ASSUME IndInv, NEW r \in Requests, SaveCounter(r)
  PROVE  IndInv'
<1> USE AutoIncrementAssumption DEF IndInv
<1>1. TypeOK'
  <2>1. PICK c \in 0..MaxID : buf[r] = {c}
    BY DEF SaveCounter, RequestsOK
  <2>2. Max(buf[r]) = c
    BY <2>1 DEF Max
  <2> QED BY <2>2 DEF SaveCounter, TypeOK, memory, history
<1>2. RequestsOK'
  BY DEF SaveCounter, TypeOK, RequestsOK, RecoveryOK, Places, WorksOn, IDs,
         AtRest, Goes, memory, history, recovery
<1>3. RecoveryOK'
  BY DEF SaveCounter, TypeOK, RequestsOK, RecoveryOK, LogEntry, WorksOn, IDs,
         AtRest, Goes, memory, history, recovery
<1>4. HeldDistinct'
  BY DEF SaveCounter, TypeOK, RequestsOK, RecoveryOK, HeldDistinct, Holds,
         AtRest, Goes, memory, history, recovery
<1>5. UsedLogged'
  BY DEF SaveCounter, TypeOK, RequestsOK, RecoveryOK, UsedLogged, LogEntry,
         Goes, memory, history, recovery
<1>6. ReplayedKnown'
  BY DEF SaveCounter, TypeOK, RequestsOK, RecoveryOK, ReplayedKnown, Judged,
         TruncateLogged, AtRest, Goes, memory, history, recovery
<1>7. UsedBarred'
  BY DEF SaveCounter, TypeOK, RequestsOK, RecoveryOK, UsedBarred, HeldDistinct,
         Holds, Judged, TruncateLogged, AtRest, Goes, memory, history, recovery
<1>8. HeldUnused'
  BY DEF SaveCounter, TypeOK, RequestsOK, RecoveryOK, UsedBarred, HeldDistinct,
         HeldUnused, Holds, Judged, TruncateLogged, AtRest, Goes, memory,
         history, recovery
<1> QED BY <1>1, <1>2, <1>3, <1>4, <1>5, <1>6, <1>7, <1>8

(* MarkIDDeleted keeps the inductive invariant. *)
LEMMA MarkIDDeletedKeeps ==
  ASSUME IndInv, NEW r \in Requests, NEW i \in live, MarkIDDeleted(r, i)
  PROVE  IndInv'
<1> USE AutoIncrementAssumption DEF IndInv
<1>1. TypeOK'
  BY DEF MarkIDDeleted, TypeOK, RequestsOK, RecoveryOK, WorksOn, IDs, LogEntry,
         Goes, Arrives, disk, history, recovery
<1>2. RequestsOK'
  BY DEF MarkIDDeleted, TypeOK, RequestsOK, RecoveryOK, Places, WorksOn, IDs,
         AtRest, Goes, Arrives, disk, history, recovery
<1>3. RecoveryOK'
  BY DEF MarkIDDeleted, TypeOK, RequestsOK, RecoveryOK, LogEntry, WorksOn, IDs,
         AtRest, Goes, Arrives, disk, history, recovery
<1>4. HeldDistinct'
  BY DEF MarkIDDeleted, TypeOK, RequestsOK, RecoveryOK, HeldDistinct, Holds,
         AtRest, Goes, Arrives, disk, history, recovery
<1>5. UsedLogged'
  BY DEF MarkIDDeleted, TypeOK, RequestsOK, RecoveryOK, UsedLogged, LogEntry,
         Goes, Arrives, disk, history, recovery
<1>6. ReplayedKnown'
  BY DEF MarkIDDeleted, TypeOK, RequestsOK, RecoveryOK, ReplayedKnown, Judged,
         TruncateLogged, AtRest, Goes, Arrives, disk, history, recovery
<1>7. UsedBarred'
  BY DEF MarkIDDeleted, TypeOK, RequestsOK, RecoveryOK, UsedBarred,
         HeldDistinct, Holds, Judged, TruncateLogged, AtRest, Goes, Arrives,
         disk, history, recovery
<1>8. HeldUnused'
  BY DEF MarkIDDeleted, TypeOK, RequestsOK, RecoveryOK, UsedBarred,
         HeldDistinct, HeldUnused, Holds, Judged, TruncateLogged, AtRest, Goes,
         Arrives, disk, history, recovery
<1> QED BY <1>1, <1>2, <1>3, <1>4, <1>5, <1>6, <1>7, <1>8

(* CopyDeletedIDs keeps the inductive invariant. *)
LEMMA CopyDeletedIDsKeeps ==
  ASSUME IndInv, NEW r \in Requests, CopyDeletedIDs(r)
  PROVE  IndInv'
<1> USE AutoIncrementAssumption DEF IndInv
<1>1. TypeOK'
  BY DEF CopyDeletedIDs, TypeOK, RequestsOK, RecoveryOK, WorksOn, IDs,
         LogEntry, Goes, memory, disk, history, recovery
<1>2. RequestsOK'
  BY DEF CopyDeletedIDs, TypeOK, RequestsOK, RecoveryOK, Places, WorksOn, IDs,
         AtRest, Goes, memory, disk, history, recovery
<1>3. RecoveryOK'
  BY DEF CopyDeletedIDs, TypeOK, RequestsOK, RecoveryOK, LogEntry, WorksOn,
         IDs, AtRest, Goes, memory, disk, history, recovery
<1>4. HeldDistinct'
  BY DEF CopyDeletedIDs, TypeOK, RequestsOK, RecoveryOK, HeldDistinct, Holds,
         AtRest, Goes, memory, disk, history, recovery
<1>5. UsedLogged'
  BY DEF CopyDeletedIDs, TypeOK, RequestsOK, RecoveryOK, UsedLogged, LogEntry,
         Goes, memory, disk, history, recovery
<1>6. ReplayedKnown'
  BY DEF CopyDeletedIDs, TypeOK, RequestsOK, RecoveryOK, ReplayedKnown, Judged,
         TruncateLogged, AtRest, Goes, memory, disk, history, recovery
<1>7. UsedBarred'
  BY DEF CopyDeletedIDs, TypeOK, RequestsOK, RecoveryOK, UsedBarred,
         HeldDistinct, Holds, Judged, TruncateLogged, AtRest, Goes, memory,
         disk, history, recovery
<1>8. HeldUnused'
  BY DEF CopyDeletedIDs, TypeOK, RequestsOK, RecoveryOK, UsedBarred,
         HeldDistinct, HeldUnused, Holds, Judged, TruncateLogged, AtRest, Goes,
         memory, disk, history, recovery
<1> QED BY <1>1, <1>2, <1>3, <1>4, <1>5, <1>6, <1>7, <1>8

(* SaveDeletedIDs keeps the inductive invariant. *)
LEMMA SaveDeletedIDsKeeps ==
  ASSUME IndInv, NEW r \in Requests, SaveDeletedIDs(r)
  PROVE  IndInv'
<1> USE AutoIncrementAssumption DEF IndInv
<1>1. TypeOK'
  BY DEF SaveDeletedIDs, TypeOK, RequestsOK, RecoveryOK, WorksOn, IDs,
         LogEntry, Goes, memory, history, recovery
<1>2. RequestsOK'
  BY DEF SaveDeletedIDs, TypeOK, RequestsOK, RecoveryOK, Places, WorksOn, IDs,
         AtRest, Goes, memory, history, recovery
<1>3. RecoveryOK'
  BY DEF SaveDeletedIDs, TypeOK, RequestsOK, RecoveryOK, LogEntry, WorksOn,
         IDs, AtRest, Goes, memory, history, recovery
<1>4. HeldDistinct'
  BY DEF SaveDeletedIDs, TypeOK, RequestsOK, RecoveryOK, HeldDistinct, Holds,
         AtRest, Goes, memory, history, recovery
<1>5. UsedLogged'
  BY DEF SaveDeletedIDs, TypeOK, RequestsOK, RecoveryOK, UsedLogged, LogEntry,
         Goes, memory, history, recovery
<1>6. ReplayedKnown'
  BY DEF SaveDeletedIDs, TypeOK, RequestsOK, RecoveryOK, ReplayedKnown, Judged,
         TruncateLogged, AtRest, Goes, memory, history, recovery
<1>7. UsedBarred'
  BY DEF SaveDeletedIDs, TypeOK, RequestsOK, RecoveryOK, UsedBarred,
         HeldDistinct, Holds, Judged, TruncateLogged, AtRest, Goes, memory,
         history, recovery
<1>8. HeldUnused'
  BY DEF SaveDeletedIDs, TypeOK, RequestsOK, RecoveryOK, UsedBarred,
         HeldDistinct, HeldUnused, Holds, Judged, TruncateLogged, AtRest, Goes,
         memory, history, recovery
<1> QED BY <1>1, <1>2, <1>3, <1>4, <1>5, <1>6, <1>7, <1>8

(* CommitDelete keeps the inductive invariant. *)
LEMMA CommitDeleteKeeps ==
  ASSUME IndInv, NEW r \in Requests, CommitDelete(r)
  PROVE  IndInv'
<1> USE AutoIncrementAssumption DEF IndInv
<1>1. TypeOK'
  BY DEF CommitDelete, TypeOK, RequestsOK, RecoveryOK, WorksOn, IDs, LogEntry,
         Goes, disk, history, recovery
<1>2. RequestsOK'
  BY DEF CommitDelete, TypeOK, RequestsOK, RecoveryOK, Places, WorksOn, IDs,
         AtRest, Goes, disk, history, recovery
<1>3. RecoveryOK'
  BY DEF CommitDelete, TypeOK, RequestsOK, RecoveryOK, LogEntry, WorksOn, IDs,
         AtRest, Goes, disk, history, recovery
<1>4. HeldDistinct'
  BY DEF CommitDelete, TypeOK, RequestsOK, RecoveryOK, HeldDistinct, Holds,
         AtRest, Goes, disk, history, recovery
<1>5. UsedLogged'
  BY DEF CommitDelete, TypeOK, RequestsOK, RecoveryOK, UsedLogged, LogEntry,
         Goes, disk, history, recovery
<1>6. ReplayedKnown'
  BY DEF CommitDelete, TypeOK, RequestsOK, RecoveryOK, ReplayedKnown, Judged,
         TruncateLogged, AtRest, Goes, disk, history, recovery
<1>7. UsedBarred'
  BY DEF CommitDelete, TypeOK, RequestsOK, RecoveryOK, UsedBarred,
         HeldDistinct, Holds, Judged, TruncateLogged, AtRest, Goes, disk,
         history, recovery
<1>8. HeldUnused'
  BY DEF CommitDelete, TypeOK, RequestsOK, RecoveryOK, UsedBarred,
         HeldDistinct, HeldUnused, Holds, Judged, TruncateLogged, AtRest, Goes,
         disk, history, recovery
<1> QED BY <1>1, <1>2, <1>3, <1>4, <1>5, <1>6, <1>7, <1>8

(* LogDelete keeps the inductive invariant. *)
LEMMA LogDeleteKeeps ==
  ASSUME IndInv, NEW r \in Requests, LogDelete(r)
  PROVE  IndInv'
<1> USE AutoIncrementAssumption DEF IndInv
<1>0. Judged' => Judged
  BY DEF LogDelete, Judged, TruncateLogged, RecoveryOK, history, recovery
<1>1. TypeOK'
  BY DEF LogDelete, TypeOK, RequestsOK, RecoveryOK, WorksOn, IDs, LogEntry,
         Goes, memory, history, recovery
<1>2. RequestsOK'
  BY DEF LogDelete, TypeOK, RequestsOK, RecoveryOK, Places, WorksOn, IDs,
         AtRest, Goes, memory, history, recovery
<1>3. RecoveryOK'
  BY DEF LogDelete, TypeOK, RequestsOK, RecoveryOK, LogEntry, WorksOn, IDs,
         AtRest, Goes, memory, history, recovery
<1>4. HeldDistinct'
  BY DEF LogDelete, TypeOK, RequestsOK, RecoveryOK, HeldDistinct, Holds,
         AtRest, Goes, memory, history, recovery
<1>5. UsedLogged'
  <2>1. /\ Len(log') = Len(log) + 1
        /\ \A k \in 1..Len(log) : log'[k] = log[k]
    BY DEF LogDelete, RecoveryOK
  <2>2. 1..Len(log) \subseteq 1..Len(log')
    BY <2>1 DEF RecoveryOK
  <2> QED BY <2>1, <2>2 DEF LogDelete, UsedLogged, history
<1>6. ReplayedKnown'
  BY DEF LogDelete, TypeOK, RequestsOK, RecoveryOK, ReplayedKnown, Judged,
         TruncateLogged, AtRest, Goes, memory, history, recovery
<1>7. UsedBarred'
  BY <1>0 DEF LogDelete, UsedBarred, memory, history, recovery
<1>8. HeldUnused'
  BY <1>0 DEF LogDelete, HeldUnused, Holds, RequestsOK, Goes, memory, history
<1> QED BY <1>1, <1>2, <1>3, <1>4, <1>5, <1>6, <1>7, <1>8

(* Truncate keeps the inductive invariant. *)
LEMMA TruncateKeeps ==
  ASSUME IndInv, NEW r \in Requests, Truncate(r)
  PROVE  IndInv'
<1> USE AutoIncrementAssumption DEF IndInv
<1>1. TypeOK'
  BY DEF Truncate, TypeOK, RequestsOK, RecoveryOK, WorksOn, IDs, LogEntry,
         Goes, Arrives, disk, history, recovery
<1>2. RequestsOK'
  BY DEF Truncate, TypeOK, RequestsOK, RecoveryOK, Places, WorksOn, IDs,
         AtRest, Goes, Arrives, disk, history, recovery
<1>3. RecoveryOK'
  BY DEF Truncate, TypeOK, RequestsOK, RecoveryOK, LogEntry, WorksOn, IDs,
         AtRest, Goes, Arrives, disk, history, recovery
<1>4. HeldDistinct'
  BY DEF Truncate, TypeOK, RequestsOK, RecoveryOK, HeldDistinct, Holds, AtRest,
         Goes, Arrives, disk, history, recovery
<1>5. UsedLogged'
  BY DEF Truncate, TypeOK, RequestsOK, RecoveryOK, UsedLogged, LogEntry, Goes,
         Arrives, disk, history, recovery
<1>6. ReplayedKnown'
  BY DEF Truncate, TypeOK, RequestsOK, RecoveryOK, ReplayedKnown, Judged,
         TruncateLogged, AtRest, Goes, Arrives, disk, history, recovery
<1>7. UsedBarred'
  BY DEF Truncate, TypeOK, RequestsOK, RecoveryOK, UsedBarred, HeldDistinct,
         Holds, Judged, TruncateLogged, AtRest, Goes, Arrives, disk, history,
         recovery
<1>8. HeldUnused'
  BY DEF Truncate, TypeOK, RequestsOK, RecoveryOK, UsedBarred, HeldDistinct,
         HeldUnused, Holds, Judged, TruncateLogged, AtRest, Goes, Arrives,
         disk, history, recovery
<1> QED BY <1>1, <1>2, <1>3, <1>4, <1>5, <1>6, <1>7, <1>8

(* LogTruncate keeps the inductive invariant. *)
LEMMA LogTruncateKeeps ==
  ASSUME IndInv, NEW r \in Requests, LogTruncate(r)
  PROVE  IndInv'
<1> USE AutoIncrementAssumption DEF IndInv
<1>0. Judged' => Judged
  BY DEF LogTruncate, Judged, TruncateLogged, RecoveryOK, history, recovery
<1>1. TypeOK'
  BY DEF LogTruncate, TypeOK, RequestsOK, RecoveryOK, WorksOn, IDs, LogEntry,
         Goes, memory, history, recovery
<1>2. RequestsOK'
  BY DEF LogTruncate, TypeOK, RequestsOK, RecoveryOK, Places, WorksOn, IDs,
         AtRest, Goes, memory, history, recovery
<1>3. RecoveryOK'
  BY DEF LogTruncate, TypeOK, RequestsOK, RecoveryOK, LogEntry, WorksOn, IDs,
         AtRest, Goes, memory, history, recovery
<1>4. HeldDistinct'
  BY DEF LogTruncate, TypeOK, RequestsOK, RecoveryOK, HeldDistinct, Holds,
         AtRest, Goes, memory, history, recovery
<1>5. UsedLogged'
  <2>1. /\ Len(log') = Len(log) + 1
        /\ \A k \in 1..Len(log) : log'[k] = log[k]
    BY DEF LogTruncate, RecoveryOK
  <2>2. 1..Len(log) \subseteq 1..Len(log')
    BY <2>1 DEF RecoveryOK
  <2> QED BY <2>1, <2>2 DEF LogTruncate, UsedLogged, history
<1>6. ReplayedKnown'
  BY DEF LogTruncate, TypeOK, RequestsOK, RecoveryOK, ReplayedKnown, Judged,
         TruncateLogged, AtRest, Goes, memory, history, recovery
<1>7. UsedBarred'
  BY <1>0 DEF LogTruncate, UsedBarred, memory, history, recovery
<1>8. HeldUnused'
  BY <1>0 DEF LogTruncate, HeldUnused, Holds, RequestsOK, Goes, memory, history
<1> QED BY <1>1, <1>2, <1>3, <1>4, <1>5, <1>6, <1>7, <1>8

(* TakeSnapshot keeps the inductive invariant. *)
LEMMA TakeSnapshotKeeps ==
  ASSUME IndInv, TakeSnapshot
  PROVE  IndInv'
<1> USE AutoIncrementAssumption DEF IndInv
<1>1. TypeOK'
  BY DEF TakeSnapshot, TypeOK, RequestsOK, RecoveryOK, WorksOn, IDs, LogEntry,
         memory, recovery, AtRest
<1>2. RequestsOK'
  BY DEF TakeSnapshot, TypeOK, RequestsOK, RecoveryOK, Places, WorksOn, IDs,
         AtRest, memory, recovery
<1>3. RecoveryOK'
  <2>1. log' = <<>> /\ log' \in Seq(LogEntry) /\ Len(log') = 0
    BY DEF TakeSnapshot
  <2>2. replayed = 0
    BY DEF TakeSnapshot, RecoveryOK
  <2> QED BY <2>1, <2>2 DEF TakeSnapshot, RecoveryOK, AtRest, recovery
<1>4. HeldDistinct'
  BY DEF TakeSnapshot, TypeOK, RequestsOK, RecoveryOK, HeldDistinct, Holds,
         AtRest, memory, recovery
<1>5. UsedLogged'
  BY DEF TakeSnapshot, TypeOK, RequestsOK, RecoveryOK, UsedLogged, LogEntry,
         memory, recovery, AtRest
<1>6. ReplayedKnown'
  BY DEF TakeSnapshot, TypeOK, RequestsOK, RecoveryOK, ReplayedKnown, Judged,
         TruncateLogged, AtRest, memory, recovery
<1>7. UsedBarred'
  BY DEF TakeSnapshot, TypeOK, RequestsOK, RecoveryOK, UsedBarred,
         HeldDistinct, Holds, Judged, TruncateLogged, AtRest, memory, recovery
<1>8. HeldUnused'
  BY DEF TakeSnapshot, TypeOK, RequestsOK, RecoveryOK, UsedBarred,
         HeldDistinct, HeldUnused, Holds, Judged, TruncateLogged, AtRest,
         memory, recovery
<1> QED BY <1>1, <1>2, <1>3, <1>4, <1>5, <1>6, <1>7, <1>8

(* Crash keeps the inductive invariant. *)
LEMMA CrashKeeps ==
  ASSUME IndInv, Crash
  PROVE  IndInv'
<1> USE AutoIncrementAssumption DEF IndInv
<1>1. TypeOK'
  BY DEF Crash, TypeOK, RequestsOK, RecoveryOK, WorksOn, IDs, LogEntry, AtRest
<1>2. RequestsOK'
  BY DEF Crash, TypeOK, RequestsOK, RecoveryOK, Places, WorksOn, IDs, AtRest
<1>3. RecoveryOK'
  BY DEF Crash, TypeOK, RequestsOK, RecoveryOK, LogEntry, WorksOn, IDs, AtRest
<1>4. HeldDistinct'
  BY DEF Crash, TypeOK, RequestsOK, RecoveryOK, HeldDistinct, Holds, AtRest
<1>5. UsedLogged'
  BY DEF Crash, TypeOK, RequestsOK, RecoveryOK, UsedLogged, LogEntry, AtRest
<1>6. ReplayedKnown'
  BY DEF Crash, TypeOK, RequestsOK, RecoveryOK, ReplayedKnown, Judged,
         TruncateLogged, AtRest
<1>7. UsedBarred'
  BY DEF Crash, TypeOK, RequestsOK, RecoveryOK, UsedBarred, HeldDistinct,
         Holds, Judged, TruncateLogged, AtRest
<1>8. HeldUnused'
  BY DEF Crash, TypeOK, RequestsOK, RecoveryOK, UsedBarred, HeldDistinct,
         HeldUnused, Holds, Judged, TruncateLogged, AtRest
<1> QED BY <1>1, <1>2, <1>3, <1>4, <1>5, <1>6, <1>7, <1>8

(* ReplayEntry keeps the inductive invariant. *)
LEMMA ReplayEntryKeeps ==
  ASSUME IndInv, ReplayEntry
  PROVE  IndInv'
<1> USE AutoIncrementAssumption DEF IndInv
<1>0. log[replayed + 1] \in LogEntry /\ UNCHANGED <<log, used, id, pc, generated>>
  BY DEF ReplayEntry, RecoveryOK, history
<1>1. TypeOK'
  <2> DEFINE e == log[replayed + 1]
  <2>1. e.op # "truncate" => e.id \in IDs
    BY <1>0 DEF LogEntry
  <2>2. UNCHANGED <<counter, id, buf, generated, snap, used>> /\ Redo(e)
    BY DEF ReplayEntry, history
  <2> HIDE DEF e
  <2>3. /\ live' \subseteq IDs /\ deletedIDs' \subseteq IDs
        /\ diskDeleted' \subseteq IDs /\ diskCounter' \in 0..MaxID
    BY <2>1, <2>2 DEF Redo, TypeOK
  <2> QED BY <2>2, <2>3 DEF TypeOK
<1>2. RequestsOK'
  BY DEF ReplayEntry, TypeOK, RequestsOK, RecoveryOK, Places, WorksOn, IDs,
         AtRest, history, Redo
<1>3. RecoveryOK'
  BY DEF ReplayEntry, TypeOK, RequestsOK, RecoveryOK, LogEntry, WorksOn, IDs,
         AtRest, history, Redo
<1>4. HeldDistinct'
  BY DEF ReplayEntry, TypeOK, RequestsOK, RecoveryOK, HeldDistinct, Holds,
         AtRest, history, Redo
<1>5. UsedLogged'
  BY DEF ReplayEntry, TypeOK, RequestsOK, RecoveryOK, UsedLogged, LogEntry,
         history, Redo
<1>6. ReplayedKnown'
  <2> SUFFICES ASSUME Judged', NEW k \in 1..replayed', log[k].op = "insert"
               PROVE  log[k].id \in live' \cup deletedIDs'
    BY <1>0 DEF ReplayedKnown
  <2>1. Judged /\ recovering
    BY <1>0 DEF ReplayEntry, Judged, TruncateLogged, history
  <2>2. log[replayed + 1].op # "truncate"
    <3>1. replayed + 1 \in DOMAIN log
      BY DEF ReplayEntry, RecoveryOK
    <3>2. ~TruncateLogged
      BY <2>1 DEF Judged, RecoveryOK
    <3> QED BY <3>1, <3>2 DEF TruncateLogged
  <2>3. live \cup deletedIDs \subseteq live' \cup deletedIDs'
    BY <2>2 DEF ReplayEntry, Redo
  <2>4. CASE k \in 1..replayed
    BY <2>1, <2>3, <2>4 DEF ReplayedKnown
  <2>5. CASE k = replayed + 1
    BY <2>5 DEF ReplayEntry, Redo
  <2> QED BY <2>4, <2>5 DEF ReplayEntry, RecoveryOK
<1>7. UsedBarred'
  BY DEF ReplayEntry, TypeOK, RequestsOK, RecoveryOK, UsedBarred, HeldDistinct,
         Holds, Judged, TruncateLogged, AtRest, history, Redo
<1>8. HeldUnused'
  BY DEF ReplayEntry, TypeOK, RequestsOK, RecoveryOK, UsedBarred, HeldDistinct,
         HeldUnused, Holds, Judged, TruncateLogged, AtRest, history, Redo
<1> QED BY <1>1, <1>2, <1>3, <1>4, <1>5, <1>6, <1>7, <1>8

(* Recovered keeps the inductive invariant. *)
LEMMA RecoveredKeeps ==
  ASSUME IndInv, Recovered
  PROVE  IndInv'
<1> USE AutoIncrementAssumption DEF IndInv
<1>0. /\ counter' \in 0..MaxID
      /\ \A i \in live : i <= counter'
  <2> DEFINE S == live \cup {0}
  <2>1. S \in SUBSET (0..MaxID) /\ S # {}
    BY DEF TypeOK, IDs
  <2>2. PICK m \in S : m = Max(S) /\ \A i \in S : i <= m
    BY <2>1, MaxIsGreatest
  <2>3. diskCounter \in 0..MaxID /\ m \in 0..MaxID
    BY <2>1, <2>2 DEF TypeOK
  <2>4. counter' = SetCounter(SetCounter(0, diskCounter), m)
    BY <2>2 DEF Recovered, EnsureAbove, LoadCounters
  <2>5. counter' \in 0..MaxID /\ m <= counter'
    BY <2>3, <2>4 DEF SetCounter
  <2>6. \A i \in live : i \in 0..MaxID /\ i <= m
    BY <2>1, <2>2
  <2> QED BY <2>3, <2>5, <2>6
<1>1. TypeOK'
  BY <1>0 DEF Recovered, LoadDeletedIDs, TypeOK, disk, history
<1>2. RequestsOK'
  BY DEF Recovered, TypeOK, RequestsOK, RecoveryOK, Places, WorksOn, IDs,
         AtRest, disk, history
<1>3. RecoveryOK'
  <2>1. 0 \in 0..Len(log)
    BY DEF RecoveryOK
  <2> QED BY <2>1 DEF Recovered, RecoveryOK, disk, history
<1>4. HeldDistinct'
  BY DEF Recovered, TypeOK, RequestsOK, RecoveryOK, HeldDistinct, Holds,
         AtRest, disk, history
<1>5. UsedLogged'
  BY DEF Recovered, TypeOK, RequestsOK, RecoveryOK, UsedLogged, LogEntry, disk,
         history
<1>6. ReplayedKnown'
  BY DEF Recovered, TypeOK, RequestsOK, RecoveryOK, ReplayedKnown, Judged,
         TruncateLogged, AtRest, disk, history
<1>7. UsedBarred'
  <2> SUFFICES ASSUME Judged', NEW i \in used
               PROVE  i <= counter' \/ i \in deletedIDs'
    BY DEF Recovered, UsedBarred, history
  <2>1. Judged /\ crashes > 0
    BY DEF Recovered, Judged, TruncateLogged, RecoveryOK, disk, history
  <2>2. PICK k \in 1..Len(log) : log[k] = [op |-> "insert", id |-> i]
    BY <2>1 DEF Judged, UsedLogged
  <2>3. i \in live \cup deletedIDs
    BY <2>1, <2>2 DEF Recovered, ReplayedKnown
  <2> QED BY <2>3, <1>0 DEF Recovered, LoadDeletedIDs
<1>8. HeldUnused'
  BY DEF Recovered, TypeOK, RequestsOK, RecoveryOK, UsedBarred, HeldDistinct,
         HeldUnused, Holds, Judged, TruncateLogged, AtRest, disk, history
<1> QED BY <1>1, <1>2, <1>3, <1>4, <1>5, <1>6, <1>7, <1>8

-----------------------------------------------------------------------------
(* The invariant is inductive: it holds at the start, and every step of a
   request, a snapshot, a crash and each step of a recovery keeps it. *)
LEMMA Inductive == Spec => []IndInv
<1>1. Init => IndInv
  <2> SUFFICES ASSUME Init PROVE IndInv
    OBVIOUS
  <2>1. log \in Seq(LogEntry) /\ Len(log) = 0
    BY DEF Init
  <2>2. TypeOK /\ RequestsOK
    BY AutoIncrementAssumption DEF Init, TypeOK, RequestsOK, Places, WorksOn, IDs
  <2>3. RecoveryOK
    <3>1. replayed \in 0..Len(log)
      BY <2>1 DEF Init
    <3> QED BY <2>1, <3>1 DEF Init, RecoveryOK
  <2>4. HeldDistinct /\ UsedLogged /\ ReplayedKnown /\ UsedBarred /\ HeldUnused
    BY DEF Init, HeldDistinct, UsedLogged, ReplayedKnown, UsedBarred, HeldUnused,
           Holds
  <2> QED BY <2>2, <2>3, <2>4 DEF IndInv
<1>2. IndInv /\ [Next]_vars => IndInv'
  <2> SUFFICES ASSUME IndInv, [Next]_vars PROVE IndInv'
    OBVIOUS
  <2>1. CASE \E r \in Requests : Increment(r)
    BY <2>1, IncrementKeeps
  <2>2. CASE \E r \in Requests : CheckDeleted(r)
    BY <2>2, CheckDeletedKeeps
  <2>3. CASE \E r \in Requests : ChooseID(r)
    BY <2>3, ChooseIDKeeps
  <2>4. CASE \E r \in Requests : CommitInsert(r)
    BY <2>4, CommitInsertKeeps
  <2>5. CASE \E r \in Requests : LogInsert(r)
    BY <2>5, LogInsertKeeps
  <2>6. CASE \E r \in Requests : ReadCounter(r)
    BY <2>6, ReadCounterKeeps
  <2>7. CASE \E r \in Requests : SaveCounter(r)
    BY <2>7, SaveCounterKeeps
  <2>8. CASE \E r \in Requests : \E i \in live : MarkIDDeleted(r, i)
    BY <2>8, MarkIDDeletedKeeps
  <2>9. CASE \E r \in Requests : CopyDeletedIDs(r)
    BY <2>9, CopyDeletedIDsKeeps
  <2>10. CASE \E r \in Requests : SaveDeletedIDs(r)
    BY <2>10, SaveDeletedIDsKeeps
  <2>11. CASE \E r \in Requests : CommitDelete(r)
    BY <2>11, CommitDeleteKeeps
  <2>12. CASE \E r \in Requests : LogDelete(r)
    BY <2>12, LogDeleteKeeps
  <2>13. CASE \E r \in Requests : Truncate(r)
    BY <2>13, TruncateKeeps
  <2>14. CASE \E r \in Requests : LogTruncate(r)
    BY <2>14, LogTruncateKeeps
  <2>15. CASE TakeSnapshot
    BY <2>15, TakeSnapshotKeeps
  <2>16. CASE Crash
    BY <2>16, CrashKeeps
  <2>17. CASE ReplayEntry
    BY <2>17, ReplayEntryKeeps
  <2>18. CASE Recovered
    BY <2>18, RecoveredKeeps
  <2>19. CASE UNCHANGED vars
    BY <2>19 DEF vars, memory, disk, history, recovery, IndInv, TypeOK, RequestsOK,
      RecoveryOK, HeldDistinct, UsedLogged, ReplayedKnown, UsedBarred, HeldUnused,
      Holds, WorksOn, Judged, TruncateLogged, AtRest
  <2> QED BY <2>1, <2>2, <2>3, <2>4, <2>5, <2>6, <2>7, <2>8, <2>9, <2>10, <2>11, <2>12, <2>13, <2>14, <2>15, <2>16, <2>17, <2>18, <2>19 DEF Next
<1> QED BY <1>1, <1>2, PTL DEF Spec

(* The types, for any number of requests and crashes: what a restart loads,
   replays and computes from the IDs of the entities are counters and IDs. *)
THEOREM TypeCorrect == Spec => []TypeOK
<1>1. IndInv => TypeOK
  BY DEF IndInv
<1> QED BY <1>1, Inductive, PTL

(* "This ensures we never reuse IDs": whatever the requests, crashes (in a
   recovery too) and truncations, outside the two exceptions that NeverReused
   states, an ID that the generator hands to an Insert was not used before. *)
THEOREM NoIDReused == Spec => []NeverReused
<1>1. IndInv => NeverReused
  BY DEF IndInv, HeldUnused, Holds, Judged, NeverReused, Fresh
<1> QED BY <1>1, Inductive, PTL

(* Concurrent Inserts get different IDs from the generator, without any
   exception. *)
THEOREM NoIDShared == Spec => []GeneratedIDsDistinct
<1>1. IndInv => GeneratedIDsDistinct
  BY DEF IndInv, HeldDistinct, Holds, GeneratedIDsDistinct, Fresh
<1> QED BY <1>1, Inductive, PTL
=============================================================================
