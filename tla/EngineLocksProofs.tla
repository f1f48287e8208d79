------------------------- MODULE EngineLocksProofs -------------------------
(***************************************************************************)
(* How the operations use the lock, for any number of goroutines: no read  *)
(* lock is given back that was not taken, nothing is kept after a return,  *)
(* nobody upgrades.                                                        *)
(*                                                                         *)
(* The argument: along the calls that a goroutine still makes runs the     *)
(* number of read locks it will hold; it starts at what it holds now, ends *)
(* at zero, and is zero around every write stretch (Leads).                *)
(***************************************************************************)
EXTENDS EngineLocks, SequenceTheorems, TLAPS

LockCalls == {"RLock", "RUnlock", "Lock", "Unlock"}

(* The number of read locks before and after a call. *)
Moves(call, before, after) ==
  /\ call = "RLock" => after = before + 1
  /\ call = "RUnlock" => before = after + 1
  /\ call \in {"Lock", "Unlock"} => before = 0 /\ after = 0

(* Each Lock is followed at once by its Unlock. *)
Alternates(p) ==
  \A k \in 1..Len(p) :
    /\ p[k] = "Lock" => k < Len(p) /\ p[k + 1] = "Unlock"
    /\ p[k] = "Unlock" /\ k > 1 => p[k - 1] = "Lock"

Depths(p, d) ==
  /\ d \in [1..Len(p) + 1 -> Nat]
  /\ \A k \in 1..Len(p) : Moves(p[k], d[k], d[k + 1])

(* The calls of p lead from a read locks to b. *)
Leads(p, a, b) ==
  \E d : Depths(p, d) /\ d[1] = a /\ d[Len(p) + 1] = b

(* A stretch as it stands in the code: it does not begin inside of a write
   stretch. *)
Whole(p, a, b) ==
  /\ p \in Seq(LockCalls)
  /\ Alternates(p)
  /\ Leads(p, a, b)
  /\ p # <<>> => p[1] # "Unlock"

LockInv ==
  /\ TypeOK
  /\ locked => writer # NoWriter
  /\ \A g \in Goroutines :
       /\ Alternates(path[g])
       /\ Leads(path[g], held[g], 0)
       /\ Calls(g, "Unlock") <=> writer = g /\ locked
       /\ writer = g /\ ~locked => Calls(g, "Lock")
       /\ g \in waiting => Calls(g, "RLock")

-----------------------------------------------------------------------------
(* The stretches of the operations. *)

(* A single call on the read lock. *)
LEMMA ReadCalls ==
  ASSUME NEW a \in Nat
  PROVE  Whole(<<"RLock">>, a, a + 1) /\ Whole(<<"RUnlock">>, a + 1, a)
<1>1. ASSUME NEW call \in {"RLock", "RUnlock"}, NEW x \in Nat, NEW y \in Nat,
             Moves(call, x, y)
      PROVE  Whole(<<call>>, x, y)
  <2> DEFINE p == <<call>>
             d == [k \in 1..2 |-> IF k = 1 THEN x ELSE y]
  <2>1. p \in Seq(LockCalls) /\ Len(p) = 1 /\ p[1] = call
    BY DEF LockCalls
  <2>2. d \in [1..2 -> Nat] /\ d[1] = x /\ d[2] = y
    OBVIOUS
  <2> HIDE DEF p, d
  <2>3. Depths(p, d)
    BY <1>1, <2>1, <2>2 DEF Depths
  <2>4. Leads(p, x, y)
    BY <2>1, <2>2, <2>3 DEF Leads
  <2>5. Alternates(p)
    BY <2>1 DEF Alternates
  <2>6. Whole(p, x, y)
    BY <2>1, <2>4, <2>5 DEF Whole
  <2> QED BY <2>6 DEF p
<1>2. Moves("RLock", a, a + 1) /\ Moves("RUnlock", a + 1, a)
  BY DEF Moves
<1> QED BY <1>1, <1>2

(* A stretch under the write lock, by a goroutine that does not read. *)
LEMMA WriteStretch == Whole(W, 0, 0)
<1> DEFINE d == [k \in 1..3 |-> 0]
<1>1. W \in Seq(LockCalls) /\ Len(W) = 2 /\ W[1] = "Lock" /\ W[2] = "Unlock"
  BY DEF W, LockCalls
<1>2. d \in [1..3 -> Nat] /\ \A k \in 1..3 : d[k] = 0
  OBVIOUS
<1> HIDE DEF d
<1>3. Depths(W, d)
  BY <1>1, <1>2 DEF Depths, Moves
<1>4. Leads(W, 0, 0)
  BY <1>1, <1>2, <1>3 DEF Leads
<1>5. Alternates(W)
  BY <1>1 DEF Alternates
<1> QED BY <1>1, <1>4, <1>5 DEF Whole

(* One stretch after the other. *)
LEMMA OneAfterTheOther ==
  ASSUME NEW p, NEW q, NEW a \in Nat, NEW b \in Nat, NEW c \in Nat,
         Whole(p, a, b), Whole(q, b, c)
  PROVE  Whole(p \o q, a, c)
<1> DEFINE m == Len(p)
           n == Len(q)
           s == p \o q
<1>1. p \in Seq(LockCalls) /\ q \in Seq(LockCalls) /\ m \in Nat /\ n \in Nat
  BY DEF Whole
<1>2. /\ s \in Seq(LockCalls) /\ Len(s) = m + n
      /\ \A k \in 1..m : s[k] = p[k]
      /\ \A k \in m+1..m+n : s[k] = q[k - m] /\ k - m \in 1..n
  BY <1>1
<1>3. PICK d : Depths(p, d) /\ d[1] = a /\ d[m + 1] = b
  BY DEF Whole, Leads
<1>4. PICK e : Depths(q, e) /\ e[1] = b /\ e[n + 1] = c
  BY DEF Whole, Leads
<1> DEFINE f == [k \in 1..m + n + 1 |-> IF k <= m THEN d[k] ELSE e[k - m]]
<1> HIDE DEF s, m, n
<1>5. d \in [1..m + 1 -> Nat] /\ e \in [1..n + 1 -> Nat]
  BY <1>3, <1>4 DEF Depths, m, n
<1>6. f \in [1..m + n + 1 -> Nat]
  BY <1>1, <1>5
<1>7. /\ \A k \in 1..m + 1 : f[k] = d[k]
      /\ \A k \in m + 1..m + n + 1 : f[k] = e[k - m]
  BY <1>1, <1>3, <1>4, <1>5
<1> HIDE DEF f
<1>8. Depths(s, f)
  <2> SUFFICES ASSUME NEW k \in 1..m + n PROVE Moves(s[k], f[k], f[k + 1])
    BY <1>2, <1>6 DEF Depths
  <2>1. CASE k <= m
    <3>1. Moves(p[k], d[k], d[k + 1])
      BY <1>1, <1>3, <2>1 DEF Depths, m
    <3>2. f[k] = d[k] /\ f[k + 1] = d[k + 1] /\ s[k] = p[k]
      BY <1>1, <1>2, <1>7, <2>1
    <3> QED BY <3>1, <3>2
  <2>2. CASE k > m
    <3>1. k - m \in 1..n /\ k \in m + 1..m + n
      BY <1>1, <2>2
    <3>2. Moves(q[k - m], e[k - m], e[k - m + 1])
      BY <1>4, <3>1 DEF Depths, n
    <3>3. f[k] = e[k - m] /\ f[k + 1] = e[k + 1 - m] /\ s[k] = q[k - m]
      BY <1>1, <1>2, <1>7, <3>1
    <3>4. k + 1 - m = k - m + 1
      BY <1>1
    <3> QED BY <3>2, <3>3, <3>4
  <2> QED BY <1>1, <2>1, <2>2
<1>9. Leads(s, a, c)
  <2>1. f[1] = a /\ f[m + n + 1] = c
    BY <1>1, <1>3, <1>4, <1>7
  <2> QED BY <1>2, <1>8, <2>1 DEF Leads
<1>10. /\ Alternates(p) /\ Alternates(q) /\ (p # <<>> => p[1] # "Unlock")
       /\ (q # <<>> => q[1] # "Unlock")
  BY DEF Whole
<1>11. Alternates(s)
  <2> SUFFICES ASSUME NEW k \in 1..m + n
               PROVE  /\ s[k] = "Lock" => k < m + n /\ s[k + 1] = "Unlock"
                      /\ s[k] = "Unlock" /\ k > 1 => s[k - 1] = "Lock"
    BY <1>2 DEF Alternates
  <2>1. CASE k <= m
    <3>1. /\ p[k] = "Lock" => k < m /\ p[k + 1] = "Unlock"
          /\ p[k] = "Unlock" /\ k > 1 => p[k - 1] = "Lock"
      BY <1>10, <2>1 DEF Alternates, m
    <3> QED BY <1>1, <1>2, <2>1, <3>1
  <2>2. CASE k > m
    <3>1. k - m \in 1..n
      BY <1>1, <2>2
    <3>2. /\ q[k - m] = "Lock" => k - m < n /\ q[k - m + 1] = "Unlock"
          /\ q[k - m] = "Unlock" /\ k - m > 1 => q[k - m - 1] = "Lock"
      BY <1>10, <3>1 DEF Alternates, n
    <3>3. q # <<>>
      BY <1>1, <3>1 DEF n
    <3>4. q[k - m] = "Unlock" => k - m > 1
      BY <1>10, <3>1, <3>3
    <3>5. k - m < n => s[k + 1] = q[k - m + 1]
      <4>1. k + 1 - m = k - m + 1
        BY <1>1
      <4> QED BY <1>1, <1>2, <3>1, <4>1
    <3>6. k - m > 1 => s[k - 1] = q[k - m - 1]
      <4>1. k - 1 - m = k - m - 1
        BY <1>1
      <4> QED BY <1>1, <1>2, <3>1, <4>1
    <3> QED BY <1>1, <1>2, <2>2, <3>1, <3>2, <3>4, <3>5, <3>6
  <2> QED BY <1>1, <2>1, <2>2
<1>12. s # <<>> => s[1] # "Unlock"
  <2>1. CASE m > 0
    <3>1. p # <<>> /\ s[1] = p[1]
      BY <1>1, <1>2, <2>1 DEF m
    <3> QED BY <1>10, <3>1
  <2>2. CASE m = 0 /\ n > 0
    <3>1. q # <<>> /\ s[1] = q[1]
      BY <1>1, <1>2, <2>2 DEF n
    <3> QED BY <1>10, <3>1
  <2>3. CASE m = 0 /\ n = 0
    BY <1>2, <2>3
  <2> QED BY <1>1, <2>1, <2>2, <2>3
<1>13. Whole(s, a, c)
  BY <1>2, <1>9, <1>11, <1>12 DEF Whole
<1> QED BY <1>13 DEF s

(* A stretch under the read lock, also inside of another. *)
LEMMA ReadStretch ==
  ASSUME NEW a \in Nat
  PROVE  Whole(R, a, a)
<1>1. Whole(<<"RLock">> \o <<"RUnlock">>, a, a)
  BY ReadCalls, OneAfterTheOther, a + 1 \in Nat
<1>2. <<"RLock">> \o <<"RUnlock">> = R
  <2> DEFINE s == <<"RLock">> \o <<"RUnlock">>
  <2>1. <<"RLock">> \in Seq(LockCalls) /\ <<"RUnlock">> \in Seq(LockCalls)
    BY DEF LockCalls
  <2>2. s \in Seq(LockCalls) /\ Len(s) = 2 /\ s[1] = "RLock" /\ s[2] = "RUnlock"
    BY <2>1
  <2>3. R \in Seq(LockCalls) /\ Len(R) = 2 /\ R[1] = "RLock" /\ R[2] = "RUnlock"
    BY DEF R, LockCalls
  <2> HIDE DEF s
  <2>4. \A k \in 1..Len(s) : s[k] = R[k]
    BY <2>2, <2>3
  <2>5. s = R
    BY <2>2, <2>3, <2>4, SeqEqual
  <2> QED BY <2>5 DEF s
<1> QED BY <1>1, <1>2

(* Whatever operation a goroutine begins, it begins and ends with nothing. *)
LEMMA OperationsWhole ==
  ASSUME NEW op \in OperationNames, NEW p \in Stretches(op)
  PROVE  Whole(p, 0, 0)
<1>1. Whole(R, 0, 0) /\ Whole(W, 0, 0) /\ Whole(<<"RLock">>, 0, 1)
      /\ Whole(R, 1, 1) /\ Whole(<<"RUnlock">>, 1, 0)
  BY ReadStretch, WriteStretch, ReadCalls
<1>2. Whole(<<"RLock">> \o R, 0, 1)
  BY <1>1, OneAfterTheOther
<1>3. Whole(<<"RLock">> \o R \o <<"RUnlock">>, 0, 0)
  BY <1>1, <1>2, OneAfterTheOther
<1>4. Whole(<<"RLock">> \o R \o R, 0, 1)
  BY <1>1, <1>2, OneAfterTheOther
<1>5. Whole(<<"RLock">> \o R \o R \o <<"RUnlock">>, 0, 0)
  BY <1>1, <1>4, OneAfterTheOther
<1>6. Whole(R \o R, 0, 0) /\ Whole(R \o W, 0, 0) /\ Whole(W \o W, 0, 0)
  BY <1>1, OneAfterTheOther
<1>7. Whole(R \o R \o W, 0, 0) /\ Whole(R \o W \o W, 0, 0)
  BY <1>1, <1>6, OneAfterTheOther
<1>8. Whole(R \o R \o W \o W, 0, 0) /\ Whole(R \o R \o W \o R, 0, 0)
  BY <1>1, <1>7, OneAfterTheOther
<1>9. op \in {"Get", "GetByType", "Query", "ExecuteCountQuery", "Insert", "Update"}
         => Whole(p, 0, 0)
  BY <1>1, <1>3, <1>5, <1>6, <1>7, <1>8 DEF Stretches, GetLocks, GetByTypeLocks,
     QueryLocks, ExecuteCountQueryLocks, InsertLocks, UpdateLocks
<1>10. op \in {"Delete", "TruncateEntityType", "TruncateDatabase",
               "RegisterEntityType"} => Whole(p, 0, 0)
  BY <1>1, <1>6, <1>7, <1>8 DEF Stretches, DeleteLocks, TruncateEntityTypeLocks,
     TruncateDatabaseLocks, RegisterEntityTypeLocks
<1>11. op = "UpdateEntityType" => Whole(p, 0, 0)
  BY <1>1, <1>6, <1>7, <1>8 DEF Stretches, UpdateEntityTypeLocks
<1> QED BY <1>9, <1>10, <1>11 DEF OperationNames

-----------------------------------------------------------------------------
(* The steps. *)

(* A call that returns leaves the rest of the calls. *)
LEMMA AfterCall ==
  ASSUME NEW p \in Seq(LockCalls), p # <<>>, Alternates(p),
         NEW a \in Nat, NEW b, Leads(p, a, b)
  PROVE  /\ p[1] = Head(p) /\ Head(p) \in LockCalls /\ Tail(p) \in Seq(LockCalls)
         /\ Alternates(Tail(p))
         /\ \E x \in Nat : Moves(Head(p), a, x) /\ Leads(Tail(p), x, b)
         /\ Tail(p) # <<>> /\ Head(Tail(p)) = "Unlock" => Head(p) = "Lock"
         /\ Head(p) = "Lock" => Tail(p) # <<>> /\ Head(Tail(p)) = "Unlock"
<1> DEFINE n == Len(p)
           q == Tail(p)
<1>1. /\ n \in Nat /\ n > 0 /\ q \in Seq(LockCalls) /\ Len(q) = n - 1
      /\ \A k \in 1..n - 1 : q[k] = p[k + 1]
      /\ p[1] = Head(p) /\ p[1] \in LockCalls
  OBVIOUS
<1>2. q # <<>> <=> n > 1
  <2>1. q = <<>> <=> n - 1 = 0
    BY <1>1, EmptySeq
  <2> QED BY <1>1, <2>1
<1>3. q # <<>> => Head(q) = p[2]
  BY <1>1, <1>2
<1>4. PICK d : Depths(p, d) /\ d[1] = a /\ d[n + 1] = b
  BY DEF Leads
<1> HIDE DEF q, n
<1>5. /\ d \in [1..n + 1 -> Nat]
      /\ \A k \in 1..n : Moves(p[k], d[k], d[k + 1])
  BY <1>4 DEF Depths, n
<1>6. Alternates(q)
  <2> SUFFICES ASSUME NEW k \in 1..n - 1
               PROVE  /\ q[k] = "Lock" => k < n - 1 /\ q[k + 1] = "Unlock"
                      /\ q[k] = "Unlock" /\ k > 1 => q[k - 1] = "Lock"
    BY <1>1 DEF Alternates
  <2>1. k + 1 \in 1..n /\ q[k] = p[k + 1]
    BY <1>1
  <2>2. /\ p[k + 1] = "Lock" => k + 1 < n /\ p[k + 1 + 1] = "Unlock"
        /\ p[k + 1] = "Unlock" => p[k + 1 - 1] = "Lock"
    BY <2>1, <1>1 DEF Alternates, n
  <2>3. k > 1 => q[k - 1] = p[k + 1 - 1]
    <3>1. k > 1 => k - 1 \in 1..n - 1 /\ k - 1 + 1 = k + 1 - 1
      BY <1>1
    <3> QED BY <1>1, <3>1
  <2> QED BY <1>1, <2>1, <2>2, <2>3
<1>7. Moves(p[1], a, d[2]) /\ d[2] \in Nat
  <2>1. 1 \in 1..n /\ 2 \in 1..n + 1 /\ 1 + 1 = 2
    BY <1>1
  <2> QED BY <1>4, <1>5, <2>1
<1>8. Leads(q, d[2], b)
  <2> DEFINE e == [k \in 1..n |-> d[k + 1]]
  <2>1. e \in [1..n -> Nat] /\ \A k \in 1..n : e[k] = d[k + 1]
    BY <1>1, <1>5
  <2> HIDE DEF e
  <2>2. ASSUME NEW k \in 1..n - 1
        PROVE  Moves(q[k], e[k], e[k + 1])
    <3>1. k \in 1..n /\ k + 1 \in 1..n
      BY <1>1
    <3> QED BY <1>1, <1>5, <2>1, <3>1
  <2>3. Len(q) + 1 = n
    BY <1>1
  <2>4. Depths(q, e)
    BY <1>1, <2>1, <2>2, <2>3 DEF Depths
  <2>5. e[1] = d[2] /\ e[n] = b
    BY <1>1, <1>4, <2>1
  <2> QED BY <2>3, <2>4, <2>5 DEF Leads
<1>9. /\ n > 1 /\ p[2] = "Unlock" => p[1] = "Lock"
      /\ p[1] = "Lock" => n > 1 /\ p[2] = "Unlock"
  <2>1. 1 \in 1..n /\ (n > 1 => 2 \in 1..n) /\ 1 + 1 = 2 /\ 2 - 1 = 1
    BY <1>1
  <2>2. n > 1 /\ p[2] = "Unlock" => p[1] = "Lock"
    BY <2>1 DEF Alternates, n
  <2>3. p[1] = "Lock" => n > 1 /\ p[2] = "Unlock"
    BY <2>1 DEF Alternates, n
  <2> QED BY <2>2, <2>3
<1> QED BY <1>1, <1>2, <1>3, <1>6, <1>7, <1>8, <1>9 DEF q

(* What the invariant says of the next call of a goroutine, and of the calls
   after it. *)
LEMMA NextCall ==
  ASSUME LockInv, NEW g \in Goroutines, path[g] # <<>>
  PROVE  /\ Head(path[g]) \in LockCalls /\ Tail(path[g]) \in Seq(LockCalls)
         /\ Alternates(Tail(path[g]))
         /\ \E x \in Nat : Moves(Head(path[g]), held[g], x) /\ Leads(Tail(path[g]), x, 0)
         /\ Tail(path[g]) # <<>> /\ Head(Tail(path[g])) = "Unlock" =>
              Head(path[g]) = "Lock"
         /\ Head(path[g]) = "Lock" =>
              Tail(path[g]) # <<>> /\ Head(Tail(path[g])) = "Unlock"
<1>1. path[g] \in Seq(LockCalls) /\ held[g] \in Nat
  BY DEF LockInv, TypeOK, LockCalls
<1> QED BY <1>1, AfterCall DEF LockInv

(* A goroutine begins an operation, with nothing held. *)
LEMMA StartKeeps ==
  ASSUME LockInv, NEW g \in Goroutines, Start(g)
  PROVE  LockInv'
<1>1. PICK op \in Operations : \E p \in Stretches(op) : path' = [path EXCEPT ![g] = p]
  BY DEF Start
<1>2. PICK p \in Stretches(op) : path' = [path EXCEPT ![g] = p]
  BY <1>1
<1>3. Whole(p, 0, 0)
  BY OperationsWhole, LocksAssumption
<1>4. held[g] = 0
  <2>1. PICK d : Depths(<<>>, d) /\ d[1] = held[g] /\ d[1] = 0
    BY DEF LockInv, Leads, Start
  <2> QED BY <2>1
<1>5. /\ path' \in [Goroutines -> Seq(LockCalls)] /\ path'[g] = p
      /\ \A h \in Goroutines \ {g} : path'[h] = path[h]
      /\ UNCHANGED <<held, waiting, writer, locked>>
  BY <1>2, <1>3 DEF Start, LockInv, TypeOK, Whole, LockCalls
<1>6. writer # g /\ g \notin waiting
  BY DEF Start, LockInv, Calls, TypeOK
<1>7. ~Calls(g, "Unlock")'
  BY <1>3, <1>5 DEF Calls, Whole
<1>8. TypeOK'
  BY <1>5 DEF LockInv, TypeOK, LockCalls
<1>9. Alternates(path'[g]) /\ Leads(path'[g], held'[g], 0)
  BY <1>3, <1>4, <1>5 DEF Whole
<1>10. ASSUME NEW h \in Goroutines \ {g}
       PROVE  /\ Alternates(path[h])' /\ Leads(path[h], held[h], 0)'
              /\ Calls(h, "Unlock")' <=> (writer = h /\ locked)'
              /\ (writer = h /\ ~locked)' => Calls(h, "Lock")'
              /\ (h \in waiting)' => Calls(h, "RLock")'
  BY <1>5 DEF LockInv, Calls
<1> QED BY <1>5, <1>6, <1>7, <1>8, <1>9, <1>10 DEF LockInv

(* The read lock is taken, waited for, or given back. *)
LEMMA ReadKeeps ==
  ASSUME LockInv, NEW g \in Goroutines, RLock(g) \/ RUnlock(g)
  PROVE  LockInv'
<1>0. /\ path[g] # <<>> /\ Head(path[g]) \in {"RLock", "RUnlock"}
      /\ UNCHANGED <<writer, locked>>
  BY DEF RLock, RUnlock, Calls
<1>1. writer # g
  BY <1>0 DEF LockInv, Calls
<1>2. CASE UNCHANGED <<held, path>> /\ waiting' \subseteq waiting \cup {g} /\ Calls(g, "RLock")
  BY <1>0, <1>2 DEF LockInv, TypeOK, Calls
<1>3. CASE /\ path' = [path EXCEPT ![g] = Tail(@)] /\ UNCHANGED waiting
           /\ \E x : held' = [held EXCEPT ![g] = x] /\ Moves(Head(path[g]), held[g], x)
                   /\ x \in Int
           /\ g \notin waiting
  <2>1. PICK x \in Nat : Moves(Head(path[g]), held[g], x) /\ Leads(Tail(path[g]), x, 0)
    BY <1>0, NextCall
  <2>2. held' = [held EXCEPT ![g] = x] /\ held[g] \in Nat
    <3>1. PICK y \in Int :
            held' = [held EXCEPT ![g] = y] /\ Moves(Head(path[g]), held[g], y)
      BY <1>3
    <3>2. held[g] \in Nat
      BY DEF LockInv, TypeOK
    <3>3. x = y
      BY <1>0, <2>1, <3>1, <3>2 DEF Moves
    <3> QED BY <3>1, <3>2, <3>3
  <2>3. /\ path'[g] = Tail(path[g]) /\ held'[g] = x
        /\ \A h \in Goroutines \ {g} : path'[h] = path[h] /\ held'[h] = held[h]
        /\ TypeOK'
    BY <1>0, <1>3, <2>1, <2>2, NextCall DEF LockInv, TypeOK, LockCalls
  <2>4. ~Calls(g, "Unlock")'
    BY <1>0, <2>3, NextCall DEF Calls
  <2>5. Alternates(path'[g]) /\ Leads(path'[g], held'[g], 0)
    BY <1>0, <2>1, <2>3, NextCall
  <2>6. ASSUME NEW h \in Goroutines \ {g}
        PROVE  /\ Alternates(path[h])' /\ Leads(path[h], held[h], 0)'
               /\ Calls(h, "Unlock")' <=> (writer = h /\ locked)'
               /\ (writer = h /\ ~locked)' => Calls(h, "Lock")'
               /\ (h \in waiting)' => Calls(h, "RLock")'
    BY <1>0, <1>3, <2>3 DEF LockInv, Calls
  <2> QED BY <1>0, <1>1, <1>3, <2>3, <2>4, <2>5, <2>6 DEF LockInv
<1>4. CASE RUnlock(g)
  <2>1. g \notin waiting
    BY <1>4 DEF RUnlock, LockInv, Calls
  <2>2. held[g] - 1 \in Int /\ Moves("RUnlock", held[g], held[g] - 1)
    BY DEF Moves, LockInv, TypeOK
  <2>3. held' = [held EXCEPT ![g] = held[g] - 1] /\ Head(path[g]) = "RUnlock"
        /\ path' = [path EXCEPT ![g] = Tail(@)] /\ UNCHANGED waiting
    BY <1>4 DEF RUnlock, Returns, Calls
  <2> QED BY <1>3, <2>1, <2>2, <2>3
<1>5. CASE RLock(g)
  <2>1. CASE writer = NoWriter
    <3>1. held[g] + 1 \in Int /\ Moves("RLock", held[g], held[g] + 1)
      BY DEF Moves, LockInv, TypeOK
    <3>2. held' = [held EXCEPT ![g] = held[g] + 1] /\ Head(path[g]) = "RLock"
          /\ path' = [path EXCEPT ![g] = Tail(@)] /\ UNCHANGED waiting
          /\ g \notin waiting
      BY <1>5, <2>1 DEF RLock, Returns, Calls
    <3> QED BY <1>3, <3>1, <3>2
  <2>2. CASE writer # NoWriter
    BY <1>2, <1>5, <2>2 DEF RLock
  <2> QED BY <2>1, <2>2
<1> QED BY <1>4, <1>5

(* The announcement of a writer, which holds nothing then. *)
LEMMA AnnounceKeeps ==
  ASSUME LockInv, NEW g \in Goroutines, Announce(g)
  PROVE  LockInv'
<1>1. /\ Calls(g, "Lock") /\ writer = NoWriter /\ writer' = g
      /\ UNCHANGED <<path, held, waiting, locked>>
  BY DEF Announce
<1>2. ~locked
  BY <1>1 DEF LockInv
<1> QED BY <1>1, <1>2 DEF LockInv, TypeOK, Calls

(* The writer gets the lock; its next call gives it back. *)
LEMMA LockKeeps ==
  ASSUME LockInv, NEW g \in Goroutines, Lock(g)
  PROVE  LockInv'
<1>1. /\ path[g] # <<>> /\ Head(path[g]) = "Lock" /\ writer = g /\ locked' = TRUE
      /\ path' = [path EXCEPT ![g] = Tail(@)]
      /\ UNCHANGED <<held, waiting, writer>>
  BY DEF Lock, Calls, Returns
<1>2. PICK x \in Nat : Moves("Lock", held[g], x) /\ Leads(Tail(path[g]), x, 0)
  BY <1>1, NextCall
<1>3. x = held[g]
  BY <1>2 DEF Moves
<1>4. /\ path'[g] = Tail(path[g]) /\ TypeOK'
      /\ \A h \in Goroutines \ {g} : path'[h] = path[h]
  BY <1>1, NextCall DEF LockInv, TypeOK, LockCalls
<1>5. Calls(g, "Unlock")'
  BY <1>1, <1>4, NextCall DEF Calls
<1>6. Alternates(path'[g]) /\ Leads(path'[g], held'[g], 0) /\ g \notin waiting
  BY <1>1, <1>2, <1>3, <1>4, NextCall DEF LockInv, Calls
<1>7. ASSUME NEW h \in Goroutines \ {g}
      PROVE  /\ Alternates(path[h])' /\ Leads(path[h], held[h], 0)'
             /\ Calls(h, "Unlock")' <=> (writer = h /\ locked)'
             /\ (writer = h /\ ~locked)' => Calls(h, "Lock")'
             /\ (h \in waiting)' => Calls(h, "RLock")'
  BY <1>1, <1>4 DEF LockInv, Calls
<1> QED BY <1>1, <1>4, <1>5, <1>6, <1>7, LocksAssumption DEF LockInv

(* The writer gives the lock back, and the readers that wait get it. *)
LEMMA UnlockKeeps ==
  ASSUME LockInv, NEW g \in Goroutines, Unlock(g)
  PROVE  LockInv'
<1>1. /\ path[g] # <<>> /\ Head(path[g]) = "Unlock" /\ writer = g
      /\ locked' = FALSE /\ writer' = NoWriter /\ waiting' = {}
      /\ held' = [h \in Goroutines |-> IF h \in waiting THEN held[h] + 1 ELSE held[h]]
      /\ path' = [h \in Goroutines |->
           IF h = g \/ h \in waiting THEN Tail(path[h]) ELSE path[h]]
  BY DEF Unlock, Calls
<1>2. g \notin waiting
  BY <1>1 DEF LockInv, Calls
<1>3. ASSUME NEW h \in Goroutines
      PROVE  /\ path'[h] \in Seq(LockCalls) /\ held'[h] \in Nat
             /\ Alternates(path'[h]) /\ Leads(path'[h], held'[h], 0)
             /\ ~Calls(h, "Unlock")'
  <2>0. held[h] \in Nat /\ path[h] \in Seq(LockCalls)
    BY DEF LockInv, TypeOK, LockCalls
  <2>1. CASE h = g \/ h \in waiting
    <3>1. /\ path[h] # <<>> /\ Head(path[h]) \in {"RLock", "Unlock"}
          /\ Head(path[h]) = "RLock" <=> h \in waiting
      BY <1>1, <1>2, <2>1 DEF LockInv, Calls
    <3>2. PICK x \in Nat : Moves(Head(path[h]), held[h], x) /\ Leads(Tail(path[h]), x, 0)
      BY <3>1, NextCall
    <3>3. path'[h] = Tail(path[h])
      BY <1>1, <2>1
    <3>4. held'[h] = x
      BY <1>1, <2>0, <3>1, <3>2 DEF Moves
    <3> QED BY <3>1, <3>2, <3>3, <3>4, NextCall DEF Calls
  <2>2. CASE h # g /\ h \notin waiting
    <3>1. path'[h] = path[h] /\ held'[h] = held[h]
      BY <1>1, <2>2
    <3> QED BY <1>1, <2>0, <2>2, <3>1 DEF LockInv, Calls
  <2> QED BY <2>1, <2>2
<1>4. TypeOK'
  <2>1. path' \in [Goroutines -> Seq(LockCalls)]
    BY <1>1, <1>3
  <2>2. held' \in [Goroutines -> Nat]
    BY <1>1, <1>3
  <2> QED BY <1>1, <2>1, <2>2 DEF TypeOK, LockCalls
<1> QED BY <1>1, <1>3, <1>4, LocksAssumption DEF LockInv

-----------------------------------------------------------------------------
(* The invariant is inductive. *)
LEMMA LockInductive == Spec => []LockInv
<1>1. Init => LockInv
  <2> SUFFICES ASSUME Init PROVE LockInv
    OBVIOUS
  <2>1. TypeOK
    <3>1. <<>> \in Seq(LockCalls)
      OBVIOUS
    <3> QED BY <3>1 DEF Init, TypeOK, LockCalls
  <2>2. Leads(<<>>, 0, 0)
    <3>1. Depths(<<>>, [k \in 1..1 |-> 0])
      BY DEF Depths
    <3> QED BY <3>1 DEF Leads
  <2>3. Alternates(<<>>)
    BY DEF Alternates
  <2> QED BY <2>1, <2>2, <2>3, LocksAssumption DEF Init, LockInv, Calls
<1>2. LockInv /\ [Next]_vars => LockInv'
  <2> SUFFICES ASSUME LockInv, [Next]_vars PROVE LockInv'
    OBVIOUS
  <2>1. CASE UNCHANGED vars
    BY <2>1 DEF vars, LockInv, TypeOK, Calls
  <2>2. CASE Next
    BY <2>2, StartKeeps, ReadKeeps, AnnounceKeeps, LockKeeps, UnlockKeeps
       DEF Next, Step
  <2> QED BY <2>1, <2>2
<1> QED BY <1>1, <1>2, PTL DEF Spec

(* No goroutine ever gives back a read lock it does not hold. *)
THEOREM TypeCorrect == Spec => []TypeOK
<1>1. LockInv => TypeOK
  BY DEF LockInv
<1> QED BY <1>1, LockInductive, PTL

(* Every path through every operation uses the lock as sync.RWMutex demands,
   nested read locks included: those can make a goroutine wait for ever
   (MCEngineLocksNested), but never misuse the lock. *)
THEOREM LockWellUsed == Spec => []LockDiscipline
<1>1. LockInv => LockDiscipline
  <2> SUFFICES ASSUME LockInv, NEW g \in Goroutines
               PROVE  /\ path[g] = <<>> => held[g] = 0 /\ writer # g
                      /\ Calls(g, "Lock") => held[g] = 0
                      /\ Calls(g, "Unlock") => writer = g /\ locked
    BY DEF LockDiscipline
  <2>1. ASSUME path[g] = <<>> PROVE held[g] = 0
    <3>1. PICK d : Depths(<<>>, d) /\ d[1] = held[g] /\ d[1] = 0
      BY <2>1 DEF LockInv, Leads
    <3> QED BY <3>1
  <2>2. path[g] = <<>> => writer # g
    BY DEF LockInv, Calls
  <2>3. Calls(g, "Lock") => held[g] = 0
    BY NextCall DEF Calls, Moves
  <2>4. Calls(g, "Unlock") => writer = g /\ locked
    BY DEF LockInv
  <2> QED BY <2>1, <2>2, <2>3, <2>4
<1> QED BY <1>1, LockInductive, PTL
=============================================================================
