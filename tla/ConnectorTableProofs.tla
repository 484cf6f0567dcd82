------------------------ MODULE ConnectorTableProofs ------------------------
(***************************************************************************)
(* Proofs about the lock of the connector's tables and about the table of  *)
(* callbacks that it leaves open.                                          *)
(*                                                                         *)
(* connector::mutex_n, for any finite set of threads and any bounds: what  *)
(* it is worth while no two calls overlap, that a stuck mutex stays stuck, *)
(* and that it is a recursive lock for one thread.                         *)
(*                                                                         *)
(* connector::manager_returns, for any number of requests, peers and rows: *)
(* ReturnsInv is inductive, and with it what a callback is given, how      *)
(* often it runs, and that none is lost while nobody meets anybody.        *)
(***************************************************************************)
EXTENDS ConnectorMutex, Returns, FiniteSetTheorems, TLAPS

-----------------------------------------------------------------------------
(* connector::mutex_n *)

LEMMA HeldFinite == IsFiniteSet(Held) /\ Cardinality(Held) \in Nat
<1>1. IsFiniteSet(1..MaxDepth)
  BY CountAssumption, FS_Interval
<1>2. IsFiniteSet(Threads \X (1..MaxDepth))
  BY <1>1, CountAssumption, FS_Product
<1>3. IsFiniteSet(Held)
  BY <1>2, FS_Subset DEF Held
<1> QED BY <1>3, FS_CardinalityType

\* A completed lock() adds one scope, a completed unlock() takes one away.
LEMMA HeldGrows ==
  ASSUME TypeOK, NEW t \in Threads, depth[t] < MaxDepth,
         depth' = [depth EXCEPT ![t] = @ + 1]
  PROVE  Cardinality(Held') = Cardinality(Held) + 1
<1> DEFINE s == <<t, depth[t] + 1>>
<1>1. Held' = Held \cup {s}
  <2>1. \A r \in Threads \X (1..MaxDepth) : r[2] <= depth'[r[1]] <=> r[2] <= depth[r[1]] \/ r = s
    BY CountAssumption DEF TypeOK
  <2>2. s \in Threads \X (1..MaxDepth)
    BY CountAssumption DEF TypeOK
  <2> QED BY <2>1, <2>2 DEF Held
<1>2. s \notin Held
  BY CountAssumption DEF Held, TypeOK
<1> QED BY <1>1, <1>2, HeldFinite, FS_AddElement

LEMMA HeldShrinks ==
  ASSUME TypeOK, NEW t \in Threads, depth[t] > 0,
         depth' = [depth EXCEPT ![t] = @ - 1]
  PROVE  Cardinality(Held') = Cardinality(Held) - 1
<1> DEFINE s == <<t, depth[t]>>
<1>1. Held' = Held \ {s}
  <2>1. \A r \in Threads \X (1..MaxDepth) : r[2] <= depth'[r[1]] <=> r[2] <= depth[r[1]] /\ r # s
    BY CountAssumption DEF TypeOK
  <2> QED BY <2>1 DEF Held
<1>2. s \in Held
  BY CountAssumption DEF Held, TypeOK
<1> QED BY <1>1, <1>2, HeldFinite, FS_RemoveElement

LEMMA HeldNonempty ==
  ASSUME TypeOK, NEW t \in Threads, depth[t] > 0
  PROVE  Cardinality(Held) > 0
<1>1. <<t, depth[t]>> \in Held
  BY CountAssumption DEF Held, TypeOK
<1> QED BY <1>1, HeldFinite, FS_EmptySet

-----------------------------------------------------------------------------

LEMMA InitInv == Init => IInv
<1> SUFFICES ASSUME Init PROVE IInv
  OBVIOUS
<1>1. Held = {}
  BY CountAssumption DEF Init, Held
<1>2. Cardinality(Held) = 0
  BY <1>1, FS_EmptySet
<1>3. TypeOK
  <2>1. n \in Int /\ tmp \in [Threads -> Int] /\ depth \in [Threads -> 0..MaxDepth]
    BY CountAssumption DEF Init
  <2>2. mt \in BOOLEAN /\ met \in BOOLEAN
    BY DEF Init
  <2> QED BY <2>1, <2>2 DEF Init, TypeOK
<1>4. UnlockingHolds
  BY DEF Init, UnlockingHolds
<1>5. SerialInv
  BY <1>2 DEF Init, SerialInv
<1> QED BY <1>3, <1>4, <1>5 DEF IInv

LEMMA TypeStep == IInv /\ [Next]_vars => TypeOK' /\ UnlockingHolds'
<1> SUFFICES ASSUME IInv, [Next]_vars
             PROVE  TypeOK' /\ UnlockingHolds'
  OBVIOUS
<1> USE CountAssumption DEF IInv, TypeOK, UnlockingHolds
<1>1. CASE UNCHANGED vars
  BY <1>1 DEF vars
<1>2. ASSUME NEW t \in Threads, CallLock(t) \/ CallUnlock(t)
      PROVE  TypeOK' /\ UnlockingHolds'
  BY <1>2 DEF CallLock, CallUnlock, Enter, Goto
<1>3. ASSUME NEW t \in Threads, LockCheck(t) \/ LockMt(t) \/ LockRead(t)
      PROVE  TypeOK' /\ UnlockingHolds'
  BY <1>3 DEF LockCheck, LockMt, LockRead, ReadN, Goto
<1>4. ASSUME NEW t \in Threads, UnlockCheck(t) \/ UnlockMt(t) \/ UnlockRead(t)
      PROVE  TypeOK' /\ UnlockingHolds'
  BY <1>4 DEF UnlockCheck, UnlockMt, UnlockRead, ReadN, Goto
<1>5. ASSUME NEW t \in Threads, LockWrite(t)
      PROVE  TypeOK' /\ UnlockingHolds'
  BY <1>5 DEF LockWrite, Goto
<1>6. ASSUME NEW t \in Threads, UnlockTest(t) \/ UnlockWrite(t)
      PROVE  TypeOK' /\ UnlockingHolds'
  BY <1>6 DEF UnlockTest, UnlockWrite, Goto
<1> QED BY <1>1, <1>2, <1>3, <1>4, <1>5, <1>6 DEF Next, Step

\* No two calls have overlapped after the step, so none had before, and the
\* caller is alone: SerialInv speaks of it only.
LEMMA SerialStep == IInv /\ [Next]_vars => SerialInv'
<1> SUFFICES ASSUME IInv, [Next]_vars, ~met'
             PROVE  SerialInv'
  BY DEF SerialInv
<1> USE DEF IInv, TypeOK, UnlockingHolds
<1>1. CASE UNCHANGED vars
  BY <1>1 DEF vars, SerialInv, Held
<1>2. ASSUME NEW t \in Threads, CallLock(t) \/ CallUnlock(t)
      PROVE  SerialInv'
  BY <1>2 DEF CallLock, CallUnlock, Enter, Goto, SerialInv, Held
<1>3. ASSUME NEW t \in Threads, Step(t)
      PROVE  SerialInv'
  <2>1. ~met /\ pc[t] # "out"
    BY <1>3 DEF Step, LockCheck, LockMt, LockRead, LockWrite, UnlockCheck,
                UnlockMt, UnlockTest, UnlockRead, UnlockWrite, ReadN, Goto
  <2>2. \A u \in Threads : u # t => pc[u] = "out" /\ pc'[u] = "out"
    BY <1>3, <2>1
       DEF SerialInv, Step, LockCheck, LockMt, LockRead, LockWrite, UnlockCheck,
           UnlockMt, UnlockTest, UnlockRead, UnlockWrite, ReadN, Goto
  <2>3. n = Cardinality(Held) /\ n \in Nat
    BY <2>1, HeldFinite DEF SerialInv
  <2>4. CASE LockCheck(t)
    BY <2>1, <2>2, <2>3, <2>4 DEF SerialInv, LockCheck, Goto, Held
  <2>5. CASE LockMt(t)
    BY <2>1, <2>2, <2>3, <2>5 DEF SerialInv, LockMt, Goto, Held
  <2>6. CASE LockRead(t)
    BY <2>1, <2>2, <2>3, <2>6 DEF SerialInv, LockRead, ReadN, Goto, Held
  <2>7. CASE LockWrite(t)
    <3>1. Cardinality(Held') = Cardinality(Held) + 1
      BY <2>7, HeldGrows DEF LockWrite, Goto
    <3>2. n' = n + 1 /\ mt'
      BY <2>1, <2>7 DEF SerialInv, LockWrite, Goto
    <3> QED BY <2>1, <2>2, <2>3, <2>7, <3>1, <3>2 DEF SerialInv, LockWrite, Goto
  <2>8. CASE UnlockCheck(t)
    BY <2>1, <2>2, <2>3, <2>8, HeldNonempty DEF SerialInv, UnlockCheck, Goto, Held
  <2>9. CASE UnlockMt(t)
    BY <2>1, <2>2, <2>3, <2>9 DEF SerialInv, UnlockMt, Goto, Held
  <2>10. CASE UnlockTest(t)
    <3>1. n # 0
      BY <2>3, <2>10, HeldNonempty DEF UnlockTest
    <3> QED BY <2>1, <2>2, <2>3, <2>10, <3>1 DEF SerialInv, UnlockTest, Held
  <2>11. CASE UnlockRead(t)
    BY <2>1, <2>2, <2>3, <2>11 DEF SerialInv, UnlockRead, ReadN, Goto, Held
  <2>12. CASE UnlockWrite(t)
    <3>1. Cardinality(Held') = Cardinality(Held) - 1
      BY <2>12, HeldShrinks DEF UnlockWrite, Goto
    <3>2. n' = n - 1 /\ mt' = mt /\ (mt <=> n > 1)
      BY <2>1, <2>12 DEF SerialInv, UnlockWrite, Goto
    <3> QED BY <2>1, <2>2, <2>3, <2>12, <3>1, <3>2 DEF SerialInv, UnlockWrite, Goto
  <2> QED BY <1>3, <2>4, <2>5, <2>6, <2>7, <2>8, <2>9, <2>10, <2>11, <2>12 DEF Step
<1> QED BY <1>1, <1>2, <1>3 DEF Next

\* The invariant of the mutex holds throughout every run.
THEOREM ConnectorMutexInv == Spec => []IInv
<1>1. IInv /\ [Next]_vars => IInv'
  BY TypeStep, SerialStep DEF IInv
<1> QED BY <1>1, InitInv, PTL DEF Spec

\* Without overlapping calls n counts the open scopes, and mt is locked while
\* there is one.
THEOREM SerialUseIsSound == Spec => []SerialIsSound
<1>1. IInv => SerialIsSound
  BY DEF IInv, SerialInv, SerialIsSound
<1> QED BY <1>1, ConnectorMutexInv, PTL

\* Without overlapping calls no thread ever waits for the mutex: it does not
\* exclude anybody.
THEOREM SerialUseNeverWaits == Spec => []NobodyWaits
<1>1. IInv => NobodyWaits
  BY DEF IInv, TypeOK, SerialInv, NobodyWaits
<1> QED BY <1>1, ConnectorMutexInv, PTL

\* A mutex that two overlapping calls have left locked stays so for ever.
THEOREM StuckStays == Spec => StuckIsForever
<1>1. TypeOK /\ [Next]_vars => [Stuck => Stuck']_vars
  <2> SUFFICES ASSUME TypeOK, Next, Stuck PROVE Stuck'
    OBVIOUS
  <2>0. PICK t \in Threads : CallLock(t) \/ CallUnlock(t) \/ Step(t)
    BY DEF Next
  <2>1. CASE CallLock(t) \/ CallUnlock(t)
    BY <2>1 DEF TypeOK, Stuck, CallLock, CallUnlock, Enter, Goto
  <2>2. CASE LockCheck(t) \/ UnlockCheck(t)
    <3>1. pc'[t] \in {"lock_mt", "unlock_test"}
      <4>1. n = 0 /\ n # 1
        BY DEF Stuck
      <4>2. CASE LockCheck(t)
        BY <4>1, <4>2 DEF TypeOK, LockCheck, Goto
      <4>3. CASE UnlockCheck(t)
        BY <4>1, <4>3 DEF TypeOK, UnlockCheck, Goto
      <4> QED BY <2>2, <4>2, <4>3
    <3>2. \A u \in Threads : u # t => pc'[u] = pc[u]
      BY <2>2 DEF TypeOK, LockCheck, UnlockCheck, Goto
    <3>3. n' = n /\ mt' = mt
      BY <2>2 DEF LockCheck, UnlockCheck
    <3> QED BY <3>1, <3>2, <3>3 DEF Stuck
  <2>4. CASE UnlockTest(t)
    BY <2>4 DEF TypeOK, Stuck, UnlockTest
  <2>3. ~LockMt(t) /\ ~LockRead(t) /\ ~LockWrite(t) /\ ~UnlockMt(t) /\ ~UnlockRead(t)
        /\ ~UnlockWrite(t)
    BY DEF Stuck, LockMt, LockRead, LockWrite, UnlockMt, UnlockRead, UnlockWrite,
           ReadN, Goto
  <2> QED BY <2>0, <2>1, <2>2, <2>3, <2>4 DEF Step
<1>2. IInv => TypeOK
  BY DEF IInv
<1> QED BY <1>1, <1>2, ConnectorMutexInv, PTL DEF Spec, StuckIsForever

-----------------------------------------------------------------------------
(* One thread *)

\* A thread that is alone overlaps with nobody.
LEMMA AloneNeverMeets ==
  ASSUME NEW th, Threads = {th}
  PROVE  Spec => []~met
<1>1. Init => ~met
  BY DEF Init
<1>2. ~met /\ [Next]_vars => ~met'
  BY DEF Next, Step, CallLock, CallUnlock, Enter, Goto, LockCheck, LockMt, LockRead,
         LockWrite, UnlockCheck, UnlockMt, UnlockTest, UnlockRead, UnlockWrite,
         ReadN, vars
<1> QED BY <1>1, <1>2, PTL DEF Spec

\* For a single thread mutex_n implements the recursive lock: it is taken and
\* given back where mt is, and counted in n in between.
THEOREM AloneImplementsLock ==
  ASSUME NEW th, Threads = {th}
  PROVE  Spec => ImplementsLock
<1> DEFINE owner == IF mt THEN CHOOSE t \in Threads : TRUE ELSE "nobody"
           held == IF ~mt THEN 0 ELSE IF n = 0 THEN 1 ELSE n
<1>1. Init => Lock!Init
  BY DEF Init, Lock!Init
<1>2. IInv /\ ~met /\ [Next]_vars => [Lock!Next]_Lock!vars
  <2> SUFFICES ASSUME IInv, ~met, [Next]_vars
               PROVE  [Lock!Next]_Lock!vars
    OBVIOUS
  <2> USE DEF IInv, TypeOK
  <2>1. \A t \in Threads : t = th
    OBVIOUS
  <2>2. (CHOOSE t \in Threads : TRUE) = th
    OBVIOUS
  <2>3. n = Cardinality(Held) /\ n \in Nat
    BY HeldFinite DEF SerialInv
  <2>4. UNCHANGED <<mt, n>> => UNCHANGED Lock!vars
    BY DEF Lock!vars
  <2>5. CASE UNCHANGED vars
    BY <2>4, <2>5 DEF vars
  <2>6. CASE LockMt(th)
    <3>1. n = 0 /\ ~mt /\ mt' /\ n' = n
      BY <2>6 DEF SerialInv, LockMt, Goto
    <3>2. Lock!Acquire(th)
      BY <2>2, <3>1 DEF Lock!Acquire
    <3> QED BY <3>2 DEF Lock!Next
  <2>7. CASE LockWrite(th)
    <3>1. mt /\ mt' /\ n' = n + 1
      BY <2>7 DEF SerialInv, LockWrite, Goto
    <3>2. CASE n = 0
      BY <2>2, <3>1, <3>2 DEF Lock!vars
    <3>3. CASE n > 0
      <4>1. Lock!Acquire(th)
        BY <2>2, <3>1, <3>3 DEF Lock!Acquire
      <4> QED BY <4>1 DEF Lock!Next
    <3> QED BY <2>3, <3>2, <3>3
  <2>8. CASE UnlockMt(th)
    <3>1. n = 1 /\ mt /\ ~mt' /\ n' = n
      BY <2>1, <2>8 DEF SerialInv, UnlockMt, Goto
    <3>2. Lock!Release(th)
      BY <2>2, <3>1 DEF Lock!Release
    <3> QED BY <3>2 DEF Lock!Next
  <2>9. CASE UnlockWrite(th)
    <3>1. n > 0 /\ mt' = mt /\ (mt <=> n > 1) /\ n' = n - 1
      BY <2>3, <2>9, HeldNonempty DEF SerialInv, UnlockWrite, UnlockingHolds, Goto
    <3>2. CASE n = 1
      BY <2>2, <3>1, <3>2 DEF Lock!vars
    <3>3. CASE n > 1
      <4>1. Lock!Release(th)
        BY <2>2, <3>1, <3>3 DEF Lock!Release
      <4> QED BY <4>1 DEF Lock!Next
    <3> QED BY <2>3, <3>1, <3>2, <3>3
  <2>10. CASE \/ CallLock(th) \/ CallUnlock(th) \/ LockCheck(th) \/ LockRead(th)
              \/ UnlockCheck(th) \/ UnlockTest(th) \/ UnlockRead(th)
    BY <2>4, <2>10 DEF CallLock, CallUnlock, Enter, LockCheck, LockRead,
                       UnlockCheck, UnlockTest, UnlockRead, ReadN
  <2> QED BY <2>1, <2>5, <2>6, <2>7, <2>8, <2>9, <2>10 DEF Next, Step
<1> QED BY <1>1, <1>2, ConnectorMutexInv, AloneNeverMeets, PTL
        DEF Spec, ImplementsLock, Lock!Spec

-----------------------------------------------------------------------------
(* connector::manager_returns *)

\* Row k is written by u, unless u writes to memory that the rows have left.
RowBecomes(k, u, row) ==
  /\ k \in DOMAIN rows /\ rows[k] \in Row
  /\ rows' \in Seq(Row) /\ Len(rows') = Len(rows) /\ DOMAIN rows' = DOMAIN rows
  /\ rows'[k] = IF u \in moved THEN rows[k] ELSE row
  /\ \A j \in DOMAIN rows : j # k => rows'[j] = rows[j]

LEMMA Written ==
  ASSUME rows \in Seq(Row), NEW u, NEW k \in DOMAIN rows, NEW row \in Row,
         Write(u, [rows EXCEPT ![k] = row])
  PROVE  RowBecomes(k, u, row)
BY DEF Write, RowBecomes

LEMMA Appended ==
  ASSUME rows \in Seq(Row), NEW row \in Row, rows' = Append(rows, row)
  PROVE  /\ rows' \in Seq(Row)
         /\ Len(rows') = Len(rows) + 1
         /\ DOMAIN rows' = DOMAIN rows \cup {Len(rows) + 1}
         /\ rows'[Len(rows) + 1] = row
         /\ \A j \in DOMAIN rows : rows'[j] = rows[j]
OBVIOUS

WithHash(k, x) == [rows[k] EXCEPT !.server_hash = x]
WithId(k, x) == [rows[k] EXCEPT !.respon_id = x]
WithCallback(k, x) == [rows[k] EXCEPT !.callback = x]

\* A write changes one member of one row.
LEMMA HashWritten ==
  ASSUME NEW k, NEW u, NEW x, RowBecomes(k, u, WithHash(k, x))
  PROVE  /\ k \in DOMAIN rows /\ DOMAIN rows' = DOMAIN rows
         /\ rows'[k].server_hash = IF u \in moved THEN rows[k].server_hash ELSE x
         /\ \A j \in DOMAIN rows : j # k => rows'[j] = rows[j]
         /\ \A j \in DOMAIN rows : /\ rows'[j].respon_id = rows[j].respon_id
                                  /\ rows'[j].callback = rows[j].callback
<1> DEFINE row == rows[k]
<1>1. row \in Row
  BY DEF RowBecomes
<1> HIDE DEF row
<1>2. /\ [row EXCEPT !.server_hash = x].server_hash = x
      /\ [row EXCEPT !.server_hash = x].respon_id = row.respon_id
      /\ [row EXCEPT !.server_hash = x].callback = row.callback
  BY <1>1 DEF Row
<1>3. rows'[k] = IF u \in moved THEN row ELSE [row EXCEPT !.server_hash = x]
  BY DEF RowBecomes, row, WithHash
<1>4. rows'[k].respon_id = row.respon_id /\ rows'[k].callback = row.callback
  BY <1>2, <1>3
<1>5. \A j \in DOMAIN rows : j # k => rows'[j] = rows[j]
  BY DEF RowBecomes
<1>6. k \in DOMAIN rows /\ DOMAIN rows' = DOMAIN rows
  BY DEF RowBecomes
<1> QED BY <1>2, <1>3, <1>4, <1>5, <1>6 DEF row

LEMMA IdWritten ==
  ASSUME NEW k, NEW u, NEW x, RowBecomes(k, u, WithId(k, x))
  PROVE  /\ k \in DOMAIN rows /\ DOMAIN rows' = DOMAIN rows
         /\ rows'[k].respon_id = IF u \in moved THEN rows[k].respon_id ELSE x
         /\ \A j \in DOMAIN rows : j # k => rows'[j] = rows[j]
         /\ \A j \in DOMAIN rows : /\ rows'[j].server_hash = rows[j].server_hash
                                  /\ rows'[j].callback = rows[j].callback
<1> DEFINE row == rows[k]
<1>1. row \in Row
  BY DEF RowBecomes
<1> HIDE DEF row
<1>2. /\ [row EXCEPT !.respon_id = x].respon_id = x
      /\ [row EXCEPT !.respon_id = x].server_hash = row.server_hash
      /\ [row EXCEPT !.respon_id = x].callback = row.callback
  BY <1>1 DEF Row
<1>3. rows'[k] = IF u \in moved THEN row ELSE [row EXCEPT !.respon_id = x]
  BY DEF RowBecomes, row, WithId
<1>4. rows'[k].server_hash = row.server_hash /\ rows'[k].callback = row.callback
  BY <1>2, <1>3
<1>5. \A j \in DOMAIN rows : j # k => rows'[j] = rows[j]
  BY DEF RowBecomes
<1>6. k \in DOMAIN rows /\ DOMAIN rows' = DOMAIN rows
  BY DEF RowBecomes
<1> QED BY <1>2, <1>3, <1>4, <1>5, <1>6 DEF row

LEMMA CallbackWritten ==
  ASSUME NEW k, NEW u, NEW x, RowBecomes(k, u, WithCallback(k, x))
  PROVE  /\ k \in DOMAIN rows /\ DOMAIN rows' = DOMAIN rows
         /\ rows'[k].callback = IF u \in moved THEN rows[k].callback ELSE x
         /\ \A j \in DOMAIN rows : j # k => rows'[j] = rows[j]
         /\ \A j \in DOMAIN rows : /\ rows'[j].server_hash = rows[j].server_hash
                                  /\ rows'[j].respon_id = rows[j].respon_id
<1> DEFINE row == rows[k]
<1>1. row \in Row
  BY DEF RowBecomes
<1> HIDE DEF row
<1>2. /\ [row EXCEPT !.callback = x].callback = x
      /\ [row EXCEPT !.callback = x].server_hash = row.server_hash
      /\ [row EXCEPT !.callback = x].respon_id = row.respon_id
  BY <1>1 DEF Row
<1>3. rows'[k] = IF u \in moved THEN row ELSE [row EXCEPT !.callback = x]
  BY DEF RowBecomes, row, WithCallback
<1>4. rows'[k].server_hash = row.server_hash /\ rows'[k].respon_id = row.respon_id
  BY <1>2, <1>3
<1>5. \A j \in DOMAIN rows : j # k => rows'[j] = rows[j]
  BY DEF RowBecomes
<1>6. k \in DOMAIN rows /\ DOMAIN rows' = DOMAIN rows
  BY DEF RowBecomes
<1> QED BY <1>2, <1>3, <1>4, <1>5, <1>6 DEF row

LEMMA FullType ==
  ASSUME ReturnsTypeOK, NEW r \in Requests
  PROVE  Full(r) \in Row
BY DEF Full, Row, Servers, ReturnsTypeOK, None

\* What send() does to its row, and the worker to the one it clears.
LEMMA AddWrites ==
  ASSUME ReturnsTypeOK, NEW r \in Requests
  PROVE  /\ SetHash(r) => RowBecomes(at[r], r, WithHash(at[r], Server[r]))
         /\ SetId(r) => RowBecomes(at[r], r, WithId(at[r], id[r]))
         /\ SetCallback(r) => RowBecomes(at[r], r, WithCallback(at[r], r))
<1> DEFINE row == rows[at[r]]
<1>1. sending[r] \in {"hash", "id", "callback"} => at[r] \in DOMAIN rows /\ row \in Row
  BY DEF ReturnsTypeOK
<1>2. row \in Row => /\ [row EXCEPT !.server_hash = Server[r]] \in Row
                    /\ [row EXCEPT !.respon_id = id[r]] \in Row
                    /\ [row EXCEPT !.callback = r] \in Row
  <2>1. id[r] \in Int
    BY DEF ReturnsTypeOK, None
  <2> HIDE DEF row
  <2> QED BY <2>1 DEF Row, Servers
<1>3. rows \in Seq(Row)
  BY DEF ReturnsTypeOK
<1>4. SetHash(r) => Write(r, [rows EXCEPT ![at[r]] = [row EXCEPT !.server_hash = Server[r]]])
  BY DEF SetHash
<1>5. SetId(r) => Write(r, [rows EXCEPT ![at[r]] = [row EXCEPT !.respon_id = id[r]]])
  BY DEF SetId
<1>6. SetCallback(r) => Write(r, [rows EXCEPT ![at[r]] = [row EXCEPT !.callback = r]])
  BY DEF SetCallback
<1>7. SetHash(r) \/ SetId(r) \/ SetCallback(r) => sending[r] \in {"hash", "id", "callback"}
  BY DEF SetHash, SetId, SetCallback, SendGoes
<1> HIDE DEF row
<1>8. CASE row \in Row /\ at[r] \in DOMAIN rows
  BY <1>2, <1>3, <1>4, <1>5, <1>6, <1>8, Written DEF row, WithHash, WithId, WithCallback
<1> QED BY <1>1, <1>7, <1>8

LEMMA ClearWrites ==
  ASSUME ReturnsTypeOK
  PROVE  /\ ClearCallback => RowBecomes(wat, NoRequest, WithCallback(wat, NoRequest))
         /\ ClearId => RowBecomes(wat, NoRequest, WithId(wat, None))
         /\ ClearHash => RowBecomes(wat, NoRequest, WithHash(wat, NoServer))
<1> DEFINE row == rows[wat]
<1>1. wpc \in {"clear", "clear_id", "clear_hash"} => wat \in DOMAIN rows /\ row \in Row
  BY DEF ReturnsTypeOK
<1>2. row \in Row => /\ [row EXCEPT !.server_hash = NoServer] \in Row
                    /\ [row EXCEPT !.respon_id = None] \in Row
                    /\ [row EXCEPT !.callback = NoRequest] \in Row
  BY DEF Row, None
<1>3. rows \in Seq(Row)
  BY DEF ReturnsTypeOK
<1>4. ClearHash => Write(NoRequest, [rows EXCEPT ![wat] = [row EXCEPT !.server_hash = NoServer]])
  BY DEF ClearHash
<1>5. ClearId => Write(NoRequest, [rows EXCEPT ![wat] = [row EXCEPT !.respon_id = None]])
  BY DEF ClearId
<1>6. ClearCallback => Write(NoRequest, [rows EXCEPT ![wat] = [row EXCEPT !.callback = NoRequest]])
  BY DEF ClearCallback
<1>7. ClearHash \/ ClearId \/ ClearCallback => wpc \in {"clear", "clear_id", "clear_hash"}
  BY DEF ClearHash, ClearId, ClearCallback, Goes
<1> HIDE DEF row
<1>8. CASE row \in Row /\ wat \in DOMAIN rows
  BY <1>2, <1>3, <1>4, <1>5, <1>6, <1>8, Written DEF row, WithHash, WithId, WithCallback
<1> QED BY <1>1, <1>7, <1>8

LEMMA CopyType ==
  ASSUME ReturnsTypeOK, CopiesInv, NEW r \in Requests
  PROVE  /\ Copy(r) \in [request : Requests, server : Servers, id : Nat]
         /\ Copy(r) = [request |-> r, server |-> Server[r], id |-> Copy(r).id]
         /\ Copy(r).id = Cardinality({c \in copies : c.server = Server[r]})
<1>1. Cardinality({c \in copies : c.server = Server[r]}) \in Nat
  <2>1. {c \in copies : c.server = Server[r]} \in SUBSET copies
    OBVIOUS
  <2> QED BY <2>1, FS_Subset, FS_CardinalityType DEF CopiesInv
<1> QED BY <1>1 DEF Copy, Servers

-----------------------------------------------------------------------------
\* Types

LEMMA SendTypes ==
  ASSUME ReturnsTypeOK, CopiesInv, NEW r \in Requests, CallSend(r) \/ Send(r)
  PROVE  ReturnsTypeOK'
<1> USE ReturnsAssumption
<1>1. CASE CallSend(r)
  BY <1>1 DEF CallSend, SendGoes, ReturnsTypeOK, peerVars, workVars, histVars
<1>2. CASE Post(r)
  <2>1. copies \subseteq copies' /\ copies' \subseteq copies \cup {Copy(r)}
    BY <1>2 DEF Post
  <2>2. id' \in [Requests -> Nat \cup {None}]
    BY <1>2, CopyType DEF Post, ReturnsTypeOK
  <2>3. lost' \in Nat /\ overlap' \subseteq {"adds", "call"}
    <3>1. Meets(FALSE) => overlap' \subseteq overlap \cup {"adds", "call"}
      BY DEF Meets
    <3>2. overlap' = overlap \/ Meets(FALSE)
      BY <1>2 DEF Post
    <3>3. lost' = lost \/ lost' = lost + 1
      BY <1>2 DEF Post, LoseCall
    <3>4. overlap' \subseteq {"adds", "call"}
      BY <3>1, <3>2 DEF ReturnsTypeOK
    <3>5. lost' \in Nat
      BY <3>3 DEF ReturnsTypeOK
    <3> QED BY <3>4, <3>5
  <2>4. copies' \subseteq [request : Requests, server : Servers, id : Nat]
    <3> DEFINE c == Copy(r)
    <3>1. c \in [request : Requests, server : Servers, id : Nat]
      BY CopyType
    <3>2. copies' \subseteq copies \cup {c}
      BY <2>1
    <3> HIDE DEF c
    <3> QED BY <3>1, <3>2 DEF ReturnsTypeOK
  <2>5. sending' \in [Requests -> {"out", "post", "scan", "hash", "id", "callback", "done"}]
    BY <1>2 DEF Post, SendGoes, ReturnsTypeOK
  <2>6. \A q \in Requests : sending'[q] \in {"hash", "id", "callback"} => sending[q] = sending'[q]
    BY <1>2 DEF Post, SendGoes, ReturnsTypeOK
  <2> QED BY <1>2, <2>1, <2>2, <2>3, <2>4, <2>5, <2>6 DEF Post, ReturnsTypeOK, workVars
<1>3. CASE Scan(r)
  <2>1. UNCHANGED <<copies, ended, lost, id, wpc, event, wat, calls, strange, overlap>>
    BY <1>3 DEF Scan, Add, peerVars, workVars, histVars
  <2>2. CASE /\ at[r] \in DOMAIN rows /\ UNCHANGED <<rows, moved>>
             /\ \/ sending' = [sending EXCEPT ![r] = "hash"] /\ UNCHANGED at
                \/ sending[r] = "scan" /\ at' = [at EXCEPT ![r] = at[r] + 1] /\ UNCHANGED sending
    <3>1. at[r] + 1 \in 1..(Len(rows) + 1)
      BY <2>2 DEF ReturnsTypeOK
    <3>2. at' \in [Requests -> 1..(Len(rows) + 1)]
      BY <2>2, <3>1, Zenon DEF ReturnsTypeOK
    <3>3. \A q \in Requests : sending'[q] \in {"hash", "id", "callback"} => at'[q] \in DOMAIN rows
      BY <2>2 DEF ReturnsTypeOK
    <3>4. sending' \in [Requests -> {"out", "post", "scan", "hash", "id", "callback", "done"}]
      BY <2>2 DEF ReturnsTypeOK
    <3> QED BY <2>1, <2>2, <3>2, <3>3, <3>4 DEF ReturnsTypeOK
  <2>3. CASE /\ rows' = Append(rows, Full(r)) /\ moved' = moved \cup AtRows
             /\ sending' = [sending EXCEPT ![r] = "done"] /\ UNCHANGED at
    <3>1. /\ rows' \in Seq(Row) /\ Len(rows') = Len(rows) + 1 /\ DOMAIN rows \subseteq DOMAIN rows'
          /\ Len(rows) \in Nat
      BY <2>3, Appended, FullType DEF ReturnsTypeOK
    <3>2. moved' \subseteq Requests \cup {NoRequest}
      BY <2>3 DEF AtRows, ReturnsTypeOK
    <3>3. \A q \in Requests : sending'[q] \in {"hash", "id", "callback"} => sending[q] = sending'[q]
      BY <2>3 DEF ReturnsTypeOK
    <3> QED BY <2>1, <2>3, <3>1, <3>2, <3>3 DEF ReturnsTypeOK
  <2> QED BY <1>3, <2>2, <2>3 DEF Scan
<1>4. CASE SetHash(r) \/ SetId(r) \/ SetCallback(r)
  <2>1. UNCHANGED <<copies, ended, lost, id, at, wpc, event, wat, calls, strange, overlap>>
    BY <1>4 DEF SetHash, SetId, SetCallback, Add, peerVars, workVars, histVars
  <2>2. rows' \in Seq(Row) /\ Len(rows') = Len(rows) /\ DOMAIN rows' = DOMAIN rows
    BY <1>4, AddWrites DEF RowBecomes
  <2>3. /\ sending' \in [Requests -> {"out", "post", "scan", "hash", "id", "callback", "done"}]
        /\ \A q \in Requests : sending'[q] \in {"hash", "id", "callback"}
                                => sending[q] \in {"hash", "id", "callback"}
    BY <1>4 DEF SetHash, SetId, SetCallback, SendGoes, ReturnsTypeOK
  <2>4. moved' \subseteq moved
    BY <1>4 DEF SetHash, SetId, SetCallback
  <2> QED BY <2>1, <2>2, <2>3, <2>4 DEF ReturnsTypeOK
<1> QED BY <1>1, <1>2, <1>3, <1>4 DEF Send

LEMMA WorkTypes ==
  ASSUME ReturnsTypeOK, Response \/ Request \/ Worker
  PROVE  ReturnsTypeOK'
<1> USE ReturnsAssumption
<1>1. CASE Response
  BY <1>1 DEF Response, Goes, Meets, ReturnsTypeOK, peerVars, sendVars
<1>2. CASE Request
  BY <1>2 DEF Request, Goes, Handling, ReturnsTypeOK, sendVars, histVars
<1>3. CASE CallRow
  <2>1. UNCHANGED <<copies, ended, lost, rows, sending, id, at, moved, event, overlap>>
    BY <1>3 DEF CallRow, Call, peerVars, sendVars
  <2>2. /\ wpc' \in {"call", "dead", "clear"} /\ wat \in DOMAIN rows /\ wat' \in {wat, wat + 1}
        /\ strange' \in BOOLEAN
    BY <1>3 DEF CallRow, ReturnsTypeOK, Own
  <2>3. calls' \in [Requests -> 0..2]
    <3>1. rows[wat].callback \in Requests \cup {NoRequest}
      <4>1. rows[wat] \in Row
        BY <2>2 DEF ReturnsTypeOK
      <4> QED BY <4>1 DEF Row
    <3> QED BY <1>3, <3>1 DEF CallRow, ReturnsTypeOK
  <2>4. wpc' = "clear" => wat' = wat
    BY <1>3 DEF CallRow
  <2>5. wat' \in 1..(Len(rows) + 1)
    BY <2>2 DEF ReturnsTypeOK
  <2> QED BY <2>1, <2>2, <2>3, <2>4, <2>5 DEF ReturnsTypeOK
<1>4. CASE CallDone
  BY <1>4 DEF CallDone, Goes, Call, ReturnsTypeOK, peerVars, sendVars
<1>5. CASE ClearCallback \/ ClearId \/ ClearHash
  <2>1. UNCHANGED <<copies, ended, lost, sending, id, at, event, calls, strange, overlap>>
    BY <1>5 DEF ClearCallback, ClearId, ClearHash, Call, peerVars, sendVars
  <2>2. /\ rows' \in Seq(Row) /\ Len(rows') = Len(rows) /\ DOMAIN rows' = DOMAIN rows
        /\ wat \in DOMAIN rows
    BY <1>5, ClearWrites DEF RowBecomes
  <2>3. /\ wpc' \in {"clear_id", "clear_hash", "call"} /\ moved' \subseteq moved
        /\ wat' = IF wpc' = "call" THEN wat + 1 ELSE wat
    BY <1>5 DEF ClearCallback, ClearId, ClearHash, Goes
  <2>4. wat' \in 1..(Len(rows) + 1) /\ (wpc' # "call" => wat' \in DOMAIN rows)
    BY <2>2, <2>3 DEF ReturnsTypeOK
  <2> QED BY <2>1, <2>2, <2>3, <2>4 DEF ReturnsTypeOK
<1>6. CASE Respond
  <2>1. lost' = lost \/ lost' = lost + 1
    BY <1>6 DEF Respond, LoseCall
  <2>2. lost' \in Nat
    BY <2>1 DEF ReturnsTypeOK
  <2> QED BY <1>6, <2>2 DEF Respond, Handling, ReturnsTypeOK, sendVars, histVars
<1>7. CASE Check
  BY <1>7 DEF Check, Handling, ReturnsTypeOK, peerVars, sendVars, histVars
<1>8. CASE End
  <2>1. UNCHANGED <<copies, rows, sending, id, at, wat, moved, calls, strange, overlap>>
    BY <1>8 DEF End, Handling, sendVars, histVars
  <2>2. ended' \in BOOLEAN /\ wpc' \in {"out", "end"} /\ event' \in {event, NoEvent}
    BY <1>8 DEF End, ReturnsTypeOK
  <2>3. lost' = lost \/ lost' = lost + 1
    BY <1>8 DEF End, LoseCall
  <2>4. lost' \in Nat
    BY <2>3 DEF ReturnsTypeOK
  <2> QED BY <2>1, <2>2, <2>4 DEF ReturnsTypeOK
<1> QED BY <1>1, <1>2, <1>3, <1>4, <1>5, <1>6, <1>7, <1>8 DEF Worker

-----------------------------------------------------------------------------
\* The copies at the peers

LEMMA CopiesGrow ==
  ASSUME ReturnsTypeOK, CopiesInv, NEW r \in Requests, copies' = copies \cup {Copy(r)}
  PROVE  /\ IsFiniteSet(copies')
         /\ \A c \in copies' : /\ c.server = Server[c.request]
                               /\ c.id < Cardinality({d \in copies' : d.server = c.server})
         /\ \A c, d \in copies' : c.server = d.server /\ c.id = d.id => c = d
<1> DEFINE x == Copy(r)
           On(p) == {c \in copies : c.server = p}
           NewOn(p) == {c \in copies' : c.server = p}
<1>1. /\ x.server = Server[r] /\ x.request = r
      /\ x.id = Cardinality(On(Server[r]))
      /\ x \in [request : Requests, server : Servers, id : Nat]
  BY CopyType DEF Copy
<1> HIDE DEF x
<1>2. copies' = copies \cup {x}
  BY DEF x
<1>3. IsFiniteSet(copies')
  BY <1>2, FS_AddElement DEF CopiesInv
<1>4. ASSUME NEW p
      PROVE  /\ Cardinality(On(p)) \in Nat /\ Cardinality(NewOn(p)) \in Nat
             /\ Cardinality(On(p)) <= Cardinality(NewOn(p))
             /\ p = Server[r] /\ x \notin copies => Cardinality(NewOn(p)) = Cardinality(On(p)) + 1
  <2>1. IsFiniteSet(On(p))
    <3>1. On(p) \in SUBSET copies
      OBVIOUS
    <3> QED BY <3>1, FS_Subset DEF CopiesInv
  <2>2. NewOn(p) = IF p = Server[r] THEN On(p) \cup {x} ELSE On(p)
    BY <1>1, <1>2
  <2> HIDE DEF On, NewOn
  <2>3. Cardinality(On(p)) \in Nat
    BY <2>1, FS_CardinalityType
  <2>4. x \notin copies => x \notin On(p)
    BY DEF On
  <2>5. CASE p # Server[r]
    BY <2>2, <2>3, <2>5
  <2>6. CASE p = Server[r]
    <3>1. NewOn(p) = On(p) \cup {x}
      BY <2>2, <2>6
    <3>2. Cardinality(NewOn(p)) = IF x \in On(p) THEN Cardinality(On(p)) ELSE Cardinality(On(p)) + 1
      BY <2>1, <3>1, FS_AddElement
    <3> QED BY <2>3, <2>4, <3>2
  <2> QED BY <2>5, <2>6
<1>5. \A c \in copies : c.server = Server[r] => c.id < x.id
  BY <1>1 DEF CopiesInv
<1>6. x \notin copies
  BY <1>1, <1>5
<1>7. \A c \in copies' : c.server = Server[c.request]
  BY <1>1, <1>2 DEF CopiesInv
<1>8. \A c \in copies' : c.id < Cardinality(NewOn(c.server))
  <2>1. ASSUME NEW c \in copies
        PROVE  c.id < Cardinality(NewOn(c.server))
    <3>1. c.id \in Nat /\ c.id < Cardinality(On(c.server))
      BY DEF CopiesInv, ReturnsTypeOK
    <3> HIDE DEF On, NewOn
    <3> QED BY <3>1, <1>4
  <2>2. x.id < Cardinality(NewOn(x.server))
    <3> HIDE DEF On, NewOn
    <3> QED BY <1>1, <1>4, <1>6
  <2> QED BY <1>2, <2>1, <2>2
<1>9. \A c, d \in copies' : c.server = d.server /\ c.id = d.id => c = d
  <2>1. \A c \in copies : c.id \in Nat
    BY DEF ReturnsTypeOK
  <2> QED BY <1>1, <1>2, <1>5, <2>1 DEF CopiesInv
<1> QED BY <1>3, <1>7, <1>8, <1>9

LEMMA CopiesStep ==
  ASSUME ReturnsTypeOK, CopiesInv, [RowsNext]_restVars
  PROVE  CopiesInv'
<1>1. ASSUME copies' = copies,
             InCall' => event' \in copies
      PROVE  CopiesInv'
  BY <1>1 DEF CopiesInv, InCall
<1>2. CASE UNCHANGED restVars
  BY <1>1, <1>2 DEF restVars, workVars, CopiesInv, InCall
<1>3. ASSUME NEW r \in Requests, Post(r) PROVE CopiesInv'
  <2>1. copies' \in {copies, copies \cup {Copy(r)}} /\ UNCHANGED <<wpc, event>>
    BY <1>3 DEF Post, workVars
  <2> QED BY <2>1, CopiesGrow DEF CopiesInv
<1>4. ASSUME NEW r \in Requests, CallSend(r) \/ Scan(r) \/ SetHash(r) \/ SetId(r) \/ SetCallback(r)
      PROVE  CopiesInv'
  <2>1. UNCHANGED <<copies, wpc, event>>
    BY <1>4 DEF CallSend, Scan, SetHash, SetId, SetCallback, Add, peerVars, workVars
  <2> QED BY <1>1, <2>1 DEF CopiesInv, InCall
<1>5. CASE Response
  BY <1>1, <1>5 DEF Response, peerVars
<1>6. CASE CallRow \/ ClearCallback \/ ClearId \/ ClearHash
  <2>1. UNCHANGED <<copies, event>> /\ InCall
    BY <1>6 DEF CallRow, ClearCallback, ClearId, ClearHash, Call, peerVars, InCall, Goes
  <2> QED BY <1>1, <2>1 DEF CopiesInv, InCall
<1>7. CASE CallDone \/ Request \/ Respond \/ Check \/ End
  <2>1. copies' = copies /\ ~InCall'
    BY <1>7 DEF CallDone, Request, Respond, Check, End, Call, Goes, peerVars, InCall
  <2> QED BY <1>1, <2>1
<1> QED BY <1>2, <1>3, <1>4, <1>5, <1>6, <1>7 DEF RowsNext, Send, Worker

LEMMA SentStep ==
  ASSUME ReturnsTypeOK, CopiesInv, SentInv, [RowsNext]_restVars
  PROVE  SentInv'
<1>1. ASSUME copies' = copies, id' = id,
             \A r \in Requests : sending'[r] \notin {"out", "post"} => sending[r] \notin {"out", "post"}
      PROVE  SentInv'
  BY <1>1 DEF SentInv
<1>2. CASE UNCHANGED restVars
  BY <1>1, <1>2 DEF restVars, sendVars
<1>3. ASSUME NEW r \in Requests, Post(r) PROVE SentInv'
  <2> DEFINE x == Copy(r)
  <2>1. /\ x = [request |-> r, server |-> Server[r], id |-> x.id]
        /\ x.id = Cardinality({c \in copies : c.server = Server[r]})
        /\ x.id \in Nat
        /\ copies' \in {copies, copies \cup {x}}
    BY <1>3, CopyType DEF Post
  <2>2. \/ /\ copies' = copies \cup {x} /\ id' = [id EXCEPT ![r] = x.id]
           /\ sending' = [sending EXCEPT ![r] = "scan"]
        \/ UNCHANGED <<sending, id>> /\ sending[r] = "post"
    BY <1>3 DEF Post, SendGoes
  <2>3. \A c \in copies : c.request = r => c.id <= x.id
    <3>1. ASSUME NEW c \in copies, c.request = r
          PROVE  c.id \in Nat /\ c.id < x.id
      <4>1. c.id \in Nat /\ c.server = Server[r]
        BY <3>1 DEF CopiesInv, ReturnsTypeOK
      <4>2. c.id < Cardinality({d \in copies : d.server = Server[r]})
        BY <4>1 DEF CopiesInv
      <4> QED BY <2>1, <4>1, <4>2
    <3> HIDE DEF x
    <3> QED BY <3>1, <2>1
  <2> HIDE DEF x
  <2>4. x.request = r
    BY <2>1
  <2>5. ASSUME NEW q \in Requests, sending'[q] \notin {"out", "post"}
        PROVE  /\ [request |-> q, server |-> Server[q], id |-> id'[q]] \in copies'
               /\ \A c \in copies' : c.request = q => c.id <= id'[q]
    <3>1. CASE q = r
      <4>1. copies' = copies \cup {x} /\ id'[r] = x.id
        BY <2>2, <2>5, <3>1 DEF ReturnsTypeOK
      <4> QED BY <4>1, <2>1, <2>3, <3>1
    <3>2. CASE q # r
      <4>1. sending'[q] = sending[q] /\ id'[q] = id[q]
        BY <2>2, <3>2 DEF ReturnsTypeOK
      <4> QED BY <4>1, <2>1, <2>4, <2>5, <3>2 DEF SentInv
    <3> QED BY <3>1, <3>2
  <2> QED BY <2>5 DEF SentInv
<1>4. ASSUME NEW r \in Requests, CallSend(r) \/ Scan(r) \/ SetHash(r) \/ SetId(r) \/ SetCallback(r)
      PROVE  SentInv'
  <2>1. UNCHANGED <<copies, id>>
    BY <1>4 DEF CallSend, Scan, SetHash, SetId, SetCallback, Add, peerVars
  <2>2. \A q \in Requests : sending'[q] \notin {"out", "post"} => sending[q] \notin {"out", "post"}
    BY <1>4 DEF CallSend, Scan, SetHash, SetId, SetCallback, SendGoes, ReturnsTypeOK
  <2> QED BY <1>1, <2>1, <2>2
<1>5. CASE Response \/ Request \/ Worker
  <2>1. UNCHANGED <<copies, id, sending>>
    BY <1>5 DEF Response, Request, Worker, CallRow, CallDone, ClearCallback, ClearId, ClearHash,
                Respond, Check, End, Call, Handling, peerVars, sendVars
  <2> QED BY <1>1, <2>1
<1> QED BY <1>2, <1>3, <1>4, <1>5 DEF RowsNext, Send

-----------------------------------------------------------------------------
\* Who is at the rows

\* A step that brings nobody to manager_returns, and changes no row and no address.
Elsewhere ==
  /\ UNCHANGED <<rows, moved, calls, strange, overlap>>
  /\ \/ UNCHANGED sending
     \/ \E r \in Requests : sending[r] = "out" /\ sending' = [sending EXCEPT ![r] = "post"]
  /\ UNCHANGED <<id, at>>
  /\ \/ UNCHANGED <<wpc, wat>>
     \/ wpc \in {"out", "respond", "check", "end"} /\ wpc' \in {"out", "respond", "check", "end"}
     \/ wpc = "call" /\ wpc' = "out"

LEMMA Steps ==
  ASSUME ReturnsTypeOK, [RowsNext]_restVars
  PROVE  \/ Elsewhere
         \/ \E r \in Requests :
              \/ Post(r) /\ sending[r] = "post" /\ sending' = [sending EXCEPT ![r] = "scan"]
              \/ Scan(r) \/ SetHash(r) \/ SetId(r) \/ SetCallback(r)
         \/ Response \/ CallRow \/ ClearCallback \/ ClearId \/ ClearHash
<1>1. CASE UNCHANGED restVars
  BY <1>1 DEF restVars, Elsewhere, sendVars, workVars, histVars
<1>2. ASSUME NEW r \in Requests, CallSend(r) PROVE Elsewhere
  BY <1>2 DEF CallSend, SendGoes, Elsewhere, workVars, histVars
<1>3. ASSUME NEW r \in Requests, Post(r), ~(sending[r] = "post" /\ sending' = [sending EXCEPT ![r] = "scan"])
      PROVE  Elsewhere
  BY <1>3 DEF Post, SendGoes, Elsewhere, workVars
<1>4. CASE Request \/ Respond \/ Check \/ End
  BY <1>4 DEF Request, Respond, Check, End, Goes, Handling, Elsewhere, sendVars, histVars
<1>5. CASE CallDone
  BY <1>5 DEF CallDone, Goes, Call, Elsewhere, sendVars
<1> QED BY <1>1, <1>2, <1>3, <1>4, <1>5 DEF RowsNext, Send, Worker

LEMMA OverlapStep ==
  ASSUME ReturnsTypeOK, OverlapInv, [RowsNext]_restVars
  PROVE  OverlapInv'
<1>1. ASSUME overlap' = overlap, \A r \in Requests : Adding(r)' => Adding(r), InCall' => InCall
      PROVE  OverlapInv'
  BY <1>1 DEF OverlapInv
<1>2. CASE Elsewhere
  <2>1. \A r \in Requests : Adding(r)' => Adding(r)
    BY <1>2 DEF Elsewhere, Adding, ReturnsTypeOK
  <2>2. InCall' => InCall
    BY <1>2 DEF Elsewhere, InCall
  <2> QED BY <1>1, <1>2, <2>1, <2>2 DEF Elsewhere
<1>3. ASSUME NEW r \in Requests, Post(r), sending[r] = "post", sending' = [sending EXCEPT ![r] = "scan"]
      PROVE  OverlapInv'
  <2>1. \A q \in Requests : Adding(q)' <=> q = r \/ Adding(q)
    BY <1>3 DEF Adding, ReturnsTypeOK
  <2>2. Meets(FALSE) /\ wpc' = wpc
    <3>1. sending' # sending
      BY <1>3 DEF ReturnsTypeOK
    <3> QED BY <1>3, <3>1 DEF Post, workVars
  <2>3. /\ "adds" \in overlap' <=> "adds" \in overlap \/ \E q \in Requests : Adding(q)
        /\ "call" \in overlap' <=> "call" \in overlap \/ InCall
    BY <2>2 DEF Meets
  <2>4. InCall' <=> InCall
    BY <2>2 DEF InCall
  <2> QED BY <2>1, <2>3, <2>4 DEF OverlapInv
<1>4. ASSUME NEW r \in Requests, Scan(r) \/ SetHash(r) \/ SetId(r) \/ SetCallback(r)
      PROVE  OverlapInv'
  <2>1. \A q \in Requests : Adding(q)' => Adding(q)
    BY <1>4 DEF Adding, Scan, SetHash, SetId, SetCallback, SendGoes, ReturnsTypeOK
  <2>2. UNCHANGED <<overlap, wpc>>
    BY <1>4 DEF Scan, SetHash, SetId, SetCallback, Add, workVars, histVars
  <2> QED BY <1>1, <2>1, <2>2 DEF InCall
<1>5. CASE Response
  <2>1. \A q \in Requests : Adding(q)' <=> Adding(q)
    BY <1>5 DEF Response, sendVars, Adding
  <2>2. /\ "adds" \in overlap' <=> "adds" \in overlap
        /\ "call" \in overlap' <=> "call" \in overlap \/ \E q \in Requests : Adding(q)
    BY <1>5 DEF Response, Meets
  <2> QED BY <2>1, <2>2 DEF OverlapInv
<1>6. CASE CallRow \/ ClearCallback \/ ClearId \/ ClearHash
  <2>1. UNCHANGED <<overlap, sending>> /\ InCall
    BY <1>6 DEF CallRow, ClearCallback, ClearId, ClearHash, Call, sendVars, InCall, Goes
  <2> QED BY <1>1, <2>1 DEF Adding
<1> QED BY <1>2, <1>3, <1>4, <1>5, <1>6, Steps

LEMMA OverlapGrows ==
  ASSUME ReturnsTypeOK, [RowsNext]_restVars
  PROVE  /\ overlap \subseteq overlap'
         /\ Len(rows) \in Nat /\ Len(rows') \in Nat /\ Len(rows) <= Len(rows')
<1>1. overlap \subseteq overlap'
  <2>1. ASSUME NEW r \in Requests, Post(r) \/ Scan(r) \/ SetHash(r) \/ SetId(r) \/ SetCallback(r)
        PROVE  overlap \subseteq overlap'
    BY <2>1 DEF Post, Meets, Scan, SetHash, SetId, SetCallback, Add, histVars
  <2>2. CASE Response \/ CallRow \/ ClearCallback \/ ClearId \/ ClearHash
    BY <2>2 DEF Response, Meets, CallRow, ClearCallback, ClearId, ClearHash, Call
  <2>3. CASE Elsewhere
    BY <2>3 DEF Elsewhere
  <2> QED BY <2>1, <2>2, <2>3, Steps
<1>2. Len(rows) \in Nat /\ Len(rows') \in Nat /\ Len(rows) <= Len(rows')
  <2>1. Len(rows) \in Nat
    BY DEF ReturnsTypeOK
  <2>2. ASSUME NEW r \in Requests, Scan(r)
        PROVE  rows' = rows \/ Len(rows') = Len(rows) + 1
    BY <2>2, Appended, FullType DEF Scan, ReturnsTypeOK
  <2>3. ASSUME NEW r \in Requests, SetHash(r) \/ SetId(r) \/ SetCallback(r)
        PROVE  Len(rows') = Len(rows)
    BY <2>3, AddWrites DEF RowBecomes
  <2>4. ClearCallback \/ ClearId \/ ClearHash => Len(rows') = Len(rows)
    BY ClearWrites DEF RowBecomes
  <2>5. Elsewhere \/ Response \/ CallRow \/ (\E r \in Requests : Post(r)) => rows' = rows
    BY DEF Elsewhere, Response, CallRow, Post
  <2> QED BY <2>1, <2>2, <2>3, <2>4, <2>5, Steps
<1> QED BY <1>1, <1>2

LEMMA MovedStep ==
  ASSUME ReturnsTypeOK, OverlapInv, MovedInv, [RowsNext]_restVars
  PROVE  MovedInv'
<1>1. ASSUME moved' \subseteq moved, moved' \subseteq AtRows'
      PROVE  MovedInv'
  BY <1>1, OverlapGrows, ReturnsAssumption DEF MovedInv
<1>2. CASE Elsewhere
  <2>1. AtRows \subseteq AtRows'
    BY <1>2 DEF Elsewhere, AtRows, ReturnsTypeOK
  <2> QED BY <1>1, <1>2, <2>1 DEF MovedInv, Elsewhere
<1>3. ASSUME NEW r \in Requests, Scan(r) PROVE MovedInv'
  <2>1. CASE UNCHANGED moved
    <3>1. AtRows \subseteq AtRows'
      BY <1>3 DEF Scan, Add, workVars, AtRows, ReturnsTypeOK
    <3> QED BY <1>1, <2>1, <3>1 DEF MovedInv
  <2>2. CASE rows' = Append(rows, Full(r)) /\ moved' = moved \cup AtRows
    <3>1. Len(rows') > InitialRows
      BY <2>2, Appended, FullType, ReturnsAssumption DEF MovedInv, ReturnsTypeOK
    <3>2. AtRows' = AtRows /\ overlap' = overlap
      BY <1>3, <2>2 DEF Scan, Add, workVars, histVars, AtRows, ReturnsTypeOK
    <3>3. Adding(r)
      BY <1>3 DEF Scan, Adding
    <3>4. \A u \in AtRows : (u = NoRequest /\ InCall) \/ (u # r /\ u \in Requests /\ Adding(u))
      BY <1>3 DEF Scan, AtRows, Adding, InCall
    <3>5. "adds" \notin overlap => AtRows \subseteq {NoRequest}
      BY <3>3, <3>4 DEF OverlapInv
    <3>6. overlap = {} => AtRows = {}
      BY <3>3, <3>4 DEF OverlapInv
    <3> QED BY <2>2, <3>1, <3>2, <3>5, <3>6, OverlapGrows, ReturnsAssumption DEF MovedInv
  <2> QED BY <1>3, <2>1, <2>2 DEF Scan
<1>4. ASSUME NEW r \in Requests,
             \/ Post(r) /\ sending[r] = "post" /\ sending' = [sending EXCEPT ![r] = "scan"]
             \/ SetHash(r) \/ SetId(r) \/ SetCallback(r)
      PROVE  MovedInv'
  <2>1. moved' \subseteq moved /\ (SetCallback(r) => r \notin moved')
    BY <1>4 DEF Post, SetHash, SetId, SetCallback
  <2>2. AtRows \subseteq AtRows' \cup {r} /\ (~SetCallback(r) => AtRows \subseteq AtRows')
    BY <1>4 DEF Post, SetHash, SetId, SetCallback, SendGoes, Add, workVars, AtRows, ReturnsTypeOK
  <2> QED BY <1>1, <2>1, <2>2 DEF MovedInv
<1>5. CASE Response \/ CallRow \/ ClearCallback \/ ClearId \/ ClearHash
  <2>1. moved' \subseteq moved /\ (ClearHash => NoRequest \notin moved')
    BY <1>5 DEF Response, CallRow, ClearCallback, ClearId, ClearHash
  <2>2. AtRows \subseteq AtRows' \cup {NoRequest} /\ (~ClearHash => AtRows \subseteq AtRows')
    BY <1>5 DEF Response, CallRow, ClearCallback, ClearId, ClearHash, Call, Goes, sendVars, AtRows
  <2> QED BY <1>1, <2>1, <2>2 DEF MovedInv
<1> QED BY <1>2, <1>3, <1>4, <1>5, Steps

-----------------------------------------------------------------------------
\* One row for a request, and one call of its callback

LEMMA NotMoved ==
  ASSUME MovedInv, NoStrayClear
  PROVE  moved = {}
BY ReturnsAssumption DEF MovedInv, NoStrayClear

LEMMA OnceStep ==
  ASSUME ReturnsTypeOK, OverlapInv, MovedInv, OnceInv, [RowsNext]_restVars
  PROVE  OnceInv'
<1> SUFFICES ASSUME NoStrayClear' PROVE OnceInv'
  BY DEF OnceInv
<1>1. NoStrayClear
  BY OverlapGrows, ReturnsAssumption DEF NoStrayClear, MovedInv
<1>2. moved = {}
  BY <1>1, NotMoved
<1>3. \A k, l \in DOMAIN rows :
        rows[k].callback = rows[l].callback /\ rows[k].callback # NoRequest => k = l
  BY <1>1 DEF OnceInv
<1>4. \A r \in Requests :
        /\ calls[r] <= 1
        /\ sending[r] # "done" => calls[r] = 0
        /\ \A k \in DOMAIN rows :
              rows[k].callback = r => /\ sending[r] = "done"
                                      /\ calls[r] = 1 => wpc = "clear" /\ wat = k
  BY <1>1 DEF OnceInv
<1>5. ASSUME DOMAIN rows' = DOMAIN rows,
             \A k \in DOMAIN rows : rows'[k].callback = rows[k].callback,
             calls' = calls,
             \A r \in Requests : sending'[r] = "done" <=> sending[r] = "done",
             wpc = "clear" => wpc' = "clear" /\ wat' = wat
      PROVE  OnceInv'
  BY <1>3, <1>4, <1>5 DEF OnceInv
<1>6. CASE Elsewhere
  <2>1. \A r \in Requests : sending'[r] = "done" <=> sending[r] = "done"
    BY <1>6 DEF Elsewhere, ReturnsTypeOK
  <2> QED BY <1>5, <1>6, <2>1 DEF Elsewhere
<1>7. ASSUME NEW r \in Requests, Post(r), sending[r] = "post", sending' = [sending EXCEPT ![r] = "scan"]
      PROVE  OnceInv'
  <2>1. \A q \in Requests : sending'[q] = "done" <=> sending[q] = "done"
    BY <1>7 DEF ReturnsTypeOK
  <2> QED BY <1>5, <1>7, <2>1 DEF Post, workVars
<1>8. ASSUME NEW r \in Requests, Scan(r) PROVE OnceInv'
  <2>1. UNCHANGED <<wpc, wat, calls, id>> /\ sending[r] = "scan"
    BY <1>8 DEF Scan, Add, workVars, histVars
  <2>2. CASE rows' = rows /\ sending' \in {sending, [sending EXCEPT ![r] = "hash"]}
    <3>1. \A q \in Requests : sending'[q] = "done" <=> sending[q] = "done"
      BY <2>1, <2>2 DEF ReturnsTypeOK
    <3> QED BY <1>5, <2>1, <2>2, <3>1
  <2>3. CASE rows' = Append(rows, Full(r)) /\ sending' = [sending EXCEPT ![r] = "done"]
    <3> DEFINE new == Len(rows) + 1
    <3>1. /\ DOMAIN rows' = DOMAIN rows \cup {new} /\ new \notin DOMAIN rows
          /\ rows'[new].callback = r
          /\ \A k \in DOMAIN rows : rows'[k] = rows[k]
      BY <2>3, Appended, FullType DEF Full, ReturnsTypeOK
    <3>2. sending'[r] = "done" /\ \A q \in Requests : q # r => sending'[q] = sending[q]
      BY <2>3 DEF ReturnsTypeOK
    <3>3. calls[r] = 0 /\ \A k \in DOMAIN rows : rows[k].callback # r
      BY <1>4, <2>1
    <3> HIDE DEF new
    <3>4. \A k, l \in DOMAIN rows' :
            rows'[k].callback = rows'[l].callback /\ rows'[k].callback # NoRequest => k = l
      BY <1>3, <3>1, <3>3
    <3> QED BY <1>4, <2>1, <3>1, <3>2, <3>3, <3>4 DEF OnceInv
  <2> QED BY <1>8, <2>2, <2>3 DEF Scan
<1>9. ASSUME NEW r \in Requests, SetHash(r) \/ SetId(r) PROVE OnceInv'
  <2>1. DOMAIN rows' = DOMAIN rows /\ \A k \in DOMAIN rows : rows'[k].callback = rows[k].callback
    <3>1. CASE SetHash(r)
      BY <3>1, AddWrites, HashWritten
    <3>2. CASE SetId(r)
      BY <3>2, AddWrites, IdWritten
    <3> QED BY <1>9, <3>1, <3>2
  <2>2. UNCHANGED <<wpc, wat, calls>> /\ \A q \in Requests : sending'[q] = "done" <=> sending[q] = "done"
    BY <1>9 DEF SetHash, SetId, SendGoes, Add, workVars, histVars, ReturnsTypeOK
  <2> QED BY <1>5, <2>1, <2>2
<1>10. ASSUME NEW r \in Requests, SetCallback(r) PROVE OnceInv'
  <2>1. UNCHANGED <<wpc, wat, calls>> /\ sending[r] = "callback" /\ sending' = [sending EXCEPT ![r] = "done"]
    BY <1>10 DEF SetCallback, SendGoes, Add, workVars, histVars
  <2>2. sending'[r] = "done" /\ \A q \in Requests : q # r => sending'[q] = sending[q]
    BY <2>1 DEF ReturnsTypeOK
  <2>3. calls[r] = 0 /\ \A k \in DOMAIN rows : rows[k].callback # r
    BY <1>4, <2>1
  <2>4. /\ at[r] \in DOMAIN rows /\ DOMAIN rows' = DOMAIN rows
        /\ rows'[at[r]].callback = r
        /\ \A k \in DOMAIN rows : k # at[r] => rows'[k] = rows[k]
    BY <1>2, <1>10, AddWrites, CallbackWritten
  <2>5. \A k, l \in DOMAIN rows' :
          rows'[k].callback = rows'[l].callback /\ rows'[k].callback # NoRequest => k = l
    BY <1>3, <2>3, <2>4
  <2> QED BY <1>4, <2>1, <2>2, <2>3, <2>4, <2>5 DEF OnceInv
<1>11. CASE Response
  <2>1. UNCHANGED <<rows, calls, sending>> /\ wpc = "out"
    BY <1>11 DEF Response, Goes, sendVars
  <2> QED BY <1>5, <2>1
<1>12. CASE CallRow
  <2>1. UNCHANGED <<rows, sending>> /\ wpc = "call" /\ wat \in DOMAIN rows
    BY <1>12 DEF CallRow, Call, sendVars
  <2>2. CASE UNCHANGED calls
    BY <1>5, <2>1, <2>2
  <2>3. CASE /\ rows[wat].callback \in Requests /\ wpc' = "clear" /\ wat' = wat
             /\ calls' = [calls EXCEPT ![rows[wat].callback] = IF @ = 2 THEN 2 ELSE @ + 1]
    <3> DEFINE q == rows[wat].callback
    <3>1. calls[q] = 0 /\ sending[q] = "done"
      BY <1>4, <2>1, <2>3 DEF ReturnsTypeOK
    <3> HIDE DEF q
    <3>2. calls'[q] = 1 /\ \A r \in Requests : r # q => calls'[r] = calls[r]
      BY <2>3, <3>1 DEF ReturnsTypeOK, q
    <3>3. \A k \in DOMAIN rows : rows[k].callback = q => k = wat
      BY <1>3, <2>1, <2>3, ReturnsAssumption DEF q
    <3>4. \A r \in Requests : r # q => \A k \in DOMAIN rows : rows[k].callback = r => calls[r] # 1
      BY <1>4, <2>1
    <3> QED BY <1>3, <1>4, <2>1, <2>3, <3>1, <3>2, <3>3, <3>4 DEF OnceInv
  <2>4. rows[wat].callback \in Requests \cup {NoRequest}
    <3>1. rows[wat] \in Row
      BY <2>1 DEF ReturnsTypeOK
    <3> QED BY <3>1 DEF Row
  <2> QED BY <1>12, <2>2, <2>3, <2>4 DEF CallRow
<1>13. CASE ClearCallback
  <2>1. UNCHANGED <<calls, sending, wat>> /\ wpc = "clear"
    BY <1>13 DEF ClearCallback, Call, Goes, sendVars
  <2>2. /\ wat \in DOMAIN rows /\ DOMAIN rows' = DOMAIN rows
        /\ rows'[wat].callback = NoRequest
        /\ \A k \in DOMAIN rows : k # wat => rows'[k] = rows[k]
    BY <1>2, <1>13, ClearWrites, CallbackWritten
  <2> QED BY <1>3, <1>4, <2>1, <2>2, ReturnsAssumption DEF OnceInv
<1>14. CASE ClearId \/ ClearHash
  <2>1. UNCHANGED <<calls, sending>> /\ wpc # "clear"
    BY <1>14 DEF ClearId, ClearHash, Call, Goes, sendVars
  <2>2. DOMAIN rows' = DOMAIN rows /\ \A k \in DOMAIN rows : rows'[k].callback = rows[k].callback
    <3>1. CASE ClearId
      BY <3>1, ClearWrites, IdWritten
    <3>2. CASE ClearHash
      BY <3>2, ClearWrites, HashWritten
    <3> QED BY <1>14, <3>1, <3>2
  <2> QED BY <1>5, <2>1, <2>2
<1> QED BY <1>6, <1>7, <1>8, <1>9, <1>10, <1>11, <1>12, <1>13, <1>14, Steps

-----------------------------------------------------------------------------
\* Whose answers a callback is given

\* What OwnInv says of a row with a callback, and of the row that r fills.
RowOwned(k) ==
  LET q == rows[k].callback
  IN  IF q = NoRequest THEN TRUE
      ELSE /\ sending[q] = "done"
           /\ rows[k].respon_id = id[q]
           /\ rows[k].server_hash \in {Server[q], NoServer}

Filling(r) == sending[r] \in {"hash", "id", "callback"}

RowFilled(r) ==
  /\ rows[at[r]].callback = NoRequest
  /\ Clearing => wat # at[r]
  /\ rows[at[r]].respon_id = IF sending[r] = "callback" THEN id[r] ELSE None
  /\ sending[r] # "hash" => rows[at[r]].server_hash \in {Server[r], NoServer}

OwnNow ==
  /\ ~strange
  /\ \A k \in DOMAIN rows : RowOwned(k)
  /\ \A r \in Requests : Filling(r) => RowFilled(r)
  /\ Clearing => rows[wat].respon_id # None
  /\ wpc = "clear_id" /\ NoRequest \notin moved => rows[wat].callback = NoRequest

LEMMA OwnParts ==
  /\ OwnInv <=> ("adds" \notin overlap => OwnNow)
  /\ OwnInv' <=> ("adds" \notin overlap' => OwnNow')
BY DEF OwnInv, OwnNow, RowOwned, Filling, RowFilled, Clearing

LEMMA RowTypes ==
  ASSUME ReturnsTypeOK, NEW k \in DOMAIN rows
  PROVE  /\ rows[k] \in Row /\ rows[k].respon_id \in Int
         /\ rows[k].callback \in Requests \cup {NoRequest}
<1>1. rows[k] \in Row
  BY DEF ReturnsTypeOK
<1> QED BY <1>1 DEF Row

\* The numbers that send() was told are numbers.
LEMMA ToldNumbers ==
  ASSUME ReturnsTypeOK, SentInv, NEW r \in Requests, sending[r] \notin {"out", "post"}
  PROVE  id[r] \in Nat /\ id[r] # None
<1>1. [request |-> r, server |-> Server[r], id |-> id[r]] \in copies
  BY DEF SentInv
<1>2. [request |-> r, server |-> Server[r], id |-> id[r]].id \in Nat
  BY <1>1 DEF ReturnsTypeOK
<1> QED BY <1>2 DEF None

\* Whoever calls back a request with an answer that matches its row, calls it
\* back with an answer to the last copy of it.
LEMMA MatchIsOwn ==
  ASSUME ReturnsTypeOK, CopiesInv, SentInv, wpc = "call", NEW k \in DOMAIN rows, Matches(k),
         rows[k].callback # NoRequest, RowOwned(k)
  PROVE  Own(rows[k].callback)
<1> DEFINE q == rows[k].callback
           c == [request |-> q, server |-> Server[q], id |-> id[q]]
<1>1. event \in copies /\ event.server \in {Server[r] : r \in Requests}
  BY DEF CopiesInv, ReturnsTypeOK
<1>2. q \in Requests /\ sending[q] = "done"
  BY RowTypes DEF RowOwned
<1>3. event.id = id[q] /\ event.server = Server[q]
  BY <1>1, ReturnsAssumption DEF RowOwned, Matches
<1>4. c \in copies /\ \A d \in copies : d.request = q => d.id <= id[q]
  BY <1>2 DEF SentInv
<1>5. c.server = Server[q] /\ c.id = id[q] /\ c.request = q
  OBVIOUS
<1> HIDE DEF c
<1>6. event = c
  BY <1>1, <1>3, <1>4, <1>5 DEF CopiesInv
<1> QED BY <1>3, <1>4, <1>5, <1>6 DEF Own

LEMMA OwnStep ==
  ASSUME ReturnsTypeOK, CopiesInv, SentInv, OverlapInv, MovedInv, OwnInv,
         ReturnsTypeOK', OverlapInv', MovedInv', [RowsNext]_restVars
  PROVE  OwnInv'
<1> SUFFICES ASSUME "adds" \notin overlap' PROVE OwnNow'
  BY OwnParts
<1>1. "adds" \notin overlap
  BY OverlapGrows
<1>2. /\ ~strange
      /\ \A k \in DOMAIN rows : RowOwned(k)
      /\ \A r \in Requests : Filling(r) => RowFilled(r)
      /\ Clearing => rows[wat].respon_id # None
      /\ wpc = "clear_id" /\ NoRequest \notin moved => rows[wat].callback = NoRequest
  BY <1>1, OwnParts DEF OwnNow
<1>3. \A q, r \in Requests : Adding(q) /\ Adding(r) => q = r
  BY <1>1 DEF OverlapInv
<1>4. moved \subseteq {NoRequest}
  BY <1>1 DEF MovedInv
<1>5. \A r \in Requests : Filling(r) => Adding(r) /\ at[r] \in DOMAIN rows
  BY DEF Filling, Adding, ReturnsTypeOK
<1>6. Clearing => wat \in DOMAIN rows
  BY DEF Clearing, ReturnsTypeOK
\* A step that leaves the rows as they are.
<1>7. ASSUME UNCHANGED <<rows, moved, strange>>,
             \A r \in Requests : sending[r] = "done" => sending'[r] = "done" /\ id'[r] = id[r],
             \A r \in Requests : Filling(r)' => Filling(r) /\ RowFilled(r)',
             Clearing' => wpc' = wpc /\ wat' = wat
      PROVE  OwnNow'
  <2>1. \A k \in DOMAIN rows : RowOwned(k)'
    BY <1>2, <1>7, RowTypes DEF RowOwned
  <2> QED BY <1>2, <1>7, <2>1 DEF Clearing, OwnNow
\* The same, for all who are at a row.
<1>8. ASSUME UNCHANGED <<rows, moved, strange>>,
             \A r \in Requests : sending[r] = "done" \/ Filling(r)' =>
                sending'[r] = sending[r] /\ id'[r] = id[r] /\ at'[r] = at[r],
             Clearing' => wpc' = wpc /\ wat' = wat
      PROVE  OwnNow'
  <2>1. \A r \in Requests : Filling(r)' => Filling(r) /\ RowFilled(r)'
    BY <1>2, <1>8 DEF Filling, RowFilled, Clearing
  <2> QED BY <1>7, <1>8, <2>1
<1>9. CASE Elsewhere
  <2>1. \A r \in Requests : sending[r] = "done" \/ Filling(r)' => sending'[r] = sending[r]
    BY <1>9 DEF Elsewhere, Filling, ReturnsTypeOK
  <2>2. Clearing' => wpc' = wpc /\ wat' = wat
    BY <1>9 DEF Elsewhere, Clearing
  <2> QED BY <1>8, <1>9, <2>1, <2>2 DEF Elsewhere
<1>10. ASSUME NEW r \in Requests, Post(r), sending[r] = "post", sending' = [sending EXCEPT ![r] = "scan"]
       PROVE  OwnNow'
  <2>1. UNCHANGED <<rows, at, moved, strange, wpc, wat>> /\ \A q \in Requests : q # r => id'[q] = id[q]
    BY <1>10 DEF Post, workVars, ReturnsTypeOK
  <2>2. \A q \in Requests : sending[q] = "done" \/ Filling(q)' => q # r /\ sending'[q] = sending[q]
    BY <1>10 DEF Filling, ReturnsTypeOK
  <2> QED BY <1>8, <2>1, <2>2
<1>11. ASSUME NEW r \in Requests, Scan(r) PROVE OwnNow'
  <2>1. UNCHANGED <<id, wpc, wat, strange>> /\ sending[r] = "scan" /\ Adding(r)
    BY <1>11 DEF Scan, Add, workVars, histVars, Adding
  <2>2. \A q \in Requests : Filling(q) => FALSE
    BY <1>3, <1>5, <2>1 DEF Filling
  <2>3. CASE /\ at[r] \in DOMAIN rows /\ rows[at[r]].respon_id = None
             /\ sending' = [sending EXCEPT ![r] = "hash"] /\ UNCHANGED <<rows, at, moved>>
    <3>1. \A q \in Requests : q # r => sending'[q] = sending[q]
      BY <2>3 DEF ReturnsTypeOK
    <3>2. sending'[r] = "hash"
      BY <2>3 DEF ReturnsTypeOK
    <3>3. rows[at[r]].callback = NoRequest
      <4>1. \A q \in Requests : sending[q] = "done" => id[q] # None
        BY ToldNumbers
      <4> QED BY <1>2, <2>3, <4>1, RowTypes DEF RowOwned
    <3>4. Clearing => wat # at[r]
      BY <1>2, <2>3
    <3>5. RowFilled(r)'
      BY <2>1, <2>3, <3>2, <3>3, <3>4 DEF RowFilled, Clearing
    <3>6. \A k \in DOMAIN rows : RowOwned(k)'
      BY <1>2, <2>1, <2>3, <3>1, RowTypes DEF RowOwned
    <3>7. \A q \in Requests : Filling(q)' => q = r
      BY <2>2, <3>1 DEF Filling
    <3> QED BY <1>2, <2>1, <2>3, <3>5, <3>6, <3>7 DEF OwnNow, Clearing
  <2>4. CASE sending' = sending /\ at' = [at EXCEPT ![r] = @ + 1] /\ UNCHANGED <<rows, moved>>
    <3>1. \A q \in Requests : Filling(q)' => FALSE
      BY <2>2, <2>4 DEF Filling
    <3> QED BY <1>7, <2>1, <2>4, <3>1
  <2>5. CASE /\ rows' = Append(rows, Full(r)) /\ moved' = moved \cup AtRows
             /\ sending' = [sending EXCEPT ![r] = "done"] /\ UNCHANGED at
    <3> DEFINE new == Len(rows) + 1
    <3>1. /\ DOMAIN rows' = DOMAIN rows \cup {new} /\ rows'[new] = Full(r)
          /\ \A k \in DOMAIN rows : rows'[k] = rows[k]
      BY <2>5, Appended, FullType DEF ReturnsTypeOK
    <3> HIDE DEF new
    <3>2. \A q \in Requests : q # r => sending'[q] = sending[q]
      BY <2>5 DEF ReturnsTypeOK
    <3>3. sending'[r] = "done"
      BY <2>5 DEF ReturnsTypeOK
    <3>4. \A q \in Requests : sending[q] = "done" => sending'[q] = "done"
      BY <2>1, <3>2
    <3>5. \A k \in DOMAIN rows : RowOwned(k)'
      BY <1>2, <2>1, <3>1, <3>4, RowTypes DEF RowOwned
    <3>6. \A k \in {new} : RowOwned(k)'
      BY <2>1, <3>1, <3>3 DEF RowOwned, Full
    <3>7. \A q \in Requests : Filling(q)' => FALSE
      BY <2>2, <3>2, <3>3 DEF Filling
    <3>8. NoRequest \notin moved' => NoRequest \notin moved
      BY <2>5
    <3> QED BY <1>2, <1>6, <2>1, <3>1, <3>5, <3>6, <3>7, <3>8 DEF OwnNow, Clearing
  <2> QED BY <1>11, <2>3, <2>4, <2>5 DEF Scan
<1>12. ASSUME NEW r \in Requests, SetHash(r) \/ SetId(r) \/ SetCallback(r) PROVE OwnNow'
  <2>1. UNCHANGED <<id, at, wpc, wat, strange>> /\ Filling(r) /\ r \notin moved
    BY <1>4, <1>12, ReturnsAssumption
       DEF SetHash, SetId, SetCallback, SendGoes, Add, workVars, histVars, Filling
  <2>2. /\ RowFilled(r) /\ at[r] \in DOMAIN rows
        /\ \A q \in Requests : Filling(q) => q = r
    BY <1>2, <1>3, <1>5, <2>1
  <2>3. \A q \in Requests : q # r => sending'[q] = sending[q]
    BY <1>12 DEF SetHash, SetId, SetCallback, SendGoes, ReturnsTypeOK
  <2>4. sending[r] # "done"
    BY <2>1 DEF Filling
  <2>5. \A q \in Requests : sending[q] = "done" => sending'[q] = "done"
    BY <2>3, <2>4
  <2>6. DOMAIN rows' = DOMAIN rows /\ \A k \in DOMAIN rows : k # at[r] => rows'[k] = rows[k]
    BY <1>12, AddWrites DEF RowBecomes
  <2>7. \A k \in DOMAIN rows : k # at[r] => RowOwned(k)'
    BY <1>2, <2>1, <2>5, <2>6, RowTypes DEF RowOwned
  <2>8. Clearing => wat # at[r]
    BY <2>2 DEF RowFilled
  <2>9. Clearing' => rows'[wat'].respon_id # None
    BY <1>2, <1>6, <2>1, <2>6, <2>8 DEF Clearing
  <2>10. (wpc' = "clear_id" /\ NoRequest \notin moved') => rows'[wat'].callback = NoRequest
    <3>1. NoRequest \notin moved' => NoRequest \notin moved
      BY <1>12, <2>1, ReturnsAssumption DEF SetHash, SetId, SetCallback
    <3> QED BY <1>2, <1>6, <2>1, <2>6, <2>8, <3>1 DEF Clearing
  <2>11. RowOwned(at[r])' /\ (Filling(r)' => RowFilled(r)')
    <3>1. CASE SetHash(r)
      <4>1. sending'[r] = "id" /\ sending[r] = "hash"
        BY <3>1 DEF SetHash, SendGoes, ReturnsTypeOK
      <4>2. /\ rows'[at[r]].server_hash = Server[r] /\ rows'[at[r]].callback = rows[at[r]].callback
            /\ rows'[at[r]].respon_id = rows[at[r]].respon_id
        BY <2>1, <2>2, <3>1, AddWrites, HashWritten
      <4> QED BY <2>1, <2>2, <4>1, <4>2 DEF RowFilled, RowOwned, Clearing
    <3>2. CASE SetId(r)
      <4>1. sending'[r] = "callback" /\ sending[r] = "id"
        BY <3>2 DEF SetId, SendGoes, ReturnsTypeOK
      <4>2. /\ rows'[at[r]].respon_id = id[r] /\ rows'[at[r]].callback = rows[at[r]].callback
            /\ rows'[at[r]].server_hash = rows[at[r]].server_hash
        BY <2>1, <2>2, <3>2, AddWrites, IdWritten
      <4> QED BY <2>1, <2>2, <4>1, <4>2 DEF RowFilled, RowOwned, Clearing
    <3>3. CASE SetCallback(r)
      <4>1. sending'[r] = "done" /\ sending[r] = "callback"
        BY <3>3 DEF SetCallback, SendGoes, ReturnsTypeOK
      <4>2. /\ rows'[at[r]].callback = r /\ rows'[at[r]].respon_id = rows[at[r]].respon_id
            /\ rows'[at[r]].server_hash = rows[at[r]].server_hash
        BY <2>1, <2>2, <3>3, AddWrites, CallbackWritten
      <4> QED BY <2>1, <2>2, <4>1, <4>2 DEF RowFilled, RowOwned, Filling
    <3> QED BY <1>12, <3>1, <3>2, <3>3
  <2>12. \A q \in Requests : Filling(q)' => q = r
    BY <2>2, <2>3 DEF Filling
  <2> QED BY <1>2, <2>1, <2>6, <2>7, <2>9, <2>10, <2>11, <2>12 DEF OwnNow
<1>13. CASE Response
  BY <1>8, <1>13 DEF Response, Clearing, Goes, sendVars
<1>14. CASE CallRow
  <2>1. UNCHANGED <<rows, moved, sending, id, at>> /\ wpc = "call" /\ wat \in DOMAIN rows
    BY <1>14 DEF CallRow, Call, sendVars
  <2>2. CASE ~Clearing' /\ UNCHANGED strange
    BY <1>8, <2>1, <2>2
  <2>3. CASE Matches(wat) /\ rows[wat].callback # NoRequest /\ wpc' = "clear" /\ wat' = wat
    <3>1. \A r \in Requests : Filling(r) => at[r] # wat
      BY <1>2, <2>3 DEF RowFilled
    <3>2. \A r \in Requests : Filling(r)' => RowFilled(r)'
      BY <1>2, <2>1, <2>3, <3>1 DEF Filling, RowFilled
    <3>3. rows[wat].respon_id # None
      BY <2>1, <2>3 DEF Matches, CopiesInv, ReturnsTypeOK, None
    <3>4. Own(rows[wat].callback)
      BY <1>2, <2>1, <2>3, MatchIsOwn
    <3>5. strange' = FALSE
      BY <1>2, <1>14, <2>3, <3>4 DEF CallRow
    <3>6. \A k \in DOMAIN rows : RowOwned(k)'
      BY <1>2, <2>1 DEF RowOwned
    <3> QED BY <2>1, <2>3, <3>2, <3>3, <3>5, <3>6 DEF OwnNow, Clearing
  <2> QED BY <1>14, <2>1, <2>2, <2>3 DEF CallRow, Clearing
<1>15. CASE ClearCallback \/ ClearId \/ ClearHash
  <2>1. UNCHANGED <<id, at, sending, strange>> /\ moved' \subseteq moved
    BY <1>15 DEF ClearCallback, ClearId, ClearHash, Call, sendVars
  <2>2. /\ wat \in DOMAIN rows /\ DOMAIN rows' = DOMAIN rows
        /\ \A k \in DOMAIN rows : k # wat => rows'[k] = rows[k]
    BY <1>15, ClearWrites DEF RowBecomes
  <2>3. \A k \in DOMAIN rows : k # wat => RowOwned(k)'
    BY <1>2, <2>1, <2>2 DEF RowOwned
  <2>4. \A r \in Requests : Filling(r)' => Filling(r) /\ RowFilled(r) /\ at[r] \in DOMAIN rows
    BY <1>2, <1>5, <2>1 DEF Filling
  <2>5. CASE ClearCallback
    <3>1. wpc = "clear" /\ wpc' = "clear_id" /\ wat' = wat /\ moved' = moved
      BY <2>5 DEF ClearCallback, Goes
    <3>2. /\ rows'[wat].callback = IF NoRequest \in moved THEN rows[wat].callback ELSE NoRequest
          /\ rows'[wat].respon_id = rows[wat].respon_id
          /\ rows'[wat].server_hash = rows[wat].server_hash
      BY <2>5, ClearWrites, CallbackWritten
    <3>3. RowOwned(wat)'
      BY <1>2, <2>1, <2>2, <3>1, <3>2 DEF RowOwned
    <3>4. \A r \in Requests : Filling(r)' => RowFilled(r)'
      BY <2>1, <2>2, <2>4, <3>1 DEF RowFilled, Clearing
    <3> QED BY <1>2, <2>1, <2>2, <2>3, <3>1, <3>2, <3>3, <3>4 DEF OwnNow, Clearing
  <2>6. CASE ClearId
    <3>1. wpc = "clear_id" /\ wpc' = "clear_hash" /\ wat' = wat /\ moved' = moved
      BY <2>6 DEF ClearId, Goes
    <3>2. /\ rows'[wat].respon_id = IF NoRequest \in moved THEN rows[wat].respon_id ELSE None
          /\ rows'[wat].callback = rows[wat].callback
          /\ rows'[wat].server_hash = rows[wat].server_hash
      BY <2>6, ClearWrites, IdWritten
    <3>3. RowOwned(wat)'
      BY <1>2, <2>1, <2>2, <3>1, <3>2 DEF RowOwned
    <3>4. \A r \in Requests : Filling(r)' => RowFilled(r)'
      BY <2>1, <2>2, <2>4, <3>1 DEF RowFilled, Clearing
    <3> QED BY <1>2, <2>1, <2>2, <2>3, <3>1, <3>2, <3>3, <3>4 DEF OwnNow, Clearing
  <2>7. CASE ClearHash
    <3>1. wpc = "clear_hash" /\ wpc' = "call"
      BY <2>7 DEF ClearHash, Goes
    <3>2. /\ rows'[wat].server_hash \in {rows[wat].server_hash, NoServer}
          /\ rows'[wat].callback = rows[wat].callback
          /\ rows'[wat].respon_id = rows[wat].respon_id
      BY <2>7, ClearWrites, HashWritten
    <3>3. \A k \in DOMAIN rows : k = wat => RowOwned(k)'
      BY <1>2, <2>1, <2>2, <3>2 DEF RowOwned
    <3>4. \A r \in Requests : Filling(r)' => RowFilled(r)'
      BY <2>1, <2>2, <2>4, <3>1, <3>2 DEF RowFilled, Clearing
    <3> QED BY <1>2, <2>1, <2>2, <2>3, <3>1, <3>2, <3>3, <3>4 DEF OwnNow, Clearing
  <2> QED BY <1>15, <2>5, <2>6, <2>7
<1> QED BY <1>9, <1>10, <1>11, <1>12, <1>13, <1>14, <1>15, Steps

-----------------------------------------------------------------------------
\* Nobody meets anybody

\* What QuietInv says of a row, and of the row that r fills.
RowInOrder(k) ==
  \/ rows[k] = EmptyRow
  \/ \E r \in Requests : rows[k] = Full(r)
  \/ \E r \in Requests : at[r] = k /\ sending[r] \in {"id", "callback"}
  \/ wat = k /\ wpc \in {"clear_id", "clear_hash"}

RowWritten(r) ==
  /\ sending[r] = "hash" => rows[at[r]] = EmptyRow
  /\ sending[r] = "id" => rows[at[r]] = [EmptyRow EXCEPT !.server_hash = Server[r]]
  /\ sending[r] = "callback" => rows[at[r]] = [Full(r) EXCEPT !.callback = NoRequest]

HasRow(r) == calls[r] = 1 \/ \E k \in DOMAIN rows : rows[k] = Full(r)

QuietNow ==
  /\ wpc # "dead"
  /\ \A k \in DOMAIN rows : RowInOrder(k)
  /\ \A r \in Requests : RowWritten(r) /\ (sending[r] = "done" => HasRow(r))
  /\ wpc = "clear" => \E r \in Requests : rows[wat] = Full(r) /\ calls[r] = 1
  /\ wpc \in {"clear_id", "clear_hash"} => rows[wat].callback = NoRequest
  /\ wpc = "clear_hash" => rows[wat].respon_id = None

LEMMA QuietParts ==
  /\ QuietInv <=> (overlap = {} => QuietNow)
  /\ QuietInv' <=> (overlap' = {} => QuietNow')
BY DEF QuietInv, QuietNow, RowInOrder, RowWritten, HasRow

\* Full(r) has the members of r, and no row of another request or without one.
LEMMA FullIs ==
  ASSUME NEW q, NEW r
  PROVE  /\ Full(r).callback = r /\ Full(r).respon_id = id[r] /\ Full(r).server_hash = Server[r]
         /\ EmptyRow.callback = NoRequest /\ EmptyRow.respon_id = None
         /\ EmptyRow.server_hash = NoServer
         /\ Full(q) = Full(r) => q = r
         /\ Full(r) = EmptyRow => r = NoRequest
BY DEF Full, EmptyRow

\* Rows with the same members are the same.
LEMMA SameRow ==
  ASSUME NEW x \in Row, NEW y \in Row, x.server_hash = y.server_hash,
         x.respon_id = y.respon_id, x.callback = y.callback
  PROVE  x = y
BY DEF Row

LEMMA QuietStep ==
  ASSUME ReturnsTypeOK, CopiesInv, SentInv, OverlapInv, MovedInv, OnceInv, QuietInv,
         ReturnsTypeOK', OverlapInv', [RowsNext]_restVars
  PROVE  QuietInv'
<1> SUFFICES ASSUME overlap' = {} PROVE QuietNow'
  BY QuietParts
<1>1. overlap = {}
  BY OverlapGrows
<1>2. /\ wpc # "dead"
      /\ \A k \in DOMAIN rows : RowInOrder(k)
      /\ \A r \in Requests : RowWritten(r) /\ (sending[r] = "done" => HasRow(r))
      /\ wpc = "clear" => \E r \in Requests : rows[wat] = Full(r) /\ calls[r] = 1
      /\ wpc \in {"clear_id", "clear_hash"} => rows[wat].callback = NoRequest
      /\ wpc = "clear_hash" => rows[wat].respon_id = None
  BY <1>1, QuietParts DEF QuietNow
<1>3. /\ \A q, r \in Requests : Adding(q) /\ Adding(r) => q = r
      /\ \A r \in Requests : Adding(r) => ~InCall
      /\ moved = {}
  BY <1>1 DEF OverlapInv, MovedInv
<1>4. /\ \A k, l \in DOMAIN rows :
            rows[k].callback = rows[l].callback /\ rows[k].callback # NoRequest => k = l
      /\ \A r \in Requests :
            /\ calls[r] <= 1
            /\ sending[r] # "done" => calls[r] = 0
            /\ \A k \in DOMAIN rows :
                  rows[k].callback = r => /\ sending[r] = "done"
                                          /\ calls[r] = 1 => wpc = "clear" /\ wat = k
  BY <1>1 DEF OnceInv, NoStrayClear
<1>5. \A r \in Requests : Filling(r) => Adding(r) /\ at[r] \in DOMAIN rows
  BY DEF Filling, Adding, ReturnsTypeOK
\* A complete row stays complete when nobody is told another number.
<1>6. \A r \in Requests : id'[r] = id[r] => Full(r)' = Full(r)
  BY DEF Full
\* A step that leaves the rows as they are.
<1>7. ASSUME UNCHANGED <<rows, calls>>,
             \A q \in Requests : Filling(q) \/ Filling(q)' \/ sending[q] = "done" \/ sending'[q] = "done" =>
                sending'[q] = sending[q] /\ id'[q] = id[q] /\ (Filling(q) => at'[q] = at[q]),
             \/ wpc' = wpc /\ wat' = wat
             \/ /\ wpc \notin {"clear", "clear_id", "clear_hash"}
                /\ wpc' \notin {"clear", "clear_id", "clear_hash", "dead"}
      PROVE  QuietNow'
  <2>1. \A q \in Requests : \A k \in DOMAIN rows : rows[k] = Full(q) => id'[q] = id[q]
    BY <1>4, <1>7, FullIs
  <2>2. \A k \in DOMAIN rows : RowInOrder(k)'
    <3> SUFFICES ASSUME NEW k \in DOMAIN rows PROVE RowInOrder(k)'
      OBVIOUS
    <3>1. RowInOrder(k)
      BY <1>2
    <3>2. ASSUME NEW r \in Requests, rows[k] = Full(r) PROVE RowInOrder(k)'
      BY <1>6, <1>7, <2>1, <3>2 DEF RowInOrder
    <3>3. ASSUME NEW r \in Requests, at[r] = k, sending[r] \in {"id", "callback"} PROVE RowInOrder(k)'
      BY <1>7, <3>3 DEF RowInOrder, Filling
    <3>4. CASE rows[k] = EmptyRow \/ (wat = k /\ wpc \in {"clear_id", "clear_hash"})
      BY <1>7, <3>4 DEF RowInOrder, EmptyRow
    <3> QED BY <3>1, <3>2, <3>3, <3>4 DEF RowInOrder
  <2>3. \A r \in Requests : RowWritten(r)'
    BY <1>2, <1>6, <1>7 DEF RowWritten, Filling
  <2>4. \A r \in Requests : sending'[r] = "done" => HasRow(r)'
    BY <1>2, <1>6, <1>7 DEF HasRow
  <2>5. wpc' = "clear" => \E r \in Requests : rows'[wat'] = Full(r)' /\ calls'[r] = 1
    <3>1. CASE wpc' = "clear"
      <4>1. PICK r \in Requests : rows[wat] = Full(r) /\ calls[r] = 1
        BY <1>2, <1>7, <3>1
      <4>2. wat \in DOMAIN rows
        BY <1>7, <3>1 DEF ReturnsTypeOK
      <4> QED BY <1>6, <1>7, <2>1, <3>1, <4>1, <4>2
    <3> QED BY <3>1
  <2> QED BY <1>2, <1>7, <2>2, <2>3, <2>4, <2>5 DEF QuietNow
<1>8. CASE Elsewhere
  <2>1. \A q \in Requests : Filling(q) \/ Filling(q)' \/ sending[q] = "done" \/ sending'[q] = "done" =>
           sending'[q] = sending[q]
    BY <1>8 DEF Elsewhere, Filling, ReturnsTypeOK
  <2> QED BY <1>7, <1>8, <2>1 DEF Elsewhere
<1>9. ASSUME NEW r \in Requests, Post(r), sending[r] = "post", sending' = [sending EXCEPT ![r] = "scan"]
      PROVE  QuietNow'
  <2>1. UNCHANGED <<rows, at, calls, wpc, wat>> /\ \A q \in Requests : q # r => id'[q] = id[q]
    BY <1>9 DEF Post, workVars, ReturnsTypeOK
  <2>2. \A q \in Requests : Filling(q) \/ Filling(q)' \/ sending[q] = "done" \/ sending'[q] = "done" =>
           q # r /\ sending'[q] = sending[q]
    BY <1>9 DEF Filling, ReturnsTypeOK
  <2> QED BY <1>7, <2>1, <2>2
<1>10. ASSUME NEW r \in Requests, Scan(r) PROVE QuietNow'
  <2>1. UNCHANGED <<id, wpc, wat, calls>> /\ sending[r] = "scan" /\ Adding(r)
    BY <1>10 DEF Scan, Add, workVars, histVars, Adding
  <2>2. ~InCall /\ \A q \in Requests : ~Filling(q)
    BY <1>3, <1>5, <2>1 DEF Filling
  <2>3. CASE /\ at[r] \in DOMAIN rows /\ rows[at[r]].respon_id = None
             /\ sending' = [sending EXCEPT ![r] = "hash"] /\ UNCHANGED <<rows, at>>
    <3>1. sending'[r] = "hash" /\ \A q \in Requests : q # r => sending'[q] = sending[q]
      BY <2>3 DEF ReturnsTypeOK
    <3>2. \A q \in Requests : rows[at[r]] # Full(q)
      BY <1>4, <2>3, FullIs, ToldNumbers
    <3>3. rows[at[r]] = EmptyRow
      BY <1>2, <2>2, <2>3, <3>2 DEF RowInOrder, InCall, Filling
    <3>4. \A k \in DOMAIN rows : RowInOrder(k)'
      BY <1>2, <1>6, <2>1, <2>2, <2>3 DEF RowInOrder, InCall, Filling, EmptyRow
    <3>5. \A q \in Requests : RowWritten(q)'
      BY <2>2, <2>3, <3>1, <3>3 DEF RowWritten, Filling, EmptyRow
    <3>6. \A q \in Requests : sending'[q] = "done" => HasRow(q)'
      BY <1>2, <1>6, <2>1, <2>3, <3>1 DEF HasRow
    <3> QED BY <1>2, <2>1, <2>2, <2>3, <3>4, <3>5, <3>6 DEF QuietNow, InCall
  <2>4. CASE sending' = sending /\ at' = [at EXCEPT ![r] = @ + 1] /\ UNCHANGED rows
    <3>1. \A q \in Requests : ~Filling(q)'
      BY <2>2, <2>4 DEF Filling
    <3> QED BY <1>7, <2>1, <2>2, <2>4, <3>1
  <2>5. CASE /\ rows' = Append(rows, Full(r)) /\ sending' = [sending EXCEPT ![r] = "done"]
             /\ UNCHANGED at
    <3> DEFINE new == Len(rows) + 1
    <3>1. /\ DOMAIN rows' = DOMAIN rows \cup {new} /\ rows'[new] = Full(r)
          /\ \A k \in DOMAIN rows : rows'[k] = rows[k]
      BY <2>5, Appended, FullType DEF ReturnsTypeOK
    <3> HIDE DEF new
    <3>2. sending'[r] = "done" /\ \A q \in Requests : q # r => sending'[q] = sending[q]
      BY <2>5 DEF ReturnsTypeOK
    <3>3. \A k \in DOMAIN rows' : RowInOrder(k)'
      BY <1>2, <1>6, <2>1, <2>2, <3>1 DEF RowInOrder, InCall, Filling, EmptyRow
    <3>4. \A q \in Requests : RowWritten(q)'
      BY <2>2, <3>2 DEF RowWritten, Filling
    <3>5. \A q \in Requests : sending'[q] = "done" => HasRow(q)'
      BY <1>2, <1>6, <2>1, <3>1, <3>2 DEF HasRow
    <3> QED BY <1>2, <2>1, <2>2, <3>3, <3>4, <3>5 DEF QuietNow, InCall
  <2> QED BY <1>10, <2>3, <2>4, <2>5 DEF Scan
<1>11. ASSUME NEW r \in Requests, SetHash(r) \/ SetId(r) \/ SetCallback(r) PROVE QuietNow'
  <2>1. UNCHANGED <<id, at, wpc, wat, calls>> /\ Filling(r)
    BY <1>11 DEF SetHash, SetId, SetCallback, SendGoes, Add, workVars, histVars, Filling
  <2>2. /\ RowWritten(r) /\ at[r] \in DOMAIN rows /\ Adding(r) /\ ~InCall
        /\ \A q \in Requests : Filling(q) => q = r
    BY <1>2, <1>3, <1>5, <2>1
  <2>3. \A q \in Requests : q # r => sending'[q] = sending[q]
    BY <1>11 DEF SetHash, SetId, SetCallback, SendGoes, ReturnsTypeOK
  <2>4. DOMAIN rows' = DOMAIN rows /\ \A k \in DOMAIN rows : k # at[r] => rows'[k] = rows[k]
    BY <1>11, AddWrites DEF RowBecomes
  <2>5. /\ sending'[r] \in {"id", "callback", "done"}
        /\ sending'[r] = "done" => rows'[at[r]] = Full(r)
        /\ RowWritten(r)'
    <3>1. CASE SetHash(r)
      <4>1. sending[r] = "hash" /\ sending'[r] = "id"
        BY <3>1 DEF SetHash, SendGoes, ReturnsTypeOK
      <4>2. rows'[at[r]] = [EmptyRow EXCEPT !.server_hash = Server[r]]
        BY <1>3, <2>2, <3>1, <4>1, AddWrites DEF RowBecomes, WithHash, RowWritten
      <4> QED BY <2>1, <4>1, <4>2 DEF RowWritten, EmptyRow
    <3>2. CASE SetId(r)
      <4>1. sending[r] = "id" /\ sending'[r] = "callback"
        BY <3>2 DEF SetId, SendGoes, ReturnsTypeOK
      <4>2. rows'[at[r]] = [[EmptyRow EXCEPT !.server_hash = Server[r]] EXCEPT !.respon_id = id[r]]
        BY <1>3, <2>2, <3>2, <4>1, AddWrites DEF RowBecomes, WithId, RowWritten
      <4>3. [[EmptyRow EXCEPT !.server_hash = Server[r]] EXCEPT !.respon_id = id[r]]
              = [Full(r) EXCEPT !.callback = NoRequest]
        <5> DEFINE E == [server_hash |-> Server[r], respon_id |-> None, callback |-> NoRequest]
                   F == [server_hash |-> Server[r], respon_id |-> id[r], callback |-> NoRequest]
        <5>1. [EmptyRow EXCEPT !.server_hash = Server[r]] = E
          BY DEF EmptyRow
        <5>2. [E EXCEPT !.respon_id = id[r]] = F
          OBVIOUS
        <5>3. [Full(r) EXCEPT !.callback = NoRequest] = F
          BY DEF Full
        <5> HIDE DEF E, F
        <5> QED BY <5>1, <5>2, <5>3
      <4>4. id'[r] = id[r] /\ at'[r] = at[r] /\ Full(r)' = Full(r)
        BY <1>6, <2>1
      <4> QED BY <4>1, <4>2, <4>3, <4>4 DEF RowWritten
    <3>3. CASE SetCallback(r)
      <4>1. sending[r] = "callback" /\ sending'[r] = "done"
        BY <3>3 DEF SetCallback, SendGoes, ReturnsTypeOK
      <4>2. rows'[at[r]] = [[Full(r) EXCEPT !.callback = NoRequest] EXCEPT !.callback = r]
        BY <1>3, <2>2, <3>3, <4>1, AddWrites DEF RowBecomes, WithCallback, RowWritten
      <4> QED BY <4>1, <4>2 DEF RowWritten, Full
    <3> QED BY <1>11, <3>1, <3>2, <3>3
  <2>6. \A k \in DOMAIN rows : k # at[r] => RowInOrder(k)'
    BY <1>2, <1>6, <2>1, <2>2, <2>4 DEF RowInOrder, InCall, Filling, EmptyRow
  <2>7. RowInOrder(at[r])'
    BY <1>6, <2>1, <2>5 DEF RowInOrder
  <2>8. \A q \in Requests : RowWritten(q)'
    BY <2>2, <2>3, <2>5 DEF RowWritten, Filling
  <2>9. \A q \in Requests : sending'[q] = "done" => HasRow(q)'
    <3>1. rows[at[r]].callback = NoRequest
      <4>1. sending[r] = "hash" => rows[at[r]].callback = NoRequest
        BY <2>2 DEF RowWritten, EmptyRow
      <4>2. sending[r] = "id" => rows[at[r]].callback = NoRequest
        BY <2>2 DEF RowWritten, EmptyRow
      <4>3. sending[r] = "callback" => rows[at[r]].callback = NoRequest
        BY <2>2 DEF RowWritten, Full
      <4> QED BY <2>1, <4>1, <4>2, <4>3 DEF Filling
    <3>2. \A q \in Requests : rows[at[r]] # Full(q)
      BY <3>1, FullIs, ReturnsAssumption
    <3> QED BY <1>2, <1>6, <2>1, <2>2, <2>3, <2>4, <2>5, <3>2 DEF HasRow
  <2>10. RowInOrder(at[r])' => \A k \in {at[r]} : RowInOrder(k)'
    BY <2>1 DEF RowInOrder
  <2> QED BY <1>2, <2>1, <2>2, <2>4, <2>6, <2>7, <2>8, <2>9, <2>10 DEF QuietNow, InCall
<1>12. CASE Response
  <2>1. UNCHANGED <<rows, calls, sending, id, at>> /\ wpc = "out" /\ wpc' = "call"
    BY <1>12 DEF Response, Goes, sendVars
  <2> QED BY <1>7, <2>1
<1>13. CASE CallRow
  <2>1. UNCHANGED <<rows, sending, id, at>> /\ wpc = "call" /\ wat \in DOMAIN rows /\ InCall
    BY <1>13 DEF CallRow, Call, sendVars, InCall
  <2>2. CASE wpc' = wpc /\ UNCHANGED calls
    BY <1>7, <2>1, <2>2
  <2>3. ASSUME Matches(wat)
        PROVE  \E q \in Requests : rows[wat] = Full(q)
    <3>1. event \in copies /\ event.id # None
      BY <2>1 DEF CopiesInv, ReturnsTypeOK, None
    <3>2. rows[wat] # EmptyRow
      BY <2>3, <3>1, FullIs DEF Matches
    <3> QED BY <1>2, <1>3, <1>5, <2>1, <3>2 DEF RowInOrder, Filling
  <2>4. CASE /\ Matches(wat) /\ wpc' = "clear" /\ wat' = wat
             /\ calls' = [calls EXCEPT ![rows[wat].callback] = IF @ = 2 THEN 2 ELSE @ + 1]
    <3>1. PICK q \in Requests : rows[wat] = Full(q)
      BY <2>3, <2>4
    <3>2. rows[wat].callback = q
      BY <3>1, FullIs
    <3>3. calls[q] = 0
      BY <1>4, <2>1, <3>2 DEF ReturnsTypeOK
    <3>4. calls'[q] = 1 /\ \A r \in Requests : r # q => calls'[r] = calls[r]
      BY <2>4, <3>2, <3>3 DEF ReturnsTypeOK
    <3>5. \A k \in DOMAIN rows : RowInOrder(k)'
      BY <1>2, <1>6, <2>1 DEF RowInOrder, EmptyRow
    <3>6. \A r \in Requests : RowWritten(r)'
      BY <1>2, <1>6, <2>1 DEF RowWritten, EmptyRow
    <3>7. \A r \in Requests : sending'[r] = "done" => HasRow(r)'
      BY <1>2, <1>6, <2>1, <3>4 DEF HasRow
    <3> QED BY <1>6, <2>1, <2>4, <3>1, <3>4, <3>5, <3>6, <3>7 DEF QuietNow
  <2>5. ASSUME Matches(wat) PROVE rows[wat].callback # NoRequest
    BY <2>3, <2>5, FullIs, ReturnsAssumption
  <2> QED BY <1>13, <2>1, <2>2, <2>4, <2>5 DEF CallRow
<1>14. CASE ClearCallback \/ ClearId \/ ClearHash
  <2>1. UNCHANGED <<id, at, sending, calls>> /\ InCall
    BY <1>14 DEF ClearCallback, ClearId, ClearHash, Call, sendVars, Goes, InCall
  <2>2. /\ wat \in DOMAIN rows /\ DOMAIN rows' = DOMAIN rows
        /\ \A k \in DOMAIN rows : k # wat => rows'[k] = rows[k]
        /\ rows'[wat] \in Row
    BY <1>14, ClearWrites DEF RowBecomes
  <2>3. \A r \in Requests : ~Filling(r)
    BY <1>3, <1>5, <2>1
  <2>4. \A k \in DOMAIN rows : k # wat => RowInOrder(k)'
    BY <1>2, <1>6, <2>1, <2>2 DEF RowInOrder, EmptyRow
  <2>5. \A r \in Requests : RowWritten(r)'
    BY <2>1, <2>3 DEF RowWritten, Filling
  <2>6. ASSUME NEW r \in Requests, rows[wat] = Full(r), calls[r] # 1
        PROVE  FALSE
    <3>1. wpc = "clear" => FALSE
      BY <1>2, <2>6, FullIs
    <3>2. wpc \in {"clear_id", "clear_hash"} => FALSE
      BY <1>2, <2>6, FullIs, ReturnsAssumption
    <3> QED BY <1>14, <3>1, <3>2 DEF ClearCallback, ClearId, ClearHash, Goes
  <2>7. \A r \in Requests : sending'[r] = "done" => HasRow(r)'
    BY <1>2, <1>6, <2>1, <2>2, <2>6 DEF HasRow
  <2>8. CASE ClearCallback
    <3>1. wpc = "clear" /\ wpc' = "clear_id" /\ wat' = wat
      BY <2>8 DEF ClearCallback, Goes
    <3>2. rows'[wat].callback = NoRequest
      BY <1>3, <2>8, ClearWrites, CallbackWritten
    <3>3. \A k \in DOMAIN rows : k = wat => RowInOrder(k)'
      BY <3>1 DEF RowInOrder
    <3> QED BY <2>2, <2>4, <2>5, <2>7, <3>1, <3>2, <3>3 DEF QuietNow
  <2>9. CASE ClearId
    <3>1. wpc = "clear_id" /\ wpc' = "clear_hash" /\ wat' = wat
      BY <2>9 DEF ClearId, Goes
    <3>2. rows'[wat].callback = rows[wat].callback /\ rows'[wat].respon_id = None
      BY <1>3, <2>9, ClearWrites, IdWritten
    <3>3. \A k \in DOMAIN rows : k = wat => RowInOrder(k)'
      BY <3>1 DEF RowInOrder
    <3> QED BY <1>2, <2>2, <2>4, <2>5, <2>7, <3>1, <3>2, <3>3 DEF QuietNow
  <2>10. CASE ClearHash
    <3>1. wpc = "clear_hash" /\ wpc' = "call"
      BY <2>10 DEF ClearHash, Goes
    <3>2. /\ rows'[wat].callback = rows[wat].callback /\ rows'[wat].respon_id = rows[wat].respon_id
          /\ rows'[wat].server_hash = NoServer
      BY <1>3, <2>10, ClearWrites, HashWritten
    <3>3. rows'[wat] = EmptyRow
      <4>1. EmptyRow \in Row
        BY DEF EmptyRow, Row, None
      <4> QED BY <1>2, <2>2, <3>1, <3>2, <4>1, FullIs, SameRow
    <3>4. \A k \in DOMAIN rows : k = wat => RowInOrder(k)'
      BY <3>3 DEF RowInOrder, EmptyRow
    <3> QED BY <2>2, <2>4, <2>5, <2>7, <3>1, <3>4 DEF QuietNow
  <2> QED BY <1>14, <2>8, <2>9, <2>10
<1> QED BY <1>8, <1>9, <1>10, <1>11, <1>12, <1>13, <1>14, Steps

-----------------------------------------------------------------------------
(* Theorems *)

LEMMA ReturnsStart ==
  ReturnsInit => ReturnsInv
<1> SUFFICES ASSUME ReturnsInit PROVE ReturnsInv
  OBVIOUS
<1> USE ReturnsAssumption DEF ReturnsInit
<1>1. /\ Len(rows) = InitialRows /\ DOMAIN rows = 1..InitialRows
      /\ \A k \in DOMAIN rows : rows[k] = EmptyRow
  OBVIOUS
<1>2. rows \in Seq(Row)
  BY DEF EmptyRow, Row, None
<1>3. \A r \in Requests : sending[r] = "out" /\ calls[r] = 0
  OBVIOUS
<1>4. ReturnsTypeOK
  <2>2. /\ at \in [Requests -> 1..(Len(rows) + 1)]
        /\ id \in [Requests -> Nat \cup {None}]
        /\ calls \in [Requests -> 0..2]
    BY <1>1
  <2>3. /\ sending \in [Requests -> {"out", "post", "scan", "hash", "id", "callback", "done"}]
        /\ wat \in 1..(Len(rows) + 1)
        /\ lost \in Nat
    BY <1>1
  <2> QED BY <1>2, <1>3, <2>2, <2>3 DEF ReturnsTypeOK
<1>5. CopiesInv
  BY FS_EmptySet DEF CopiesInv
<1>6. SentInv /\ OverlapInv /\ MovedInv
  BY <1>1, <1>3 DEF SentInv, OverlapInv, MovedInv, Adding, InCall
<1>7. \A k \in DOMAIN rows : rows[k].callback = NoRequest
  BY <1>1 DEF EmptyRow
<1> HIDE DEF ReturnsInit
<1>8. OnceInv
  BY <1>3, <1>7 DEF OnceInv
<1>9. OwnInv
  BY <1>3, <1>7 DEF OwnInv, Clearing, ReturnsInit
<1>10. QuietInv
  BY <1>1, <1>3 DEF QuietInv, ReturnsInit
<1>11. IdsInv
  BY DEF IdsInv, ReturnsInit
<1> QED BY <1>4, <1>5, <1>6, <1>8, <1>9, <1>10, <1>11 DEF ReturnsInv

\* What is done to the ids changes nothing else, but for the lost calls.
LEMMA IdsMoves == IdsNext => lost' = lost \/ lost' = lost + 1
BY DEF IdsNext, PollIds, Poll, PollId, WorkIds, WorkTold, WorkId, Hang, Forget, SendTold,
       SendId, Told, get_myid, LoseCall

LEMMA RowsMoves ==
  ASSUME ReturnsTypeOK, RowsNext
  PROVE  /\ lost' = lost \/ lost' = lost + 1
         /\ \A r \in asking \cap Requests : sending[r] = "post" => sending'[r] = "post"
         /\ NoRequest \in asking /\ wpc \in {"respond", "end"} => UNCHANGED <<wpc, event>>
<1>1. CASE Response \/ Request
  BY <1>1 DEF Response, Request, Goes, Handling, peerVars, sendVars
<1>2. CASE Worker
  <2>1. CASE Respond \/ Check \/ End
    BY <2>1 DEF Respond, Check, End, LoseCall, Handling, peerVars, sendVars
  <2>2. CASE CallRow \/ CallDone \/ ClearCallback \/ ClearId \/ ClearHash
    BY <2>2 DEF CallRow, CallDone, ClearCallback, ClearId, ClearHash, Goes, Call, peerVars, sendVars
  <2> QED BY <1>2, <2>1, <2>2 DEF Worker
<1>3. ASSUME NEW r \in Requests, CallSend(r) \/ Send(r)
      PROVE  /\ lost' = lost \/ lost' = lost + 1
             /\ \A q \in asking \cap Requests : sending[q] = "post" => sending'[q] = "post"
             /\ UNCHANGED <<wpc, event>>
  <2>1. CASE Post(r)
    BY <2>1 DEF Post, SendGoes, LoseCall, workVars, ReturnsTypeOK
  <2>2. CASE CallSend(r)
    BY <2>2 DEF CallSend, SendGoes, peerVars, workVars, ReturnsTypeOK
  <2>3. CASE Scan(r) \/ SetHash(r) \/ SetId(r) \/ SetCallback(r)
    BY <2>3 DEF Scan, SetHash, SetId, SetCallback, SendGoes, Add, peerVars, workVars, ReturnsTypeOK
  <2> QED BY <1>3, <2>1, <2>2, <2>3 DEF Send
<1> QED BY <1>1, <1>2, <1>3 DEF RowsNext

LEMMA IdsStep ==
  ASSUME ReturnsTypeOK, IdsInv, [ReturnsNext]_returnsVars
  PROVE  IdsInv'
<1> USE ReturnsAssumption DEF IdsInv
<1>1. CASE UNCHANGED returnsVars
  BY <1>1 DEF returnsVars, restVars, idVars, sendVars, workVars
<1>2. CASE RowsNext /\ UNCHANGED idVars
  <2>1. lost > 0 => lost' > 0
    BY <1>2, RowsMoves DEF ReturnsTypeOK
  <2> QED BY <1>2, <2>1, RowsMoves DEF idVars
<1>3. CASE IdsNext /\ UNCHANGED restVars
  <2>1. UNCHANGED <<sending, wpc, event>>
    BY <1>3 DEF restVars, sendVars, workVars
  <2>2. lost > 0 => lost' > 0
    BY <1>3, IdsMoves DEF ReturnsTypeOK
  <2>3. ASSUME NEW p \in Servers, Poll(p) \/ Forget(p) PROVE IdsInv'
    BY <2>1, <2>3 DEF Poll, Forget
  <2>4. ASSUME NEW p, NEW loop, get_myid(p, loop), p \in Tells
        PROVE  /\ ids' \in [Servers -> {"good", "stale", "empty"}]
               /\ \A q \in Servers : ids'[q] = "empty" => q \in Tells /\ lost' > 0
               /\ UNCHANGED <<forgets, hung>>
    BY <2>2, <2>4 DEF get_myid, LoseCall, ReturnsTypeOK
  <2>5. ASSUME PollId PROVE IdsInv'
    BY <2>1, <2>4, <2>5 DEF PollId
  <2>6. ASSUME WorkId PROVE IdsInv'
    BY <2>1, <2>4, <2>6 DEF WorkId
  <2>7. ASSUME NEW r \in Requests, SendId(r) PROVE IdsInv'
    BY <2>1, <2>4, <2>7 DEF SendId
  <2>8. ASSUME WorkTold PROVE IdsInv'
    BY <2>1, <2>8 DEF WorkTold, Told, Rejects
  <2>9. ASSUME NEW r \in Requests, SendTold(r) PROVE IdsInv'
    BY <2>1, <2>9 DEF SendTold, Told, Rejects
  <2>10. ASSUME Hang PROVE IdsInv'
    BY <2>1, <2>10 DEF Hang
  <2> QED BY <1>3, <2>3, <2>5, <2>6, <2>7, <2>8, <2>9, <2>10 DEF IdsNext, PollIds, WorkIds
<1> QED BY <1>1, <1>2, <1>3 DEF ReturnsNext

LEMMA ReturnsStep ==
  ReturnsInv /\ [ReturnsNext]_returnsVars => ReturnsInv'
<1> SUFFICES ASSUME ReturnsInv, [ReturnsNext]_returnsVars PROVE ReturnsInv'
  OBVIOUS
<1>0. [RowsNext]_restVars /\ ReturnsTypeOK /\ IdsInv
  BY DEF ReturnsNext, returnsVars, ReturnsInv
<1>1. ReturnsTypeOK'
  <2>1. CASE UNCHANGED restVars
    <3>1. lost' \in Nat
      <4>1. lost' = lost \/ lost' = lost + 1
        BY <1>0, RowsMoves, IdsMoves DEF ReturnsNext, returnsVars
      <4> QED BY <1>0, <4>1 DEF ReturnsTypeOK
    <3> QED BY <1>0, <2>1, <3>1 DEF ReturnsTypeOK, restVars, sendVars, workVars, histVars
  <2> QED BY <1>0, <2>1, SendTypes, WorkTypes DEF ReturnsInv, RowsNext
<1>2. CopiesInv' /\ SentInv'
  BY <1>0, CopiesStep, SentStep DEF ReturnsInv
<1>3. OverlapInv' /\ MovedInv'
  BY <1>0, OverlapStep, MovedStep DEF ReturnsInv
<1>4. OnceInv' /\ OwnInv' /\ QuietInv'
  BY <1>0, <1>1, <1>3, OnceStep, OwnStep, QuietStep DEF ReturnsInv
<1>5. IdsInv'
  BY <1>0, IdsStep
<1> QED BY <1>1, <1>2, <1>3, <1>4, <1>5 DEF ReturnsInv

\* What the rows of manager_returns, those who work on them and the copies at the
\* peers have to do with each other, for any number of requests, peers and rows.
THEOREM RowsInvariant == ReturnsSpec => []ReturnsInv
BY ReturnsStart, ReturnsStep, PTL DEF ReturnsSpec

\* The answers that a callback is given are its own, unless two calls of add()
\* overlap.
THEOREM AnswersAreOwn == ReturnsSpec => []OwnAnswer
<1>1. ReturnsInv => OwnAnswer
  BY DEF ReturnsInv, OwnInv, OwnAnswer
<1> QED BY <1>1, RowsInvariant, PTL

\* No callback runs twice, as long as the rows stay where they are or nobody meets.
THEOREM CallbacksRunOnce == ReturnsSpec => []CalledOnce
<1>1. ReturnsInv => CalledOnce
  BY DEF ReturnsInv, OnceInv, NoStrayClear, CalledOnce
<1> QED BY <1>1, RowsInvariant, PTL

\* As long as nobody meets, each request that send() has returned from has one
\* row until its callback has run, and the process does not end in call().
THEOREM CallbacksAreKept == ReturnsSpec => []SerialKeepsCallbacks
<1>1. ASSUME ReturnsInv PROVE SerialKeepsCallbacks
  <2> SUFFICES ASSUME overlap = {}, NEW r \in Requests, sending[r] = "done"
               PROVE  \/ Cardinality(RowsOf(r)) = 1 /\ calls[r] = 0
                      \/ RowsOf(r) = {} /\ calls[r] = 1
                      \/ wpc = "clear" /\ RowsOf(r) = {wat} /\ calls[r] = 1
    BY <1>1 DEF SerialKeepsCallbacks, ReturnsInv, QuietInv
  <2>1. HasRow(r) /\ calls[r] \in {0, 1}
    <3>1. calls[r] \in 0..2 /\ calls[r] <= 1
      BY <1>1 DEF ReturnsInv, OnceInv, NoStrayClear, ReturnsTypeOK
    <3>2. HasRow(r)
      BY <1>1 DEF ReturnsInv, QuietInv, HasRow
    <3> QED BY <3>1, <3>2
  <2>2. \A k, l \in RowsOf(r) : k = l
    BY <1>1, FullIs, ReturnsAssumption DEF ReturnsInv, OnceInv, NoStrayClear, RowsOf
  <2>3. calls[r] = 1 => \A k \in RowsOf(r) : wpc = "clear" /\ wat = k
    BY <1>1, FullIs DEF ReturnsInv, OnceInv, NoStrayClear, RowsOf
  <2>4. CASE calls[r] = 0
    <3>1. PICK k \in DOMAIN rows : rows[k] = Full(r)
      BY <2>1, <2>4 DEF HasRow
    <3>2. RowsOf(r) = {k}
      BY <2>2, <3>1 DEF RowsOf
    <3> QED BY <2>4, <3>2, FS_Singleton
  <2>5. CASE calls[r] = 1
    BY <2>2, <2>3, <2>5
  <2> QED BY <2>1, <2>4, <2>5
<1> QED BY <1>1, RowsInvariant, PTL
=============================================================================
