------------------------ MODULE RecursiveMutexProofs ------------------------
(***************************************************************************)
(* Proofs about server::mutex_n for any set of threads and any bound on    *)
(* nesting: IInv is inductive, hence mutual exclusion, and mutex_n         *)
(* implements RecursiveLock.                                               *)
(***************************************************************************)
EXTENDS RecursiveMutex, TLAPS

LEMMA InitInv == Init => IInv
BY MutexAssumption
   DEF Init, IInv, TypeOK, IndexStillMine, RowsMatch, OwnersMatch, DepthAtLocation,
       UsesIndex, OwnsMy, OwnsMt, Leaving, HasRow, Row, Locations

\* Taking my changes nothing but its owner and the thread's location.
LEMMA TakeMyStep ==
  ASSUME IInv, NEW t \in Threads,
         \/ LockTakeMy(t) \/ LockTakeMy2(t) \/ UnlockTakeMy(t) \/ UnlockTakeMy2(t)
  PROVE  IInv'
<1> USE MutexAssumption
<1>1. TypeOK'
  BY DEF IInv, TypeOK, LockTakeMy, LockTakeMy2, UnlockTakeMy, UnlockTakeMy2,
         TakeMy, Goto, Locations
<1>2. IndexStillMine'
  BY DEF IInv, TypeOK, IndexStillMine, UsesIndex, LockTakeMy, LockTakeMy2,
         UnlockTakeMy, UnlockTakeMy2, TakeMy, Goto
<1>3. RowsMatch'
  BY DEF IInv, RowsMatch, HasRow, LockTakeMy, LockTakeMy2,
         UnlockTakeMy, UnlockTakeMy2, TakeMy, Goto
<1>4. OwnersMatch'
  BY DEF IInv, TypeOK, OwnersMatch, OwnsMy, OwnsMt, DepthAtLocation, Leaving,
         LockTakeMy, LockTakeMy2, UnlockTakeMy, UnlockTakeMy2, TakeMy, Goto
<1>5. DepthAtLocation'
  BY DEF IInv, TypeOK, DepthAtLocation, Leaving, LockTakeMy, LockTakeMy2,
         UnlockTakeMy, UnlockTakeMy2, TakeMy, Goto
<1> QED BY <1>1, <1>2, <1>3, <1>4, <1>5 DEF IInv

\* check_thread() finds or appends the caller's row: rows stay unique, their
\* counts stay right, and no row moves.
LEMMA CheckThreadRow ==
  ASSUME IInv, NEW t \in Threads, NEW idx \in 1..(Len(ids) + 1), CheckThread(t, idx)
  PROVE  /\ ids' \in Seq(Row)
         /\ DOMAIN ids \subseteq DOMAIN ids'
         /\ \A i \in DOMAIN ids : ids'[i] = ids[i]
         /\ idx \in DOMAIN ids'
         /\ ids'[idx].threadid = t
         /\ ids'[idx].number = depth[t]
         /\ \A i, j \in DOMAIN ids' : ids'[i].threadid = ids'[j].threadid => i = j
         /\ \A i \in DOMAIN ids' : ids'[i].number = depth[ids'[i].threadid]
         /\ \A u \in Threads : depth[u] > 0 => \E i \in DOMAIN ids' : ids'[i].threadid = u
<1>1. CASE HasRow(t)
  BY <1>1 DEF IInv, TypeOK, RowsMatch, CheckThread, IsFirstRow, HasRow
<1>2. CASE ~HasRow(t)
  <2> DEFINE row == [threadid |-> t, number |-> 0]
  <2>1. ids' = Append(ids, row) /\ idx = Len(ids) + 1 /\ row \in Row
    BY <1>2 DEF CheckThread, Row
  <2>2. ids \in Seq(Row)
    BY DEF IInv, TypeOK
  <2>3. /\ ids' \in Seq(Row)
        /\ DOMAIN ids' = 1..(Len(ids) + 1)
        /\ \A i \in DOMAIN ids : ids'[i] = ids[i]
        /\ ids'[idx] = row
    BY <2>1, <2>2
  <2>4. DOMAIN ids = 1..Len(ids) /\ Len(ids) \in Nat
    BY <2>2
  <2>5. depth[t] = 0
    BY <1>2 DEF IInv, TypeOK, RowsMatch
  <2>6. \A i \in DOMAIN ids : ids[i].threadid # t
    BY <1>2 DEF HasRow
  <2>7. \A i, j \in DOMAIN ids' : ids'[i].threadid = ids'[j].threadid => i = j
    BY <2>1, <2>3, <2>4, <2>6 DEF IInv, RowsMatch
  <2>8. \A i \in DOMAIN ids' : ids'[i].number = depth[ids'[i].threadid]
    BY <2>1, <2>3, <2>4, <2>5 DEF IInv, RowsMatch
  <2>9. \A u \in Threads : depth[u] > 0 => \E i \in DOMAIN ids' : ids'[i].threadid = u
    BY <2>3, <2>4 DEF IInv, RowsMatch, HasRow
  <2> QED BY <2>1, <2>3, <2>4, <2>5, <2>7, <2>8, <2>9
<1> QED BY <1>1, <1>2

\* Looking up the row, in lock() and in unlock().
LEMMA CheckStep ==
  ASSUME IInv, NEW t \in Threads, LockCheck(t) \/ UnlockCheck(t)
  PROVE  IInv'
<1> USE MutexAssumption
<1>1. PICK idx \in 1..(Len(ids) + 1) :
         /\ CheckThread(t, idx)
         /\ index' = [index EXCEPT ![t] = idx]
  BY DEF LockCheck, UnlockCheck
<1>2. /\ idx \in Nat /\ depth' = depth /\ mt' = mt
      /\ pc[t] \in {"lock_check", "unlock_check"}
  BY DEF LockCheck, UnlockCheck, IInv, TypeOK
<1>3. /\ ids' \in Seq(Row)
      /\ DOMAIN ids \subseteq DOMAIN ids'
      /\ \A i \in DOMAIN ids : ids'[i] = ids[i]
      /\ idx \in DOMAIN ids'
      /\ ids'[idx].threadid = t
      /\ ids'[idx].number = depth[t]
  BY <1>1, CheckThreadRow
<1>4. /\ pc' \in [Threads -> Locations]
      /\ \A u \in Threads \ {t} : pc'[u] = pc[u]
      /\ my = t
      /\ \/ pc'[t] \in {"lock_mt", "unlock_mt"} /\ my' = NoThread
         \/ pc'[t] \in {"lock_count", "unlock_count"} /\ my' = t
  BY <1>1 DEF LockCheck, UnlockCheck, IInv, TypeOK, OwnersMatch, OwnsMy, Locations
<1>5. /\ pc'[t] = "lock_mt" => pc[t] = "lock_check" /\ depth[t] = 0
      /\ pc'[t] = "lock_count" => pc[t] = "lock_check" /\ depth[t] > 0
      /\ pc'[t] = "unlock_mt" => pc[t] = "unlock_check" /\ depth[t] = 1
      /\ pc'[t] = "unlock_count" => pc[t] = "unlock_check" /\ depth[t] > 1
  <2>1. PICK k \in 1..(Len(ids) + 1) :
          /\ CheckThread(t, k)
          /\ \/ /\ pc[t] = "lock_check"
                /\ IF ids'[k].number = 0
                   THEN pc' = [pc EXCEPT ![t] = "lock_mt"]
                   ELSE pc' = [pc EXCEPT ![t] = "lock_count"]
             \/ /\ pc[t] = "unlock_check"
                /\ IF ids'[k].number = 1
                   THEN pc' = [pc EXCEPT ![t] = "unlock_mt"]
                   ELSE pc' = [pc EXCEPT ![t] = "unlock_count"]
    BY DEF LockCheck, UnlockCheck
  <2>2. ids'[k].number = depth[t]
    BY <2>1, CheckThreadRow
  <2>3. depth[t] \in Nat /\ (pc[t] = "unlock_check" => depth[t] > 0)
    BY DEF IInv, TypeOK, DepthAtLocation, Leaving
  <2> QED BY <2>1, <2>2, <2>3 DEF IInv, TypeOK
<1>6. TypeOK'
  BY <1>1, <1>2, <1>3, <1>4 DEF IInv, TypeOK
<1>7. IndexStillMine'
  BY <1>1, <1>2, <1>3, <1>4 DEF IInv, TypeOK, IndexStillMine, UsesIndex
<1>8. RowsMatch'
  BY <1>1, <1>2, CheckThreadRow DEF RowsMatch, HasRow
<1>9. OwnersMatch'
  <2>1. \A u \in Threads : my' = u <=> OwnsMy(u)'
    BY <1>2, <1>4 DEF IInv, OwnersMatch, OwnsMy
  <2>2. \A u \in Threads \ {t} : OwnsMt(u)' <=> OwnsMt(u)
    BY <1>2, <1>4 DEF OwnsMt
  <2>3. OwnsMt(t)' <=> OwnsMt(t)
    BY <1>2, <1>4, <1>5 DEF IInv, TypeOK, OwnsMt, DepthAtLocation, Leaving
  <2> QED BY <1>2, <2>1, <2>2, <2>3 DEF IInv, OwnersMatch
<1>10. DepthAtLocation'
  BY <1>2, <1>4, <1>5 DEF IInv, TypeOK, DepthAtLocation, Leaving
<1> QED BY <1>6, <1>7, <1>8, <1>9, <1>10 DEF IInv

\* Steps that only move the thread or change the owner of mt.
LEMMA CallAndMtStep ==
  ASSUME IInv, NEW t \in Threads,
         CallLock(t) \/ CallUnlock(t) \/ LockTakeMt(t) \/ UnlockGiveMt(t)
  PROVE  IInv'
<1> USE MutexAssumption DEF CallLock, CallUnlock, LockTakeMt, UnlockGiveMt, Goto
<1>1. TypeOK'
  BY DEF IInv, TypeOK, Locations
<1>2. IndexStillMine'
  BY DEF IInv, TypeOK, IndexStillMine, UsesIndex
<1>3. RowsMatch'
  BY DEF IInv, RowsMatch, HasRow
<1>4. OwnersMatch'
  BY DEF IInv, TypeOK, OwnersMatch, OwnsMy, OwnsMt, DepthAtLocation, Leaving
<1>5. DepthAtLocation'
  BY DEF IInv, TypeOK, DepthAtLocation, Leaving
<1> QED BY <1>1, <1>2, <1>3, <1>4, <1>5 DEF IInv

\* The last step of a call updates the thread's own count and depth alike.
LEMMA CountStep ==
  ASSUME IInv, NEW t \in Threads, LockCount(t) \/ UnlockCount(t)
  PROVE  IInv'
<1> USE MutexAssumption
<1> DEFINE i == index[t]
<1>1. /\ i \in DOMAIN ids /\ ids[i].threadid = t /\ ids[i].number = depth[t]
      /\ ids[i] \in Row /\ depth[t] \in Nat
  BY DEF IInv, TypeOK, IndexStillMine, UsesIndex, RowsMatch, LockCount, UnlockCount, Goto
<1>2. PICK d \in Nat :
         /\ depth' = [depth EXCEPT ![t] = d]
         /\ ids' = [ids EXCEPT ![i].number = d]
         /\ \/ pc[t] = "lock_count" /\ d = depth[t] + 1
            \/ pc[t] = "unlock_count" /\ d = depth[t] - 1 /\ depth[t] > 0
  <2>1. CASE LockCount(t)
    <3>1. pc[t] = "lock_count" /\ depth' = [depth EXCEPT ![t] = depth[t] + 1]
      BY <2>1 DEF LockCount, Goto
    <3>2. ids' = [ids EXCEPT ![i].number = depth[t] + 1]
      BY <2>1, <1>1 DEF LockCount
    <3>3. depth[t] + 1 \in Nat
      BY <1>1
    <3> QED BY <3>1, <3>2, <3>3
  <2>2. CASE UnlockCount(t)
    <3>1. pc[t] = "unlock_count" /\ depth' = [depth EXCEPT ![t] = depth[t] - 1]
      BY <2>2 DEF UnlockCount, Goto
    <3>2. depth[t] > 0
      BY <3>1 DEF IInv, TypeOK, DepthAtLocation, Leaving
    <3>3. ids' = [ids EXCEPT ![i].number = depth[t] - 1]
      <4>1. ids' = [ids EXCEPT ![i].number = IF ids[i].number # 0 THEN ids[i].number - 1
                                             ELSE ids[i].number]
        BY <2>2 DEF UnlockCount
      <4>2. (IF ids[i].number # 0 THEN ids[i].number - 1 ELSE ids[i].number) = depth[t] - 1
        BY <1>1, <3>2
      <4> QED BY <4>1, <4>2, Zenon
    <3>4. depth[t] - 1 \in Nat
      BY <1>1, <3>2
    <3> QED BY <3>1, <3>2, <3>3, <3>4
  <2> QED BY <2>1, <2>2
<1>3. /\ ids' \in Seq(Row) /\ DOMAIN ids' = DOMAIN ids
      /\ ids'[i].threadid = t /\ ids'[i].number = d
      /\ \A j \in DOMAIN ids : ids'[j].threadid = ids[j].threadid
      /\ \A j \in DOMAIN ids \ {i} : ids'[j] = ids[j]
  <2> DEFINE r == [ids[i] EXCEPT !.number = d]
  <2>1. r \in Row /\ r.threadid = t /\ r.number = d
    BY <1>1 DEF Row
  <2>2. ids \in Seq(Row) /\ ids' = [ids EXCEPT ![i] = r]
    BY <1>2 DEF IInv, TypeOK
  <2> HIDE DEF r
  <2>3. ids' \in Seq(Row) /\ DOMAIN ids' = DOMAIN ids
    BY <1>1, <2>1, <2>2
  <2>4. ids'[i] = r /\ \A j \in DOMAIN ids \ {i} : ids'[j] = ids[j]
    BY <1>1, <2>2
  <2> QED BY <1>1, <2>1, <2>3, <2>4
<1>4. /\ index' = index /\ mt' = mt /\ my = t /\ my' = NoThread
      /\ pc[t] \in {"lock_count", "unlock_count"}
      /\ pc' = [pc EXCEPT ![t] = "out"]
  BY DEF LockCount, UnlockCount, Goto, IInv, OwnersMatch, OwnsMy
<1>5. TypeOK'
  BY <1>2, <1>3, <1>4 DEF IInv, TypeOK, Locations
<1>6. IndexStillMine'
  BY <1>3, <1>4 DEF IInv, TypeOK, IndexStillMine, UsesIndex
<1>7. RowsMatch'
  <2>1. \A j, k \in DOMAIN ids' : ids'[j].threadid = ids'[k].threadid => j = k
    BY <1>3 DEF IInv, RowsMatch
  <2>2. \A j \in DOMAIN ids \ {i} : ids[j].threadid # t /\ ids[j].threadid \in Threads
    <3>1. \A j \in DOMAIN ids : ids[j] \in Row
      BY DEF IInv, TypeOK
    <3>2. \A j \in DOMAIN ids \ {i} : ids[j].threadid # t
      BY <1>1 DEF IInv, RowsMatch
    <3> QED BY <3>1, <3>2 DEF Row
  <2>3. \A j \in DOMAIN ids' : ids'[j].number = depth'[ids'[j].threadid]
    BY <1>1, <1>2, <1>3, <2>2 DEF IInv, TypeOK, RowsMatch
  <2>4. \A u \in Threads : depth'[u] > 0 => \E j \in DOMAIN ids' : ids'[j].threadid = u
    BY <1>1, <1>2, <1>3 DEF IInv, TypeOK, RowsMatch, HasRow
  <2> QED BY <2>1, <2>3, <2>4 DEF RowsMatch, HasRow
<1>8. OwnersMatch'
  <2>1. \A u \in Threads : my' = u <=> OwnsMy(u)'
    BY <1>4 DEF IInv, TypeOK, OwnersMatch, OwnsMy
  <2>2. \A u \in Threads \ {t} : OwnsMt(u)' <=> OwnsMt(u)
    BY <1>2, <1>4 DEF IInv, TypeOK, OwnsMt
  <2>3. OwnsMt(t)' <=> OwnsMt(t)
    BY <1>1, <1>2, <1>4 DEF IInv, TypeOK, OwnsMt
  <2> QED BY <1>4, <2>1, <2>2, <2>3 DEF IInv, OwnersMatch
<1>9. DepthAtLocation'
  BY <1>2, <1>4 DEF IInv, TypeOK, DepthAtLocation, Leaving
<1> QED BY <1>5, <1>6, <1>7, <1>8, <1>9 DEF IInv

LEMMA NextInv == IInv /\ [Next]_vars => IInv'
<1> SUFFICES ASSUME IInv, [Next]_vars PROVE IInv'
  OBVIOUS
<1>1. CASE UNCHANGED vars
  BY <1>1 DEF vars, IInv, TypeOK, IndexStillMine, UsesIndex, RowsMatch, HasRow,
              OwnersMatch, OwnsMy, OwnsMt, DepthAtLocation, Leaving
<1>2. CASE Next
  BY <1>2, TakeMyStep, CheckStep, CallAndMtStep, CountStep DEF Next
<1> QED BY <1>1, <1>2

\* IInv holds in every reachable state, so its parts TypeOK and IndexStillMine
\* do: the row index kept across my.unlock() stays valid for any number of
\* threads that call the mutex for the first time meanwhile.
THEOREM MutexInvariant == Spec => [](IInv /\ TypeOK /\ IndexStillMine)
<1>1. IInv => TypeOK /\ IndexStillMine
  BY DEF IInv
<1> QED BY <1>1, InitInv, NextInv, PTL DEF Spec

\* mutex_n excludes: no two threads are inside the region it protects.
THEOREM MutexExcludes == Spec => []MutualExclusion
<1>1. IInv => MutualExclusion
  <2> SUFFICES ASSUME IInv, NEW t \in Threads, NEW u \in Threads, Inside(t), Inside(u)
               PROVE  t = u
    BY DEF MutualExclusion
  <2>1. OwnsMt(t) /\ OwnsMt(u)
    BY DEF Inside, OwnsMt, Leaving, IInv, TypeOK, DepthAtLocation
  <2> QED BY <2>1 DEF IInv, OwnersMatch
<1> QED BY <1>1, InitInv, NextInv, PTL DEF Spec

-----------------------------------------------------------------------------
(* mutex_n implements RecursiveLock *)

\* The mapped initial state is the initial state of the abstract lock, and
\* every step of a thread acquires it, releases it or does not touch it.
THEOREM MutexImplementsLock == Spec => ImplementsLock
<1> DEFINE h == IF mt = NoThread THEN 0
                ELSE IF pc[mt] = "lock_my2" \/ (pc[mt] = "lock_count" /\ depth[mt] = 0)
                     THEN 1 ELSE depth[mt]
<1> USE MutexAssumption
<1>1. Init => Lock!Init
  BY DEF Init, Lock!Init
<1>2. ASSUME IInv, IInv', [Next]_vars PROVE [Lock!Next]_(Lock!vars)
  <2>1. CASE UNCHANGED vars
    BY <2>1 DEF vars, Lock!vars
  <2>2. ASSUME NEW t \in Threads, CallLock(t) \/ CallUnlock(t)
        PROVE  UNCHANGED <<mt, h>>
    BY <1>2, <2>2 DEF IInv, TypeOK, CallLock, CallUnlock, Goto
  <2>3. ASSUME NEW t \in Threads,
               \/ LockTakeMy(t) \/ LockTakeMy2(t) \/ UnlockTakeMy(t) \/ UnlockTakeMy2(t)
        PROVE  UNCHANGED <<mt, h>>
    BY <1>2, <2>3 DEF IInv, TypeOK, DepthAtLocation, LockTakeMy, LockTakeMy2,
                      UnlockTakeMy, UnlockTakeMy2, TakeMy, Goto
  <2>4. ASSUME NEW t \in Threads, LockCheck(t) \/ UnlockCheck(t)
        PROVE  UNCHANGED <<mt, h>>
    <3>1. mt' = mt /\ depth' = depth /\ pc[t] \in {"lock_check", "unlock_check"}
      BY <2>4 DEF LockCheck, UnlockCheck
    <3>2. \A u \in Threads \ {t} : pc'[u] = pc[u]
      BY <1>2, <2>4 DEF LockCheck, UnlockCheck, IInv, TypeOK
    <3>3. pc'[t] \in {"lock_mt", "lock_count", "unlock_mt", "unlock_count"}
      BY <1>2, <2>4 DEF LockCheck, UnlockCheck, IInv, TypeOK
    <3>4. mt = t => depth[t] > 0
      BY <1>2, <3>1 DEF IInv, OwnersMatch, OwnsMt
    <3> QED BY <1>2, <3>1, <3>2, <3>3, <3>4 DEF IInv, TypeOK
  <2>5. ASSUME NEW t \in Threads, LockTakeMt(t)
        PROVE  Lock!Acquire(t)
    BY <1>2, <2>5 DEF IInv, TypeOK, LockTakeMt, Goto, Lock!Acquire
  <2>6. ASSUME NEW t \in Threads, UnlockGiveMt(t)
        PROVE  Lock!Release(t)
    <3>1. mt = t /\ depth[t] = 1 /\ pc[t] = "unlock_mt"
      BY <1>2, <2>6 DEF IInv, TypeOK, OwnersMatch, OwnsMt, DepthAtLocation, Leaving,
                        UnlockGiveMt, Goto
    <3> QED BY <2>6, <3>1 DEF UnlockGiveMt, Lock!Release
  <2>7. ASSUME NEW t \in Threads, LockCount(t)
        PROVE  Lock!Acquire(t) \/ UNCHANGED <<mt, h>>
    <3>1. mt = t /\ mt' = t /\ pc[t] = "lock_count" /\ pc'[t] = "out"
          /\ depth[t] \in Nat /\ depth'[t] = depth[t] + 1
      BY <1>2, <2>7 DEF IInv, TypeOK, OwnersMatch, OwnsMt, LockCount, Goto
    <3>2. CASE depth[t] = 0
      BY <3>1, <3>2
    <3>3. CASE depth[t] # 0
      BY <3>1, <3>3 DEF Lock!Acquire
    <3> QED BY <3>2, <3>3
  <2>8. ASSUME NEW t \in Threads, UnlockCount(t)
        PROVE  Lock!Release(t) \/ UNCHANGED <<mt, h>>
    <3>1. /\ mt' = mt /\ pc[t] = "unlock_count" /\ pc' = [pc EXCEPT ![t] = "out"]
          /\ depth[t] \in Nat /\ depth[t] > 0
          /\ depth' = [depth EXCEPT ![t] = depth[t] - 1]
          /\ (mt = t <=> depth[t] > 1)
      BY <1>2, <2>8 DEF IInv, TypeOK, OwnersMatch, OwnsMt, DepthAtLocation, Leaving,
                        UnlockCount, Goto
    <3>2. CASE mt = t
      BY <1>2, <3>1, <3>2 DEF IInv, TypeOK, Lock!Release
    <3>3. CASE mt # t
      BY <1>2, <3>1, <3>3 DEF IInv, TypeOK
    <3> QED BY <3>2, <3>3
  <2> QED
    BY <1>2, <2>1, <2>2, <2>3, <2>4, <2>5, <2>6, <2>7, <2>8
       DEF Next, Lock!Next, Lock!vars
<1> QED BY <1>1, <1>2, InitInv, NextInv, PTL DEF Spec, ImplementsLock, Lock!Spec
-----------------------------------------------------------------------------
=============================================================================
