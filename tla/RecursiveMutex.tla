--------------------------- MODULE RecursiveMutex ---------------------------
(***************************************************************************)
(* server::mutex_n (tasker_manager.cpp:8-42), the recursive mutex that     *)
(* guards every table of the tasker, and the scope_lock_mutex objects      *)
(* (tasker_manager.h:73-95) through which threads use it.                  *)
(*                                                                         *)
(* It is built from two std::mutex objects and a vector: mt is the lock    *)
(* the callers contend for, my guards the vector ids of (thread, nesting   *)
(* count) rows.  lock() and unlock() give my back before they block on mt  *)
(* or release it, and take it again afterwards, with the row index they    *)
(* computed before.  Each action below is what one thread does between two *)
(* operations on my or mt.                                                 *)
(***************************************************************************)
EXTENDS Naturals, Sequences

CONSTANTS
  Threads,   \* threads of the server that call tasker_manager
  NoThread,  \* owner of a std::mutex that is not locked
  MaxDepth   \* bound on nested scope_lock_mutex objects of one thread

ASSUME MutexAssumption ==
  /\ NoThread \notin Threads
  /\ MaxDepth \in Nat \ {0}

VARIABLES
  my,      \* owner of mutex_n::my
  mt,      \* owner of mutex_n::mt
  ids,     \* mutex_n::ids, rows [threadid, number]
  index,   \* index[t]: the local variable index of t's current call
  depth,   \* depth[t]: completed lock() calls of t not yet undone by unlock()
  pc       \* pc[t]: where t is

vars == <<my, mt, ids, index, depth, pc>>

Locations ==
  { "out",          \* not in a call of mutex_n
    "lock_my",      \* lock():21, about to my.lock()
    "lock_check",   \* lock():22, owns my
    "lock_mt",      \* lock():25, gave my back, about to mt.lock()
    "lock_my2",     \* lock():26, owns mt, about to my.lock()
    "lock_count",   \* lock():28, owns my and mt
    "unlock_my",    \* unlock():32, about to my.lock()
    "unlock_check", \* unlock():33, owns my
    "unlock_mt",    \* unlock():36, gave my back, about to mt.unlock()
    "unlock_my2",   \* unlock():37, released mt, about to my.lock()
    "unlock_count"  \* unlock():39, owns my
  }

Row == [threadid : Threads, number : Nat]

Init ==
  /\ my = NoThread
  /\ mt = NoThread
  /\ ids = << >>
  /\ index = [t \in Threads |-> 0]
  /\ depth = [t \in Threads |-> 0]
  /\ pc = [t \in Threads |-> "out"]

-----------------------------------------------------------------------------

\* check_thread(), whose caller owns my: the first row of the thread; if it
\* has none, a row with count 0 is appended, so idx is then past the old end.
IsFirstRow(t, i) ==
  /\ ids[i].threadid = t
  /\ \A j \in 1..(i-1) : ids[j].threadid # t

HasRow(t) == \E i \in DOMAIN ids : ids[i].threadid = t

CheckThread(t, idx) ==
  IF HasRow(t)
  THEN /\ idx \in DOMAIN ids
       /\ IsFirstRow(t, idx)
       /\ ids' = ids
  ELSE /\ idx = Len(ids) + 1
       /\ ids' = Append(ids, [threadid |-> t, number |-> 0])

Goto(t, from, to) ==
  /\ pc[t] = from
  /\ pc' = [pc EXCEPT ![t] = to]

\* my.lock(): blocks while another thread owns my.
TakeMy(t, from, to) ==
  /\ Goto(t, from, to)
  /\ my = NoThread
  /\ my' = t
  /\ UNCHANGED <<mt, ids, index, depth>>

-----------------------------------------------------------------------------
\* lock()

CallLock(t) ==
  /\ depth[t] < MaxDepth
  /\ Goto(t, "out", "lock_my")
  /\ UNCHANGED <<my, mt, ids, index, depth>>

LockTakeMy(t) == TakeMy(t, "lock_my", "lock_check")

\* A thread that already holds the mutex only counts; any other gives my back
\* and goes to wait for mt.
LockCheck(t) ==
  /\ pc[t] = "lock_check"
  /\ \E idx \in 1..(Len(ids) + 1) :
        /\ CheckThread(t, idx)
        /\ index' = [index EXCEPT ![t] = idx]
        /\ IF ids'[idx].number = 0
           THEN /\ my' = NoThread
                /\ pc' = [pc EXCEPT ![t] = "lock_mt"]
           ELSE /\ pc' = [pc EXCEPT ![t] = "lock_count"]
                /\ my' = my
  /\ UNCHANGED <<mt, depth>>

LockTakeMt(t) ==
  /\ Goto(t, "lock_mt", "lock_my2")
  /\ mt = NoThread
  /\ mt' = t
  /\ UNCHANGED <<my, ids, index, depth>>

LockTakeMy2(t) == TakeMy(t, "lock_my2", "lock_count")

\* Mutant: the count is not raised.
LockCountLost(t) ==
  /\ Goto(t, "lock_count", "out")
  /\ my' = NoThread
  /\ depth' = [depth EXCEPT ![t] = @ + 1]
  /\ UNCHANGED <<mt, ids, index>>

LockCount(t) ==
  /\ Goto(t, "lock_count", "out")
  /\ ids' = [ids EXCEPT ![index[t]].number = @ + 1]
  /\ my' = NoThread
  /\ depth' = [depth EXCEPT ![t] = @ + 1]
  /\ UNCHANGED <<mt, index>>

-----------------------------------------------------------------------------
\* unlock(), called by the destructor of a scope_lock_mutex whose flag b is set

CallUnlock(t) ==
  /\ depth[t] > 0
  /\ Goto(t, "out", "unlock_my")
  /\ UNCHANGED <<my, mt, ids, index, depth>>

UnlockTakeMy(t) == TakeMy(t, "unlock_my", "unlock_check")

\* Mutant: an inner unlock gives mt back already.
UnlockCheckEarly(t) ==
  /\ pc[t] = "unlock_check"
  /\ \E idx \in 1..(Len(ids) + 1) :
        CheckThread(t, idx) /\ index' = [index EXCEPT ![t] = idx]
  /\ my' = NoThread
  /\ pc' = [pc EXCEPT ![t] = "unlock_mt"]
  /\ UNCHANGED <<mt, depth>>

UnlockCheck(t) ==
  /\ pc[t] = "unlock_check"
  /\ \E idx \in 1..(Len(ids) + 1) :
        /\ CheckThread(t, idx)
        /\ index' = [index EXCEPT ![t] = idx]
        /\ IF ids'[idx].number = 1
           THEN /\ my' = NoThread
                /\ pc' = [pc EXCEPT ![t] = "unlock_mt"]
           ELSE /\ pc' = [pc EXCEPT ![t] = "unlock_count"]
                /\ my' = my
  /\ UNCHANGED <<mt, depth>>

UnlockGiveMt(t) ==
  /\ Goto(t, "unlock_mt", "unlock_my2")
  /\ mt' = NoThread
  /\ UNCHANGED <<my, ids, index, depth>>

UnlockTakeMy2(t) == TakeMy(t, "unlock_my2", "unlock_count")

UnlockCount(t) ==
  /\ Goto(t, "unlock_count", "out")
  /\ ids' = [ids EXCEPT ![index[t]].number = IF @ # 0 THEN @ - 1 ELSE @]
  /\ my' = NoThread
  /\ depth' = [depth EXCEPT ![t] = @ - 1]
  /\ UNCHANGED <<mt, index>>

Next ==
  \E t \in Threads :
     \/ CallLock(t)   \/ LockTakeMy(t)   \/ LockCheck(t)
     \/ LockTakeMt(t) \/ LockTakeMy2(t)  \/ LockCount(t)
     \/ CallUnlock(t) \/ UnlockTakeMy(t) \/ UnlockCheck(t)
     \/ UnlockGiveMt(t) \/ UnlockTakeMy2(t) \/ UnlockCount(t)

Spec == Init /\ [][Next]_vars

-----------------------------------------------------------------------------
(* Properties *)

TypeOK ==
  /\ my \in Threads \cup {NoThread}
  /\ mt \in Threads \cup {NoThread}
  /\ ids \in Seq(Row)
  /\ index \in [Threads -> Nat]
  /\ depth \in [Threads -> Nat]
  /\ pc \in [Threads -> Locations]

\* A thread is inside what the mutex protects from the return of its outermost
\* lock() to its call of the matching unlock().
Leaving(t) ==
  pc[t] \in {"unlock_my", "unlock_check", "unlock_mt", "unlock_my2", "unlock_count"}

Inside(t) == depth[t] > 1 \/ (depth[t] = 1 /\ ~Leaving(t))

\* No two threads are inside the region that one mutex_n protects, although
\* lock() and unlock() let go of my between reading a nesting count and
\* updating it.
MutualExclusion ==
  \A t, u \in Threads : Inside(t) /\ Inside(u) => t = u

\* Between my.unlock() and the use of index the thread relies on its row.
UsesIndex(t) ==
  pc[t] \in {"lock_mt", "lock_my2", "lock_count",
            "unlock_mt", "unlock_my2", "unlock_count"}

\* The row index a thread computed before it let go of my still names its own
\* row when it takes my again, whatever rows other threads appended meanwhile.
IndexStillMine ==
  \A t \in Threads :
     UsesIndex(t) => index[t] \in DOMAIN ids /\ ids[index[t]].threadid = t

\* The lock the callers see: taken when mt is, released when mt is, counted by
\* the calls in between.
Lock == INSTANCE RecursiveLock WITH
          owner <- mt,
          held  <- IF mt = NoThread THEN 0
                   ELSE IF pc[mt] = "lock_my2" \/ (pc[mt] = "lock_count" /\ depth[mt] = 0)
                        THEN 1 ELSE depth[mt]

\* mutex_n implements the recursive lock its callers rely on.
ImplementsLock == Lock!Spec
-----------------------------------------------------------------------------
(* The inductive invariant the proofs use *)

OwnsMy(t) ==
  pc[t] \in {"lock_check", "lock_count", "unlock_check", "unlock_count"}

OwnsMt(t) ==
  \/ pc[t] \in {"lock_my2", "lock_count"}
  \/ pc[t] = "unlock_count" /\ depth[t] > 1
  \/ pc[t] \notin {"unlock_my2", "unlock_count"} /\ depth[t] > 0

\* One row per thread, and its count is the thread's nesting depth.
RowsMatch ==
  /\ \A i, j \in DOMAIN ids : ids[i].threadid = ids[j].threadid => i = j
  /\ \A i \in DOMAIN ids : ids[i].number = depth[ids[i].threadid]
  /\ \A t \in Threads : depth[t] > 0 => HasRow(t)

OwnersMatch ==
  /\ \A t \in Threads : my = t <=> OwnsMy(t)
  /\ \A t \in Threads : mt = t <=> OwnsMt(t)

DepthAtLocation ==
  \A t \in Threads :
     /\ pc[t] \in {"lock_mt", "lock_my2"} => depth[t] = 0
     /\ Leaving(t) => depth[t] > 0
     /\ pc[t] \in {"unlock_mt", "unlock_my2"} => depth[t] = 1

\* The invariant that every step of lock() and unlock() preserves: the rows
\* count what the threads did, and each mutex has the owner that the threads'
\* locations say.
IInv ==
  /\ TypeOK
  /\ IndexStillMine
  /\ RowsMatch
  /\ OwnersMatch
  /\ DepthAtLocation
=============================================================================
