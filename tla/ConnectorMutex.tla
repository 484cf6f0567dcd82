--------------------------- MODULE ConnectorMutex ---------------------------
(***************************************************************************)
(* connector::mutex_n (connector_manager.h:17-39), the lock of every table *)
(* of the connector.  Unlike server::mutex_n it does not know threads: the *)
(* plain int n counts the open lock() calls of all of them, and only who   *)
(* finds n = 0 takes the std::mutex mt.                                    *)
(*                                                                         *)
(* n is read and written without a lock, so each access is an action.      *)
(* mt.unlock() frees mt whoever calls it.                                  *)
(***************************************************************************)
EXTENDS Integers, FiniteSets

CONSTANTS
  Threads,   \* threads that use one mutex_n
  MaxDepth,  \* bound on nested scope_lock_mutex objects of one thread
  MaxCount   \* bound on n when lock() is called: overlapping calls can drive n anywhere

ASSUME CountAssumption ==
  /\ IsFiniteSet(Threads)
  /\ MaxDepth \in Nat
  /\ MaxCount \in Nat

VARIABLES
  n,      \* mutex_n::n
  mt,     \* whether mutex_n::mt is locked
  tmp,    \* tmp[t]: what n++ or n-- of t has read
  depth,  \* depth[t]: scope_lock_mutex objects of t that hold the lock
  pc,     \* pc[t]: where t is
  met     \* history: two threads were inside lock() or unlock() at once

vars == <<n, mt, tmp, depth, pc, met>>

Init ==
  /\ n = 0
  /\ mt = FALSE
  /\ tmp = [t \in Threads |-> 0]
  /\ depth = [t \in Threads |-> 0]
  /\ pc = [t \in Threads |-> "out"]
  /\ met = FALSE

Goto(t, from, to) ==
  /\ pc[t] = from
  /\ pc' = [pc EXCEPT ![t] = to]

Enter(t, to) ==
  /\ Goto(t, "out", to)
  /\ met' = (met \/ \E u \in Threads : pc[u] # "out")
  /\ UNCHANGED <<n, mt, tmp, depth>>

\* The read of n++ and n--.
ReadN(t, from, to) ==
  /\ Goto(t, from, to)
  /\ tmp' = [tmp EXCEPT ![t] = n]
  /\ UNCHANGED <<n, mt, depth, met>>

-----------------------------------------------------------------------------
\* lock()

CallLock(t) ==
  /\ depth[t] < MaxDepth
  /\ \A u \in Threads : {n, tmp[u]} \subseteq -MaxCount..MaxCount
  /\ Enter(t, "lock_check")

\* Mutant: mt is not taken.
LockCheckPasses(t) ==
  /\ Goto(t, "lock_check", "lock_read")
  /\ UNCHANGED <<n, mt, tmp, depth, met>>

LockCheck(t) ==
  /\ Goto(t, "lock_check", IF n = 0 THEN "lock_mt" ELSE "lock_read")
  /\ UNCHANGED <<n, mt, tmp, depth, met>>

LockMt(t) ==
  /\ Goto(t, "lock_mt", "lock_read")
  /\ ~mt
  /\ mt' = TRUE
  /\ UNCHANGED <<n, tmp, depth, met>>

LockRead(t) == ReadN(t, "lock_read", "lock_write")

LockWrite(t) ==
  /\ Goto(t, "lock_write", "out")
  /\ n' = tmp[t] + 1
  /\ depth' = [depth EXCEPT ![t] = @ + 1]
  /\ tmp' = [tmp EXCEPT ![t] = 0]
  /\ UNCHANGED <<mt, met>>

-----------------------------------------------------------------------------
\* unlock()

CallUnlock(t) ==
  /\ depth[t] > 0
  /\ Enter(t, "unlock_check")

\* Mutants: mt is freed too early, or for n = 0 too.
UnlockCheckEarly(t) ==
  /\ Goto(t, "unlock_check", IF n = 2 THEN "unlock_mt" ELSE "unlock_test")
  /\ UNCHANGED <<n, mt, tmp, depth, met>>

UnlockCheckLoose(t) ==
  /\ Goto(t, "unlock_check", IF n <= 1 THEN "unlock_mt" ELSE "unlock_test")
  /\ UNCHANGED <<n, mt, tmp, depth, met>>

UnlockCheck(t) ==
  /\ Goto(t, "unlock_check", IF n = 1 THEN "unlock_mt" ELSE "unlock_test")
  /\ UNCHANGED <<n, mt, tmp, depth, met>>

UnlockMt(t) ==
  /\ Goto(t, "unlock_mt", "unlock_test")
  /\ mt' = FALSE
  /\ UNCHANGED <<n, tmp, depth, met>>

\* The second test reads n again.
UnlockTest(t) ==
  /\ pc[t] = "unlock_test"
  /\ \/ /\ n # 0
        /\ pc' = [pc EXCEPT ![t] = "unlock_read"]
        /\ depth' = depth
     \/ /\ n = 0
        /\ pc' = [pc EXCEPT ![t] = "out"]
        /\ depth' = [depth EXCEPT ![t] = @ - 1]
  /\ UNCHANGED <<n, mt, tmp, met>>

UnlockRead(t) == ReadN(t, "unlock_read", "unlock_write")

UnlockWrite(t) ==
  /\ Goto(t, "unlock_write", "out")
  /\ n' = tmp[t] - 1
  /\ depth' = [depth EXCEPT ![t] = @ - 1]
  /\ tmp' = [tmp EXCEPT ![t] = 0]
  /\ UNCHANGED <<mt, met>>

Step(t) ==
  \/ LockCheck(t) \/ LockMt(t) \/ LockRead(t) \/ LockWrite(t)
  \/ UnlockCheck(t) \/ UnlockMt(t) \/ UnlockTest(t) \/ UnlockRead(t)
  \/ UnlockWrite(t)

Next == \E t \in Threads : CallLock(t) \/ CallUnlock(t) \/ Step(t)

Spec == Init /\ [][Next]_vars

-----------------------------------------------------------------------------
(* Properties *)

TypeOK ==
  /\ n \in Int
  /\ mt \in BOOLEAN
  /\ tmp \in [Threads -> Int]
  /\ depth \in [Threads -> 0..MaxDepth]
  /\ pc \in [Threads -> {"out", "lock_check", "lock_mt", "lock_read", "lock_write",
                         "unlock_check", "unlock_mt", "unlock_test", "unlock_read",
                         "unlock_write"}]
  /\ met \in BOOLEAN

\* The scope_lock_mutex objects that hold the lock.
Held == {s \in Threads \X (1..MaxDepth) : s[2] <= depth[s[1]]}

\* As long as no two calls overlap, n counts the open scopes of all threads,
\* and mt is locked exactly while there is one.
SerialIsSound ==
  ~met /\ (\A t \in Threads : pc[t] = "out")
    => n = Cardinality(Held) /\ (mt <=> n > 0)

\* As long as no two calls overlap, lock() lets every thread in at once,
\* whoever holds the lock: the mutex never makes anybody wait.
NobodyWaits ==
  ~met => \A t \in Threads : pc[t] = "lock_mt" => ~mt

\* mt is locked, n says that nobody holds it, and nobody is about to change
\* either: what two unlock() calls leave that both found n = 2.
Stuck ==
  /\ mt
  /\ n = 0
  /\ \A t \in Threads :
        pc[t] \in {"out", "lock_check", "lock_mt", "unlock_check", "unlock_test"}

\* Once stuck, always stuck: no call of any thread repairs the mutex, and every
\* lock() from then on waits for ever.
StuckIsForever == [][Stuck => Stuck']_vars

\* For a single thread the count is right, and mutex_n is the recursive lock
\* that its callers take it for.
Lock == INSTANCE RecursiveLock WITH
          NoThread <- "nobody",
          owner <- IF mt THEN CHOOSE t \in Threads : TRUE ELSE "nobody",
          held  <- IF ~mt THEN 0 ELSE IF n = 0 THEN 1 ELSE n

ImplementsLock == Lock!Spec

-----------------------------------------------------------------------------
(* The inductive invariant the proofs use *)

\* As long as no two calls overlap, one thread at most is in a call; n and mt
\* are right but for what that thread is about to do to them.
SerialInv ==
  ~met =>
    /\ \A t, u \in Threads : pc[t] # "out" /\ pc[u] # "out" => t = u
    /\ n = Cardinality(Held)
    /\ \A t \in Threads :
          /\ pc[t] = "lock_mt" => n = 0
          /\ pc[t] \in {"lock_read", "lock_write"} => mt
          /\ pc[t] = "unlock_mt" => n = 1
          /\ pc[t] \in {"unlock_test", "unlock_read", "unlock_write"} => (mt <=> n > 1)
          /\ pc[t] \in {"lock_write", "unlock_write"} => tmp[t] = n
    /\ (\A t \in Threads : pc[t] \in {"out", "lock_check", "lock_mt", "unlock_check", "unlock_mt"})
          => (mt <=> n > 0)

UnlockingHolds ==
  \A t \in Threads :
     /\ pc[t] \in {"lock_check", "lock_mt", "lock_read", "lock_write"} => depth[t] < MaxDepth
     /\ pc[t] \in {"unlock_check", "unlock_mt", "unlock_test", "unlock_read", "unlock_write"}
          => depth[t] > 0

IInv == TypeOK /\ UnlockingHolds /\ SerialInv
=============================================================================
