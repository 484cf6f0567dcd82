--------------------------- MODULE RecursiveLock ---------------------------
(***************************************************************************)
(* What a caller of server::scope_lock_mutex relies on: a lock that one    *)
(* thread at a time holds, that its holder may take again, and that is     *)
(* free once the holder has given back every acquisition.  RecursiveMutex  *)
(* is shown to implement this specification.                               *)
(***************************************************************************)
EXTENDS Naturals

CONSTANTS
  Threads,   \* the threads that use the lock
  NoThread   \* the owner of a free lock

VARIABLES
  owner,     \* the thread that holds the lock, or NoThread
  held       \* how many acquisitions the owner has not given back

vars == <<owner, held>>

Init ==
  /\ owner = NoThread
  /\ held = 0

Acquire(t) ==
  /\ owner \in {NoThread, t}
  /\ owner' = t
  /\ held' = held + 1

Release(t) ==
  /\ owner = t
  /\ held' = held - 1
  /\ owner' = IF held = 1 THEN NoThread ELSE t

Next == \E t \in Threads : Acquire(t) \/ Release(t)

Spec == Init /\ [][Next]_vars
=============================================================================
