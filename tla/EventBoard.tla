----------------------------- MODULE EventBoard -----------------------------
(***************************************************************************)
(* What the tasker promises to the nodes that use it: a board on which     *)
(* events are posted for a group, taken by one worker at a time, given     *)
(* back, and finished.  An event waits on the board of its group under an  *)
(* identifier.  It is never lost, copied, altered or moved to another      *)
(* group, and an identifier under which it was taken once never takes it   *)
(* again: an event that is given back waits under a new one.               *)
(***************************************************************************)
CONSTANTS
  Groups,  \* names of the boards
  Ids,     \* identifiers
  Events   \* what may be posted

VARIABLES
  waiting,  \* waiting[g]: tickets of group g that nobody has taken
  taken,    \* taken[g]: tickets of group g that some worker has taken
  used      \* identifiers that no later ticket will carry

vars == <<waiting, taken, used>>

Init ==
  /\ waiting = [g \in Groups |-> {}]
  /\ taken = [g \in Groups |-> {}]
  /\ used = {}

\* A new identifier is used up; the board may skip some.
Use(id) ==
  /\ id \notin used
  /\ used \cup {id} \subseteq used'

Post(g, id, e) ==
  /\ Use(id)
  /\ waiting' = [waiting EXCEPT ![g] = @ \cup {[id |-> id, event |-> e]}]
  /\ taken' = taken

Take(g, tk) ==
  /\ tk \in waiting[g]
  /\ waiting' = [waiting EXCEPT ![g] = @ \ {tk}]
  /\ taken' = [taken EXCEPT ![g] = @ \cup {tk}]
  /\ used' = used

GiveBack(g, tk, id) ==
  /\ tk \in taken[g]
  /\ Use(id)
  /\ taken' = [taken EXCEPT ![g] = @ \ {tk}]
  /\ waiting' = [waiting EXCEPT ![g] = @ \cup {[tk EXCEPT !.id = id]}]

\* Whoever knows the current identifier of an event may finish it, taken or not.
Finish(g, tk) ==
  /\ tk \in waiting[g] \cup taken[g]
  /\ waiting' = [waiting EXCEPT ![g] = @ \ {tk}]
  /\ taken' = [taken EXCEPT ![g] = @ \ {tk}]
  /\ used' = used

Next ==
  \E g \in Groups :
     \/ \E id \in Ids \ used : \/ \E e \in Events : Post(g, id, e)
                               \/ \E tk \in taken[g] : GiveBack(g, tk, id)
     \/ \E tk \in waiting[g] : Take(g, tk)
     \/ \E tk \in waiting[g] \cup taken[g] : Finish(g, tk)

Spec == Init /\ [][Next]_vars
=============================================================================
