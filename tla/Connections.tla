----------------------------- MODULE Connections -----------------------------
(***************************************************************************)
(* How getevent() (connector_manager.h:794-864) calls the peers and what a *)
(* failing peer does to the others: rounds over the connections, repeated  *)
(* until one has no failure or 100 ms are over; back-off by count_try and  *)
(* last_try; and get_myid(address, false), which asks a peer that answers  *)
(* "$error" for a new id.  Connector takes an answer or a failure per poll *)
(* from here; what becomes of the events is modelled there.                *)
(*                                                                         *)
(* The peers are external: down or up, and restarted at will, after which  *)
(* they do not know the id they have given before.  Time is counted in     *)
(* units that the shortest round takes.                                    *)
(***************************************************************************)
EXTENDS Integers, FiniteSetsExt

CONSTANTS
  Peers,        \* number of connections
  Few, Many,    \* count_try above which, and from which, a call is put off (5, 20)
  Short, Long,  \* for how long, in units of time (100 ms, 1000 ms)
  MaxDelay,     \* bound on the time a call takes
  MaxFaults,    \* bound on crashes and restarts of peers
  EmptyRouted   \* whether a peer answers a URL with empty ids by "$error"

ASSUME ConnectionsAssumption ==
  /\ Peers \in Nat \ {0}
  /\ Few \in Nat /\ Many \in Nat /\ Few < Many
  /\ Short \in Nat \ {0} /\ Long \in Nat /\ Short < Long
  /\ MaxDelay \in Nat
  /\ MaxFaults \in Nat
  /\ EmptyRouted \in BOOLEAN

Conns == 1..Peers

VARIABLES
  up,        \* up[c]: the peer answers
  faults,    \* crashes and restarts so far
  id,        \* id[c]: server_hash and hash_worker, as the peer sees them
  count_try, \* connection::count_try
  age,       \* age[c]: time since connection::last_try, as far as Long
  respon,    \* respon[c]: what is in connection::respon_str
  pc, conn,  \* where getevent() is, and its loop index i
  dur,       \* dur, as far as it matters
  all_successfull,
  asked,     \* history: how the last call of this poll to c went
  failed     \* history: failures in a row of this poll's calls to c, as far as it matters

peerVars == <<up, faults>>
vars == <<peerVars, id, count_try, age, respon, pc, conn, dur, all_successfull, asked, failed>>

Init ==
  /\ up \in [Conns -> BOOLEAN]
  /\ faults = 0
  /\ id = [c \in Conns |-> "good"]
  /\ count_try = [c \in Conns |-> 0]
  /\ age = [c \in Conns |-> Long]
  /\ respon = [c \in Conns |-> "nothing"]
  /\ pc = "round" /\ conn = 1
  /\ dur = 0
  /\ all_successfull = TRUE
  /\ asked = [c \in Conns |-> "not"]
  /\ failed = [c \in Conns |-> 0]

\* Time d has passed for c.
Later(c, d) == Min({age[c] + d, Long})

AllLater(d) == [c \in Conns |-> Later(c, d)]

-----------------------------------------------------------------------------
\* The peers

Crash(c) ==
  /\ up[c] /\ up' = [up EXCEPT ![c] = FALSE]
  /\ id' = id

\* A peer that was restarted does not know the ids it gave before.
Restart(c) ==
  /\ up' = [up EXCEPT ![c] = TRUE]
  /\ id' = [id EXCEPT ![c] = IF @ = "good" THEN "stale" ELSE @]

Fault ==
  /\ faults < MaxFaults /\ faults' = faults + 1
  /\ \E c \in Conns : Crash(c) \/ Restart(c)
  /\ UNCHANGED <<count_try, age, respon, pc, conn, dur, all_successfull, asked, failed>>

\* The peer comes back as it was.
Return(c) ==
  /\ ~up[c] /\ up' = [up EXCEPT ![c] = TRUE]
  /\ UNCHANGED <<faults, id, count_try, age, respon, pc, conn, dur, all_successfull, asked, failed>>

\* What a peer that is up answers, and whether it answers with status 200.
Answers(c) == CASE id[c] = "good"  -> {"nothing", "events"}
                [] id[c] = "stale" -> {"error"}
                [] id[c] = "empty" -> IF EmptyRouted THEN {"error"} ELSE {}

-----------------------------------------------------------------------------
\* getevent()

\* Mutant: only a long row of failures puts a call off.
PutOffLate(c) == count_try[c] >= Many /\ age[c] < Long

PutOff(c) == \/ count_try[c] >= Many /\ age[c] < Long
             \/ count_try[c] > Few /\ count_try[c] < Many /\ age[c] < Short

\* Mutant: one too far.
NextConnPast(then) ==
  \/ conn <= Peers /\ conn' = conn + 1 /\ pc' = pc
  \/ conn > Peers /\ conn' = 1 /\ pc' = then

\* On to the next connection, or the end of the round.
NextConn(then) ==
  \/ conn < Peers /\ conn' = conn + 1 /\ pc' = pc
  \/ conn = Peers /\ conn' = 1 /\ pc' = then

\* Mutant: last_try is renewed.
SkipTouches ==
  /\ pc = "round" /\ PutOff(conn)
  /\ NextConn("rounds")
  /\ age' = [age EXCEPT ![conn] = 0]
  /\ UNCHANGED <<peerVars, id, count_try, respon, dur, all_successfull, asked, failed>>

Skip ==
  /\ pc = "round" /\ PutOff(conn)
  /\ NextConn("rounds")
  /\ UNCHANGED <<peerVars, id, count_try, age, respon, dur, all_successfull, asked, failed>>

\* A call that fails leaves the answer of an earlier one in respon_str.
Call ==
  /\ pc = "round" /\ ~PutOff(conn)
  /\ NextConn("rounds")
  /\ \E d \in 0..MaxDelay : /\ dur' = Min({dur + d, Short + 1})
                            /\ age' = [AllLater(d) EXCEPT ![conn] = 0]
  /\ \/ /\ up[conn]
        /\ \E r \in Answers(conn) : respon' = [respon EXCEPT ![conn] = r]
        /\ count_try' = [count_try EXCEPT ![conn] = 0]
        /\ asked' = [asked EXCEPT ![conn] = "answered"]
        /\ failed' = [failed EXCEPT ![conn] = 0]
        /\ UNCHANGED all_successfull
     \/ /\ ~up[conn] \/ Answers(conn) = {}
        /\ count_try' = [count_try EXCEPT ![conn] = Min({@ + 1, Many})]
        /\ all_successfull' = FALSE
        /\ asked' = [asked EXCEPT ![conn] = "failed"]
        /\ failed' = [failed EXCEPT ![conn] = Min({@ + 1, Few + 3})]
        /\ UNCHANGED respon
  /\ UNCHANGED <<peerVars, id>>

\* The next round, unless time is up or no call of this one has failed.
Rounds ==
  /\ pc = "rounds"
  /\ dur' = Min({dur + 1, Short + 1}) /\ age' = AllLater(1)
  /\ pc' = IF dur' > Short \/ all_successfull THEN "use" ELSE "round"
  /\ all_successfull' = TRUE
  /\ UNCHANGED <<peerVars, id, count_try, respon, conn, asked, failed>>

\* get_myid(address, false): the ids are overwritten whether new ones came or not.
get_myid(d) ==
  /\ id' = [id EXCEPT ![conn] = IF up[conn] THEN "good" ELSE "empty"]
  /\ age' = AllLater(d)

\* Mutant: whatever is in respon_str is used.
ReadyAlways(c) == TRUE

\* The last call succeeded.
Ready(c) == count_try[c] = 0

\* Mutant: the first connection that failed ends the poll.
UseStops ==
  /\ pc = "use"
  /\ \/ Ready(conn) /\ NextConn("sleep")
     \/ ~Ready(conn) /\ conn' = 1 /\ pc' = "sleep"
  /\ UNCHANGED <<peerVars, id, age, count_try, respon, dur, all_successfull, asked, failed>>

\* The events go to the buffer here (Connector!Take and on).
Use ==
  /\ pc = "use"
  /\ \/ /\ Ready(conn) /\ respon[conn] = "error"
        /\ \E d \in 0..MaxDelay : get_myid(d)
     \/ /\ ~Ready(conn) \/ respon[conn] # "error"
        /\ UNCHANGED <<id, age>>
  /\ NextConn("sleep")
  /\ UNCHANGED <<peerVars, count_try, respon, dur, all_successfull, asked, failed>>

\* loop() sleeps for 100 ms and calls getevent() again.
Sleep ==
  /\ pc = "sleep" /\ pc' = "round"
  /\ age' = AllLater(Short)
  /\ dur' = 0 /\ all_successfull' = TRUE
  /\ asked' = [c \in Conns |-> "not"]
  /\ failed' = [c \in Conns |-> 0]
  /\ UNCHANGED <<peerVars, id, count_try, respon, conn>>

Loop == Skip \/ Call \/ Rounds \/ Use \/ Sleep

Next == Loop \/ Fault \/ \E c \in Conns : Return(c)

Spec == Init /\ [][Next]_vars

\* The polling thread is scheduled, and calls end.
FairSpec == Spec /\ WF_vars(Loop)

-----------------------------------------------------------------------------
(* Properties *)

TypeOK ==
  /\ up \in [Conns -> BOOLEAN]
  /\ id \in [Conns -> {"good", "stale", "empty"}]
  /\ count_try \in [Conns -> 0..Many]
  /\ age \in [Conns -> 0..Long]
  /\ respon \in [Conns -> {"nothing", "events", "error"}]
  /\ pc \in {"round", "rounds", "use", "sleep"}
  /\ conn \in Conns
  /\ dur \in 0..(Short + 1)
  /\ asked \in [Conns -> {"not", "answered", "failed"}]
  /\ failed \in [Conns -> 0..(Few + 3)]

\* Connection c's answer is used in this poll.
Used(c) == pc = "use" /\ conn = c /\ Ready(c)

\* An answer is used only if the peer gave it in this poll and no later call of
\* this poll failed: what an earlier poll has left in respon_str is never used.
AnswersAreFresh == \A c \in Conns : Used(c) => asked[c] = "answered"

\* A peer that does not answer is called at most Few + 2 times in a poll, however
\* long the rounds over the other connections go on.
BackOff == \A c \in Conns : failed[c] <= Few + 2

\* A peer that stays up is polled again and again, whatever the other peers do.
LiveIsServed ==
  \A c \in Conns : <>[](up[c] /\ id[c] = "good") => []<>Used(c)

\* A peer that comes back for good is used again and again, whatever it has
\* forgotten, unless get_myid() had no answer and left empty ids behind.
RecoversOrForgotten ==
  \A c \in Conns : <>[]up[c] => []<>Used(c) \/ <>[](id[c] = "empty")

-----------------------------------------------------------------------------
(* The inductive invariant the proofs use *)

\* Between two runs of the loop over the connections, its index is back at 1.
LoopInv == pc \in {"rounds", "sleep"} => conn = 1

\* Connections that this round has gone past, and all when it is over.
PassedBy(c) == pc \in {"rounds", "use"} \/ (pc = "round" /\ c < conn)

\* Who has not failed last has answered in this poll, once it was its turn.
FreshInv == \A c \in Conns : PassedBy(c) /\ count_try[c] = 0 => asked[c] = "answered"

\* The failures of a poll are counted in count_try; last_try of a peer that
\* failed lies in this poll; and a peer that has failed so often that it had to
\* be left alone once was called at the end of the poll's time.
BackOffInv ==
  \A c \in Conns :
     /\ failed[c] <= Few + 2
     /\ failed[c] <= count_try[c] \/ count_try[c] > Few
     /\ pc \in {"round", "rounds"} /\ failed[c] > 0 => age[c] <= dur \/ dur > Short
     /\ failed[c] > Few + 1 => dur >= Short /\ (pc = "round" => c < conn)

IInv == TypeOK /\ LoopInv /\ FreshInv /\ BackOffInv
=============================================================================
