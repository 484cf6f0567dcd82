---------------------------- MODULE ConnectorLife ----------------------------
(***************************************************************************)
(* The life cycle of connector::connector_manager (connector_manager.h):   *)
(* on() starts the threads loop() and worker_task(), off() stops and joins *)
(* them, and the destructor calls off() once more.  web_server runs on()   *)
(* in a detached thread of its own (web_server.h:15-20), so that off() of  *)
(* stop_server() may come while on() is still waiting for its peers.       *)
(*                                                                         *)
(* The k-th call of on() starts the k-th pair of threads.  The scopes of   *)
(* connector::mutex_n keep nobody out, but a thread may hang in lock() for *)
(* ever once scopes have overlapped (ConnectorMutex): Hang.  Join and      *)
(* delete of a thread object that is not there, delete of one that is not  *)
(* joined, and a thread that runs on in a destroyed manager are undefined: *)
(* "crashed".                                                              *)
(***************************************************************************)
EXTENDS Integers, FiniteSets

CONSTANTS
  Peers,   \* number of connections
  MaxOn,   \* bound on calls of on()
  MaxOff   \* bound on calls of off(), the destructor's included

ASSUME LifeAssumption == Peers \in Nat /\ MaxOn \in Nat /\ MaxOff \in Nat

Pairs == 1..MaxOn

\* The std::thread objects there can be.
Objects == {"th", "th_worker"} \X Pairs

VARIABLES
  ons,           \* calls of on() so far
  on_pc,         \* where the last one is
  offs,          \* calls of off() so far
  off_pc,        \* where the last one is
  work_loop,     \* connector_manager::work_loop
  th,            \* connector_manager::th: the pair it belongs to, 0 uninitialised
  th_worker,     \* the same of connector_manager::th_worker
  joined,        \* thread objects that join() has returned for
  deleted,       \* thread objects deleted, likewise
  ppc,           \* ppc[k]: where loop() of pair k is
  conn,          \* conn[k]: index of the connection its getevent() is at
  wpc,           \* wpc[k]: where worker_task() of pair k is
  empty_thread,  \* connector_manager::empty_thread
  destroying,    \* the destructor has been called
  crashed,       \* something undefined was done
  paired,        \* history: calls of on() and off() have alternated
  hung           \* who waits for ever in lock() of a connector::mutex_n

onVars == <<ons, on_pc>>
offVars == <<offs, off_pc, joined, deleted, destroying>>
pollVars == <<ppc, conn>>
lifeVars == <<onVars, offVars, work_loop, th, th_worker, pollVars, wpc, empty_thread,
              crashed, paired>>
vars == <<lifeVars, hung>>

Init ==
  /\ ons = 0 /\ on_pc = "idle"
  /\ offs = 0 /\ off_pc = "idle"
  /\ work_loop = FALSE
  /\ th = 0 /\ th_worker = 0
  /\ joined = {} /\ deleted = {}
  /\ ppc = [k \in Pairs |-> "none"]
  /\ conn = [k \in Pairs |-> 1]
  /\ wpc = [k \in Pairs |-> "none"]
  /\ empty_thread = FALSE
  /\ destroying = FALSE
  /\ crashed = FALSE
  /\ paired = TRUE
  /\ hung = {}

\* off() has returned from the destructor.
Destroyed == destroying /\ off_pc = "idle"

-----------------------------------------------------------------------------
\* on() and start_loop(), in a thread of its own

OnGoto(from, to) == on_pc = from /\ on_pc' = to /\ ons' = ons

\* One call of on() at a time, and none on an object that is being destroyed.
CallOn ==
  /\ on_pc = "idle" /\ ons < MaxOn /\ ~destroying
  /\ ons' = ons + 1 /\ on_pc' = "getid"
  /\ paired' = (paired /\ off_pc = "idle" /\ offs = ons)
  /\ UNCHANGED <<offVars, work_loop, th, th_worker, pollVars, wpc, empty_thread, crashed>>

\* get_myid(address, true) repeats its call until the peer gives an id.
get_myid ==
  /\ OnGoto("getid", "work_loop")
  /\ UNCHANGED <<offVars, work_loop, th, th_worker, pollVars, wpc, empty_thread, crashed, paired>>

SetWorkLoop ==
  /\ OnGoto("work_loop", "th")
  /\ work_loop' = TRUE
  /\ UNCHANGED <<offVars, th, th_worker, pollVars, wpc, empty_thread, crashed, paired>>

NewPoll ==
  /\ OnGoto("th", "th_worker")
  /\ th' = ons
  /\ ppc' = [ppc EXCEPT ![ons] = "loop"]
  /\ UNCHANGED <<offVars, work_loop, th_worker, conn, wpc, empty_thread, crashed, paired>>

NewWorker ==
  /\ OnGoto("th_worker", "idle")
  /\ th_worker' = ons
  /\ wpc' = [wpc EXCEPT ![ons] = "loop"]
  /\ UNCHANGED <<offVars, work_loop, th, pollVars, empty_thread, crashed, paired>>

On == get_myid \/ SetWorkLoop \/ NewPoll \/ NewWorker

-----------------------------------------------------------------------------
\* loop() and what getevent() does to the worker

Poll == UNCHANGED <<onVars, offVars, work_loop, th, th_worker, wpc, crashed, paired>>

LoopTest(k) ==
  /\ ppc[k] = "loop"
  /\ ppc' = [ppc EXCEPT ![k] = IF work_loop THEN "getevent" ELSE "ended"]
  /\ conn' = [conn EXCEPT ![k] = 1]
  /\ UNCHANGED empty_thread
  /\ Poll

\* Each connection whose peer listed events makes it wake the worker.
getevent(k) ==
  /\ ppc[k] = "getevent"
  /\ \/ /\ conn[k] <= Peers
        /\ conn' = [conn EXCEPT ![k] = @ + 1]
        /\ empty_thread' \in {empty_thread, TRUE}
        /\ ppc' = ppc
     \/ /\ conn[k] > Peers
        /\ ppc' = [ppc EXCEPT ![k] = "loop"]
        /\ UNCHANGED <<conn, empty_thread>>
  /\ Poll

Loop(k) == LoopTest(k) \/ getevent(k)

-----------------------------------------------------------------------------
\* worker_task()

Work == UNCHANGED <<onVars, offVars, work_loop, th, th_worker, pollVars, crashed, paired>>

WorkGoto(k, from, to) == wpc[k] = from /\ wpc' = [wpc EXCEPT ![k] = to]

WorkTest(k) ==
  /\ WorkGoto(k, "loop", IF work_loop THEN "get" ELSE "ended")
  /\ UNCHANGED empty_thread
  /\ Work

\* A task to run, or none; after a second without any it waits.
get_task(k) ==
  /\ \E to \in {"run", "loop", "doze"} : WorkGoto(k, "get", to)
  /\ UNCHANGED empty_thread
  /\ Work

RunTask(k) ==
  /\ WorkGoto(k, "run", "loop")
  /\ UNCHANGED empty_thread
  /\ Work

Doze(k) ==
  /\ WorkGoto(k, "doze", "wait")
  /\ empty_thread' = FALSE
  /\ Work

Wait(k) ==
  /\ WorkGoto(k, "wait", "loop")
  /\ empty_thread
  /\ UNCHANGED empty_thread
  /\ Work

Worker(k) == WorkTest(k) \/ get_task(k) \/ RunTask(k) \/ Doze(k) \/ Wait(k)

-----------------------------------------------------------------------------
\* off(), finish_loop() and the destructor

Off == UNCHANGED <<onVars, th, th_worker, pollVars, wpc, empty_thread, paired>>

\* One call of off() at a time, the destructor's is the last.
CallOff ==
  /\ off_pc = "idle" /\ offs < MaxOff /\ ~destroying
  /\ offs' = offs + 1 /\ off_pc' = "work_loop"
  /\ destroying' \in BOOLEAN
  /\ paired' = (paired /\ on_pc = "idle" /\ ons = offs + 1)
  /\ UNCHANGED <<onVars, work_loop, th, th_worker, joined, deleted, pollVars, wpc,
                 empty_thread, crashed>>

\* Mutant: the threads are not told.
ClearWorkLoopNever ==
  /\ off_pc = "work_loop" /\ off_pc' = "join"
  /\ UNCHANGED <<work_loop, offs, joined, deleted, destroying, crashed>>
  /\ Off

ClearWorkLoop ==
  /\ off_pc = "work_loop" /\ off_pc' = "join"
  /\ work_loop' = FALSE
  /\ UNCHANGED <<offs, joined, deleted, destroying, crashed>>
  /\ Off

\* The std::thread that a pointer points to, and whether it is there.
Object(p) == IF p = "th" THEN <<p, th>> ELSE <<p, th_worker>>
There(p) == Object(p)[2] # 0 /\ Object(p) \notin deleted
Ended(p) == LET k == Object(p)[2] IN IF p = "th" THEN ppc[k] = "ended" ELSE wpc[k] = "ended"

\* Mutants: a thread is only detached; one that is gone is passed over.
JoinDetaches(p, from, to) ==
  /\ off_pc = from
  /\ \/ /\ There(p) /\ Object(p) \notin joined
        /\ joined' = joined \cup {Object(p)}
        /\ off_pc' = to
        /\ crashed' = crashed
     \/ /\ ~There(p) \/ Object(p) \in joined
        /\ crashed' = TRUE
        /\ UNCHANGED <<joined, off_pc>>
  /\ UNCHANGED <<work_loop, offs, deleted, destroying>>
  /\ Off

JoinPasses(p, from, to) ==
  /\ off_pc = from
  /\ \/ /\ There(p) /\ Object(p) \notin joined /\ Ended(p)
        /\ joined' = joined \cup {Object(p)}
        /\ off_pc' = to
     \/ /\ ~There(p) \/ Object(p) \in joined
        /\ off_pc' = "exit" /\ joined' = joined
  /\ UNCHANGED <<work_loop, offs, deleted, destroying, crashed>>
  /\ Off

Join(p, from, to) ==
  /\ off_pc = from
  /\ \/ /\ There(p) /\ Object(p) \notin joined /\ Ended(p)
        /\ joined' = joined \cup {Object(p)}
        /\ off_pc' = to
        /\ crashed' = crashed
     \/ /\ ~There(p) \/ Object(p) \in joined
        /\ crashed' = TRUE
        /\ UNCHANGED <<joined, off_pc>>
  /\ UNCHANGED <<work_loop, offs, deleted, destroying>>
  /\ Off

\* on() may have put another thread there since the join.
Delete(p, from, to) ==
  /\ off_pc = from
  /\ \/ /\ There(p) /\ Object(p) \in joined
        /\ deleted' = deleted \cup {Object(p)}
        /\ off_pc' = to
        /\ crashed' = crashed
     \/ /\ ~There(p) \/ Object(p) \notin joined
        /\ crashed' = TRUE
        /\ UNCHANGED <<deleted, off_pc>>
  /\ UNCHANGED <<work_loop, offs, joined, destroying>>
  /\ Off

\* Mutant: the threads are deleted in front of the joins.
finish_loop_deletes ==
  \/ ClearWorkLoop
  \/ Delete("th", "join", "join_worker") \/ Delete("th_worker", "join_worker", "delete")
  \/ Join("th", "delete", "delete_worker") \/ Join("th_worker", "delete_worker", "exit")

finish_loop ==
  \/ ClearWorkLoop
  \/ Join("th", "join", "join_worker") \/ Join("th_worker", "join_worker", "delete")
  \/ Delete("th", "delete", "delete_worker") \/ Delete("th_worker", "delete_worker", "exit")

\* exit() of each connection repeats its call until the peer says something.
\* After that the destructor's off() is the end of the manager.
exit ==
  /\ off_pc = "exit" /\ off_pc' = "idle"
  /\ UNCHANGED <<work_loop, offs, joined, deleted, destroying, crashed>>
  /\ Off

Running(k) == ppc[k] \notin {"none", "ended"} \/ wpc[k] \notin {"none", "ended"}

\* The members of a destroyed manager are used.
UseAfterDestruction ==
  /\ Destroyed
  /\ on_pc # "idle" \/ \E k \in Pairs : Running(k)
  /\ crashed' = TRUE
  /\ UNCHANGED <<onVars, offVars, work_loop, th, th_worker, pollVars, wpc, empty_thread, paired>>

-----------------------------------------------------------------------------
\* Who may hang: a call of on() or off(), and the threads of each pair

OnCall == <<"on", 0>>
OffCall == <<"off", 0>>
Poller(k) == <<"loop", k>>
WorkerOf(k) == <<"worker", k>>
Actors == {OnCall, OffCall} \cup ({"loop", "worker"} \X Pairs)

\* Scopes can have overlapped: one pair is there, or on() and off() are.
Met == \/ \E k \in Pairs : ppc[k] # "none"
       \/ on_pc # "idle" /\ off_pc # "idle"

\* The scopes of mt_n at the head of on(), get_myid(), start_loop(), off(),
\* finish_loop(), exit() and getevent(), and what the worker's calls take.
Locks(a) ==
  \/ a = OnCall /\ on_pc \in {"getid", "work_loop"}
  \/ a = OffCall /\ off_pc \in {"work_loop", "exit"}
  \/ \E k \in Pairs : a = Poller(k) /\ ppc[k] = "getevent"
  \/ \E k \in Pairs : a = WorkerOf(k) /\ wpc[k] \in {"get", "run"}

\* It finds n = 0 and mt locked: by a state that two overlapping unlock() calls
\* left, or by an off() that took mt after n was read and now joins this thread.
Hang(a) ==
  /\ a \notin hung /\ Met /\ Locks(a)
  /\ hung' = hung \cup {a}
  /\ UNCHANGED lifeVars

\* What the threads and a call of off() do of themselves.
Threads ==
  \/ \E k \in Pairs : \/ Poller(k) \notin hung /\ Loop(k)
                      \/ WorkerOf(k) \notin hung /\ Worker(k)
  \/ OffCall \notin hung /\ finish_loop

Calls == \/ CallOn \/ CallOff
         \/ OnCall \notin hung /\ On
         \/ OffCall \notin hung /\ exit

Next ==
  /\ ~crashed
  /\ \/ UseAfterDestruction /\ hung' = hung
     \/ ~Destroyed /\ (Calls \/ Threads) /\ hung' = hung
     \/ ~Destroyed /\ \E a \in Actors : Hang(a)

Spec == Init /\ [][Next]_vars

\* Threads that can run are scheduled, handlers return and calls to peers end.
\* Nothing is assumed of a thread that hangs: it cannot take a step.
FairSpec ==
  /\ Spec
  /\ \A k \in Pairs : WF_vars(Next /\ Loop(k)) /\ WF_vars(Next /\ Worker(k))
  /\ WF_vars(Next /\ finish_loop)

-----------------------------------------------------------------------------
(* Properties *)

TypeOK ==
  /\ ons \in 0..MaxOn
  /\ on_pc \in {"idle", "getid", "work_loop", "th", "th_worker"}
  /\ offs \in 0..MaxOff
  /\ off_pc \in {"idle", "work_loop", "join", "join_worker", "delete", "delete_worker", "exit"}
  /\ work_loop \in BOOLEAN
  /\ th \in 0..ons /\ th_worker \in 0..ons
  /\ joined \subseteq Objects
  /\ deleted \subseteq joined
  /\ ppc \in [Pairs -> {"none", "loop", "getevent", "ended"}]
  /\ conn \in [Pairs -> Nat]
  /\ wpc \in [Pairs -> {"none", "loop", "get", "run", "doze", "wait", "ended"}]
  /\ empty_thread \in BOOLEAN
  /\ destroying \in BOOLEAN
  /\ crashed \in BOOLEAN
  /\ paired \in BOOLEAN
  /\ hung \subseteq Actors

\* If each off() is called once after its on() has returned, nothing undefined
\* happens: the destructor counts as such a call, so that a manager that was
\* switched off by stop_server() is not one of these.
SafeIfPaired == paired => ~crashed

\* When such an off() has stopped the threads none is left running, and so none
\* outlives the manager.
OffStopsThreads ==
  paired /\ ~crashed /\ (off_pc = "exit" \/ Destroyed) =>
     /\ on_pc = "idle"
     /\ \A k \in Pairs : ~Running(k)

Deleted(p) == {k \in Pairs : <<p, k>> \in deleted}

\* However on() and off() are called, an off() that gets past finish_loop() has
\* ended a pair of threads of its own: a second off() after one on() never
\* returns, and a destructor after stop_server() does not either.
EachOffEndsAPair ==
  ~crashed /\ off_pc \in {"idle", "exit"} =>
     /\ offs = Cardinality(Deleted("th"))
     /\ offs = Cardinality(Deleted("th_worker"))

\* off() waits for a worker that waits to be woken, and no poll is left to do it.
Lost ==
  /\ off_pc \in {"join", "join_worker"}
  /\ on_pc = "idle"
  /\ th_worker # 0 /\ wpc[th_worker] = "wait" /\ ~empty_thread
  /\ \A k \in Pairs : ppc[k] \in {"none", "ended"}

\* off() itself, or a thread it is to join, hangs in a lock().
Hangs == hung \cap {OffCall, Poller(ons), WorkerOf(ons)} # {}

\* off() gets through finish_loop() unless it is lost in this way or mutex_n hangs
\* a thread of its own pair, or off() itself: no thread sees work_loop too late,
\* and neither an on() that hangs nor a pair that ended before can keep it.
OffEndsOrLost ==
  paired /\ off_pc = "work_loop" ~> ~paired \/ off_pc = "exit" \/ Lost \/ Hangs

\* A worker that goes to sleep after the last poll is never woken, and off()
\* never returns, unless on() is called meanwhile.
LostIsForever == [][Lost /\ ons' = ons => Lost']_vars
-----------------------------------------------------------------------------
(* The inductive invariant the proofs use *)

\* In paired use one pair of threads at most is alive, the last: on() is
\* creating it, or off() is at a certain point of ending it.
PairedInv ==
  /\ ~crashed
  /\ off_pc = "idle" => ons \in {offs, offs + 1}
  /\ off_pc # "idle" => on_pc = "idle" /\ ons = offs /\ ons > 0
  /\ on_pc # "idle" => ons = offs + 1
  /\ ons = offs + 1 => ~destroying
  /\ on_pc \in {"idle", "th_worker"} => th = ons
  /\ on_pc = "idle" => th_worker = ons
  /\ \A k \in Pairs : k # ons => ~Running(k)
  /\ \A k \in Pairs : k > ons => ppc[k] = "none" /\ wpc[k] = "none"
  /\ ons > 0 /\ on_pc \in {"getid", "work_loop", "th"} => ppc[ons] = "none"
  /\ ons > 0 /\ on_pc # "idle" => wpc[ons] = "none"
  /\ ons > 0 /\ off_pc \in {"join_worker", "delete", "delete_worker", "exit"} => ppc[ons] = "ended"
  /\ ons > 0 /\ off_pc \in {"delete", "delete_worker", "exit"} => wpc[ons] = "ended"
  /\ ons > 0 /\ off_pc = "idle" /\ ons = offs => ppc[ons] = "ended" /\ wpc[ons] = "ended"

\* What of the last pair is joined and deleted then.
ObjectInv ==
  LET ending == off_pc # "idle" \/ ons = offs
  IN /\ \A o \in joined : o[2] <= ons
     /\ <<"th", ons>> \in joined => ending /\ off_pc \notin {"work_loop", "join"}
     /\ <<"th_worker", ons>> \in joined => ending /\ off_pc \notin {"work_loop", "join", "join_worker"}
     /\ off_pc \in {"join_worker", "delete"} => <<"th", ons>> \in joined \ deleted
     /\ off_pc \in {"delete", "delete_worker"} => <<"th_worker", ons>> \in joined \ deleted

\* Each call of off() has deleted one object of each kind, or is about to.
CountInv ==
  /\ Cardinality(Deleted("th")) =
       IF off_pc \in {"idle", "exit", "delete_worker"} THEN offs ELSE offs - 1
  /\ Cardinality(Deleted("th_worker")) =
       IF off_pc \in {"idle", "exit"} THEN offs ELSE offs - 1

IInv ==
  /\ TypeOK
  /\ CountInv
  /\ paired => PairedInv /\ ObjectInv
=============================================================================
