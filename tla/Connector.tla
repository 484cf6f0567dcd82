------------------------------ MODULE Connector ------------------------------
(***************************************************************************)
(* connector::connector_manager (connector_manager.h:391-960), the client  *)
(* part of a node: the thread loop() polls the peers for waiting events    *)
(* into the buffer of manager_task, the thread worker_task() takes them    *)
(* out, asks the peer for each with a start call and runs the handler of a *)
(* request or the callback that send() left for a response.                *)
(*                                                                         *)
(* connector::mutex_n counts the lock() calls of all threads in one        *)
(* variable, so whoever comes while it is held passes: it keeps no two     *)
(* threads apart.  The threads here interleave slot by slot, and may hang: *)
(* two unlock() calls that overlap can leave the inner std::mutex locked.  *)
(* What a data race on a slot can do besides that is end the process.      *)
(*                                                                         *)
(* The peers are external: they list the waiting events of the group,      *)
(* start an event for one caller only, and forget it when it is finished.  *)
(* Every event carries "data".                                             *)
(***************************************************************************)
EXTENDS Integers, Sequences, FiniteSets

CONSTANTS
  Peers,         \* number of connections
  Ids, NoId,     \* event ids (hash_event of a peer), and none
  Home,          \* Home[id]: the connection whose peer has the event
  Kind,          \* Kind[id]: how worker_task treats the event
  Returns, NoReturn,  \* respon_id values of requests sent, and none
  Respon,        \* Respon[id]: the request that a response answers
  InitialSlots,  \* slots of a new buffer (25 in the code)
  MaxLost,       \* bound on calls that fail
  MaxPosts,      \* bound on events posted
  MayHang        \* whether the threads may hang in connector::mutex_n

\* For this node: a response, a request with a handler or without one, any
\* other $type_event; or not for this node.
Kinds == {"res", "req", "unhandled", "other", "transfer"}

ASSUME ConnectorAssumption ==
  /\ Peers \in Nat \ {0}
  /\ IsFiniteSet(Ids)
  /\ NoId \notin Ids
  /\ NoReturn \notin Returns
  /\ Home \in [Ids -> 1..Peers]
  /\ Kind \in [Ids -> Kinds]
  /\ \A id \in Ids : Kind[id] = "res" => Respon[id] \in Returns
  /\ InitialSlots \in Nat
  /\ MaxLost \in Nat
  /\ MaxPosts \in Nat
  /\ MayHang \in BOOLEAN

VARIABLES
  board,         \* board[id]: what the peer says of the event
  winner,        \* history: who got the answer 0 to a start call, by id
  lost,          \* calls that failed
  buffer,        \* manager_task::buffer
  empty_thread,  \* connector_manager::empty_thread
  ppc,           \* where loop() is
  conn,          \* index of the connection it is at
  answers,       \* answers[c]: ids in respon_str; none for "{}", "$error", no answer
  todo,          \* ids of the answer it has not come to yet
  cur,           \* id it is checking or adding
  pslot,         \* its index into buffer
  wpc,           \* where worker_task() is
  task,          \* id in its json
  wslot,         \* its index into buffer
  returns,       \* manager_returns::returns
  ran,           \* history: how often a handler or callback ran, by id
  fired,         \* history: how often the callback of a request sent was called
  sent,          \* requests sent
  app,           \* the one that send() has not yet added to returns
  hung           \* threads wait for a mutex that nobody will unlock

peerVars == <<board, winner>>
pollVars == <<ppc, conn, answers, todo, cur, pslot>>
workVars == <<wpc, task, wslot>>
runVars == <<returns, ran, fired>>
sendVars == <<sent, app>>
vars == <<peerVars, lost, buffer, empty_thread, pollVars, workVars, runVars,
          sendVars, hung>>

Slot == [id : Ids \cup {NoId}, note : BOOLEAN, empty : BOOLEAN]

\* init_task(), and the initialisers of struct task.
EmptySlot == [id |-> NoId, note |-> FALSE, empty |-> TRUE]

Init ==
  /\ board = [id \in Ids |-> "unposted"]
  /\ winner = [id \in Ids |-> "nobody"]
  /\ lost = 0
  /\ buffer = [j \in 1..InitialSlots |-> EmptySlot]
  /\ empty_thread = FALSE
  /\ ppc = "fetch" /\ conn = 1
  /\ answers = [c \in 1..Peers |-> {}]
  /\ todo = {} /\ cur = NoId /\ pslot = 1
  /\ wpc = "get" /\ task = NoId /\ wslot = 1
  /\ returns = {}
  /\ ran = [id \in Ids |-> 0]
  /\ fired = [r \in Returns |-> 0]
  /\ sent = {} /\ app = NoReturn
  /\ hung = FALSE

-----------------------------------------------------------------------------
\* The peers and their other clients

Post(id) ==
  /\ board[id] = "unposted"
  /\ Cardinality({i \in Ids : board[i] # "unposted"}) < MaxPosts
  /\ Kind[id] = "res" => Respon[id] \in sent
  /\ board' = [board EXCEPT ![id] = "waiting"]
  /\ winner' = winner

OtherStarts(id) ==
  /\ board[id] = "waiting"
  /\ board' = [board EXCEPT ![id] = "started"]
  /\ winner' = [winner EXCEPT ![id] = "other"]

\* Finished, or cleared: then it waits again, under an id of its own.
OtherEnds(id) ==
  /\ board[id] \in {"waiting", "started"}
  /\ board' = [board EXCEPT ![id] = "ended"]
  /\ winner' = winner

Environment ==
  /\ \E id \in Ids : Post(id) \/ OtherStarts(id) \/ OtherEnds(id)
  /\ UNCHANGED <<lost, buffer, empty_thread, pollVars, workVars, runVars,
                 sendVars, hung>>

Listed(c) == {id \in Ids : Home[id] = c /\ board[id] = "waiting"}

CallFails == lost < MaxLost /\ lost' = lost + 1

CallSucceeds == lost' = lost

-----------------------------------------------------------------------------
\* loop() and getevent()

Holds(j, id) == ~buffer[j].empty /\ buffer[j].id = id

\* Rounds over the connections are repeated until every call succeeds or time
\* is up.  Only the last round counts: it overwrites what the others left.
Fetch ==
  /\ ppc = "fetch"
  /\ \/ CallSucceeds /\ answers' = [answers EXCEPT ![conn] = Listed(conn)]
     \/ CallFails /\ answers' = [answers EXCEPT ![conn] = {}]
  /\ \/ conn = Peers /\ conn' = 1 /\ ppc' = "take"
     \/ conn # Peers /\ conn' = conn + 1 /\ ppc' = ppc
  /\ UNCHANGED <<peerVars, buffer, empty_thread, todo, cur, pslot, workVars,
                 runVars, sendVars, hung>>

Poll == UNCHANGED <<peerVars, lost, workVars, runVars, sendVars, hung>>

NextConnection ==
  \/ conn = Peers /\ conn' = 1 /\ ppc' = "fetch"
  \/ conn # Peers /\ conn' = conn + 1 /\ ppc' = "take"

\* A connection without events is skipped, sweep and wake-up included.
Take ==
  /\ ppc = "take"
  /\ \/ answers[conn] = {} /\ NextConnection /\ UNCHANGED todo
     \/ answers[conn] # {} /\ ppc' = "next" /\ todo' = answers[conn] /\ UNCHANGED conn
  /\ UNCHANGED <<buffer, empty_thread, answers, cur, pslot>>
  /\ Poll

\* Mutant: an id is looked at again and again.
NextIdKeeps ==
  /\ ppc = "next"
  /\ \/ \E id \in todo : cur' = id /\ ppc' = "check"
     \/ ppc' = "sweep" /\ cur' = cur
  /\ pslot' = 1
  /\ UNCHANGED <<buffer, empty_thread, conn, answers, todo>>
  /\ Poll

NextId ==
  /\ ppc = "next"
  /\ \/ \E id \in todo : cur' = id /\ todo' = todo \ {id} /\ ppc' = "check"
     \/ todo = {} /\ ppc' = "sweep" /\ UNCHANGED <<cur, todo>>
  /\ pslot' = 1
  /\ UNCHANGED <<buffer, empty_thread, conn, answers>>
  /\ Poll

\* On to the next id of the answer.
IdDone == ppc' = "next" /\ cur' = NoId /\ pslot' = 1

check_id ==
  /\ ppc = "check"
  /\ \/ /\ pslot \in DOMAIN buffer
        /\ Holds(pslot, cur)
        /\ buffer' = [buffer EXCEPT ![pslot].note = TRUE]
        /\ IdDone
     \/ /\ pslot \in DOMAIN buffer
        /\ ~Holds(pslot, cur)
        /\ pslot' = pslot + 1
        /\ UNCHANGED <<buffer, ppc, cur>>
     \/ /\ pslot \notin DOMAIN buffer
        /\ ppc' = "add" /\ pslot' = 1
        /\ UNCHANGED <<buffer, cur>>
  /\ UNCHANGED <<empty_thread, conn, answers, todo>>
  /\ Poll

\* Mutant: a new task is not noted.
add_unnoted ==
  /\ ppc = "add"
  /\ \/ /\ pslot \in DOMAIN buffer /\ buffer[pslot].empty
        /\ buffer' = [buffer EXCEPT ![pslot] = [id |-> cur, note |-> FALSE, empty |-> FALSE]]
        /\ IdDone
     \/ /\ pslot \in DOMAIN buffer /\ ~buffer[pslot].empty
        /\ pslot' = pslot + 1
        /\ UNCHANGED <<buffer, ppc, cur>>
     \/ pslot \notin DOMAIN buffer /\ IdDone /\ buffer' = buffer
  /\ UNCHANGED <<empty_thread, conn, answers, todo>>
  /\ Poll

\* Mutant: every new task gets a new slot.
add_grows ==
  /\ ppc = "add"
  /\ IdDone
  /\ buffer' = Append(buffer, [id |-> cur, note |-> TRUE, empty |-> FALSE])
  /\ UNCHANGED <<empty_thread, conn, answers, todo>>
  /\ Poll

\* A full buffer grows by the new task, which stays marked as empty: the slot
\* is there for the next poll, and the task is not.
add ==
  /\ ppc = "add"
  /\ \/ /\ pslot \in DOMAIN buffer
        /\ buffer[pslot].empty
        /\ buffer' = [buffer EXCEPT ![pslot] = [id |-> cur, note |-> TRUE, empty |-> FALSE]]
        /\ IdDone
     \/ /\ pslot \in DOMAIN buffer
        /\ ~buffer[pslot].empty
        /\ pslot' = pslot + 1
        /\ UNCHANGED <<buffer, ppc, cur>>
     \/ /\ pslot \notin DOMAIN buffer
        /\ buffer' = Append(buffer, [id |-> cur, note |-> TRUE, empty |-> TRUE])
        /\ IdDone
  /\ UNCHANGED <<empty_thread, conn, answers, todo>>
  /\ Poll

\* All tasks the answer did not name go, those of other connections included.
delete_notnote ==
  /\ ppc = "sweep"
  /\ \/ /\ pslot \in DOMAIN buffer
        /\ buffer' = IF ~buffer[pslot].empty /\ ~buffer[pslot].note
                     THEN [buffer EXCEPT ![pslot] = EmptySlot] ELSE buffer
        /\ pslot' = pslot + 1
        /\ ppc' = ppc
     \/ /\ pslot \notin DOMAIN buffer
        /\ ppc' = "unnote" /\ pslot' = 1
        /\ buffer' = buffer
  /\ UNCHANGED <<empty_thread, conn, answers, todo, cur>>
  /\ Poll

note_all ==
  /\ ppc = "unnote"
  /\ \/ /\ pslot \in DOMAIN buffer
        /\ buffer' = IF buffer[pslot].empty THEN buffer
                     ELSE [buffer EXCEPT ![pslot].note = FALSE]
        /\ pslot' = pslot + 1
        /\ ppc' = ppc
     \/ /\ pslot \notin DOMAIN buffer
        /\ ppc' = "wake" /\ pslot' = 1
        /\ buffer' = buffer
  /\ UNCHANGED <<empty_thread, conn, answers, todo, cur>>
  /\ Poll

\* Mutant: nobody is notified.
WakeNobody ==
  /\ ppc = "wake"
  /\ NextConnection
  /\ answers' = [answers EXCEPT ![conn] = {}]
  /\ UNCHANGED <<buffer, empty_thread, todo, cur, pslot>>
  /\ Poll

\* The answer is not looked at again.
Wake ==
  /\ ppc = "wake"
  /\ empty_thread' = TRUE
  /\ NextConnection
  /\ answers' = [answers EXCEPT ![conn] = {}]
  /\ UNCHANGED <<buffer, todo, cur, pslot>>
  /\ Poll

Loop ==
  \/ Fetch \/ Take \/ NextId \/ check_id \/ add \/ delete_notnote \/ note_all \/ Wake

-----------------------------------------------------------------------------
\* worker_task()

Work == UNCHANGED <<pollVars, sendVars, hung>>

\* No task: go on looking, or, when a second has passed since the last one,
\* wait to be woken.
Idle ==
  /\ wslot' = 1
  /\ \/ wpc' = "get" /\ empty_thread' = empty_thread
     \/ wpc' = "wait" /\ empty_thread' = FALSE

get_task ==
  /\ wpc = "get"
  /\ \/ /\ wslot \in DOMAIN buffer
        /\ buffer[wslot].empty
        /\ wslot' = wslot + 1
        /\ UNCHANGED <<wpc, empty_thread>>
     \/ /\ wslot \in DOMAIN buffer
        /\ ~buffer[wslot].empty
        /\ wpc' = "copy"
        /\ UNCHANGED <<wslot, empty_thread>>
     \/ wslot \notin DOMAIN buffer /\ Idle
  /\ UNCHANGED <<peerVars, lost, buffer, task, runVars>>
  /\ Work

\* The poll may have emptied the slot meanwhile.
Copy ==
  /\ wpc = "copy"
  /\ \/ buffer[wslot].id = NoId /\ Idle /\ task' = task
     \/ /\ buffer[wslot].id # NoId
        /\ task' = buffer[wslot].id
        /\ wpc' = "judge" /\ wslot' = 1
        /\ empty_thread' = empty_thread
  /\ UNCHANGED <<peerVars, lost, buffer, runVars>>
  /\ Work

Wait ==
  /\ wpc = "wait"
  /\ empty_thread
  /\ wpc' = "get"
  /\ UNCHANGED <<peerVars, lost, buffer, empty_thread, task, wslot, runVars>>
  /\ Work

\* The end of a round of worker_task(), where json goes out of scope.
TaskDone == wpc' = "get" /\ task' = NoId /\ wslot' = 1

\* An event of another $type_event stays where it is; handle_transfer() has no
\* statements.
Judge ==
  /\ wpc = "judge"
  /\ \/ /\ Kind[task] \in {"res", "req"}
        /\ wpc' = "start"
        /\ UNCHANGED <<task, wslot>>
     \/ /\ Kind[task] \in {"unhandled", "transfer"}
        /\ wpc' = "delete"
        /\ UNCHANGED <<task, wslot>>
     \/ Kind[task] = "other" /\ TaskDone
  /\ UNCHANGED <<peerVars, lost, buffer, empty_thread, runVars>>
  /\ Work

Started == /\ board' = [board EXCEPT ![task] = "started"]
           /\ winner' = [winner EXCEPT ![task] = "us"]

\* Mutant: the answer to the start call is not looked at.
start_event_unchecked ==
  /\ wpc = "start"
  /\ \/ board[task] = "waiting" /\ Started /\ CallSucceeds
     \/ board[task] # "waiting" /\ UNCHANGED peerVars /\ CallSucceeds
     \/ CallFails /\ UNCHANGED peerVars
  /\ wpc' = "call"
  /\ UNCHANGED <<buffer, empty_thread, task, wslot, runVars>>
  /\ Work

\* The call, its answer, or neither is lost.
start_event ==
  /\ wpc = "start"
  /\ \/ /\ board[task] = "waiting"
        /\ Started /\ CallSucceeds
        /\ wpc' = "call"
     \/ /\ board[task] # "waiting"
        /\ UNCHANGED peerVars /\ CallSucceeds
        /\ wpc' = "delete"
     \/ /\ CallFails
        /\ (board[task] = "waiting" /\ Started) \/ UNCHANGED peerVars
        /\ wpc' = "delete"
  /\ UNCHANGED <<buffer, empty_thread, task, wslot, runVars>>
  /\ Work

\* Mutant: a response that answers no request is not finished.
CallBackOnly ==
  /\ wpc = "call"
  /\ ran' = [ran EXCEPT ![task] = @ + 1]
  /\ \/ /\ Kind[task] = "res" /\ Respon[task] \in returns
        /\ returns' = returns \ {Respon[task]}
        /\ fired' = [fired EXCEPT ![Respon[task]] = @ + 1]
        /\ wpc' = "end"
     \/ /\ Kind[task] = "res" => Respon[task] \notin returns
        /\ UNCHANGED <<returns, fired>>
        /\ wpc' = "delete"
  /\ UNCHANGED <<peerVars, lost, buffer, empty_thread, task, wslot>>
  /\ Work

\* The handler of a request, or manager_returns::call() for a response: it
\* calls the callback of the request answered and frees its entry.
CallBack ==
  /\ wpc = "call"
  /\ ran' = [ran EXCEPT ![task] = @ + 1]
  /\ \/ /\ Kind[task] = "res" /\ Respon[task] \in returns
        /\ returns' = returns \ {Respon[task]}
        /\ fired' = [fired EXCEPT ![Respon[task]] = @ + 1]
     \/ /\ Kind[task] = "res" => Respon[task] \notin returns
        /\ UNCHANGED <<returns, fired>>
  /\ wpc' = "end"
  /\ UNCHANGED <<peerVars, lost, buffer, empty_thread, task, wslot>>
  /\ Work

\* Nobody looks at the answer.
end_event ==
  /\ wpc = "end"
  /\ \/ CallSucceeds /\ board' = [board EXCEPT ![task] = "ended"]
     \/ CallFails /\ (board' = board \/ board' = [board EXCEPT ![task] = "ended"])
  /\ wpc' = "delete"
  /\ UNCHANGED <<winner, buffer, empty_thread, task, wslot, runVars>>
  /\ Work

delete_object ==
  /\ wpc = "delete"
  /\ \/ /\ wslot \in DOMAIN buffer
        /\ Holds(wslot, task)
        /\ wpc' = "init"
        /\ UNCHANGED <<task, wslot>>
     \/ /\ wslot \in DOMAIN buffer
        /\ ~Holds(wslot, task)
        /\ wslot' = wslot + 1
        /\ UNCHANGED <<wpc, task>>
     \/ wslot \notin DOMAIN buffer /\ TaskDone
  /\ UNCHANGED <<peerVars, lost, buffer, empty_thread, runVars>>
  /\ Work

\* Whatever the poll has put there meanwhile goes too.
init_task ==
  /\ wpc = "init"
  /\ buffer' = [buffer EXCEPT ![wslot] = EmptySlot]
  /\ TaskDone
  /\ UNCHANGED <<peerVars, lost, empty_thread, runVars>>
  /\ Work

Worker ==
  \/ get_task \/ Copy \/ Wait \/ Judge \/ start_event \/ CallBack \/ end_event
  \/ delete_object \/ init_task

-----------------------------------------------------------------------------
\* send(): the callback is added when the peer has the request already.

send ==
  /\ \/ \E r \in Returns \ sent : app = NoReturn /\ app' = r /\ sent' = sent \cup {r}
                                  /\ returns' = returns
     \/ /\ app # NoReturn
        /\ returns' = returns \cup {app}
        /\ app' = NoReturn
        /\ sent' = sent
  /\ UNCHANGED <<peerVars, lost, buffer, empty_thread, pollVars, workVars, ran,
                 fired, hung>>

\* Possible whenever both threads are about, in unlock() of one mutex.
Hang ==
  /\ MayHang
  /\ wpc # "wait"
  /\ hung' = TRUE
  /\ UNCHANGED <<peerVars, lost, buffer, empty_thread, pollVars, workVars,
                 runVars, sendVars>>

Next == Environment \/ (~hung /\ (Loop \/ Worker \/ send \/ Hang))

Spec == Init /\ [][Next]_vars

\* Both threads are scheduled as long as they can run.
FairSpec == Spec /\ WF_vars(~hung /\ Loop) /\ WF_vars(~hung /\ Worker)

-----------------------------------------------------------------------------
(* Properties *)

TypeOK ==
  /\ board \in [Ids -> {"unposted", "waiting", "started", "ended"}]
  /\ winner \in [Ids -> {"nobody", "us", "other"}]
  /\ lost \in 0..MaxLost
  /\ buffer \in Seq(Slot)
  /\ empty_thread \in BOOLEAN
  /\ ppc \in {"fetch", "take", "next", "check", "add", "sweep", "unnote", "wake"}
  /\ conn \in 1..Peers
  /\ answers \in [1..Peers -> SUBSET Ids]
  /\ todo \subseteq answers[conn]
  /\ cur \in Ids \cup {NoId}
  /\ ppc \in {"check", "add"} => cur \in answers[conn]
  /\ pslot \in 1..(Len(buffer) + 1)
  /\ wpc \in {"get", "copy", "wait", "judge", "start", "call", "end", "delete", "init"}
  /\ task \in Ids \cup {NoId}
  /\ wpc \in {"judge", "start", "call", "end", "delete", "init"} => task \in Ids
  /\ wslot \in 1..(Len(buffer) + 1)
  /\ wpc \in {"copy", "init"} => wslot \in DOMAIN buffer
  /\ returns \subseteq sent
  /\ ran \in [Ids -> Nat]
  /\ fired \in [Returns -> Nat]
  /\ sent \subseteq Returns
  /\ app \in sent \cup {NoReturn}
  /\ hung \in BOOLEAN

\* No event is run twice or without having been given to this node, although
\* polls list it again after its task is gone and other nodes take it.
RunsOnce ==
  \A id \in Ids : ran[id] <= 1 /\ (ran[id] = 1 => winner[id] = "us")

\* A node takes no event it cannot run away from those that can: it asks for
\* one only when it has the handler, and leaves the rest on the board.
TakesOnlyWhatItRuns ==
  \A id \in Ids : winner[id] = "us" => Kind[id] \in {"res", "req"}

\* What this node took and is not working on, and is not finished at the peer.
Stranded ==
  {id \in Ids : /\ winner[id] = "us" /\ board[id] = "started"
                /\ ~(wpc \in {"call", "end"} /\ task = id)}

\* An event this node was given stays unfinished, and out of reach of the other
\* workers, only if a call was lost: at most one event per lost call.
StrandedByLostCalls == Cardinality(Stranded) <= lost

\* The callback of a request is called once at most, however many events
\* answer it.
FiredOnce == \A r \in Returns : fired[r] <= 1

\* Looking for an id slot by slot and adding it later leaves no task in the
\* buffer twice, although the worker empties slots meanwhile.
NoDuplicateTasks ==
  \A j, k \in DOMAIN buffer :
     Holds(j, buffer[k].id) /\ Holds(k, buffer[k].id) => j = k

\* After a sweep the buffer has nothing that the answer did not list: a note
\* of an earlier poll never keeps a task.
SweepLeavesListed ==
  ppc \in {"unnote", "wake"} =>
     \A j \in DOMAIN buffer : ~buffer[j].empty => buffer[j].id \in answers[conn]

\* The sweep takes no task that the answer lists, wherever the worker's
\* deletions have left the slots.
SweepSparesListed ==
  [][\A j \in DOMAIN buffer :
        delete_notnote /\ ~buffer[j].empty /\ buffer[j].id \in answers[conn]
          => buffer'[j] = buffer[j]]_vars

\* The buffer grows only as far as distinct events fill it, although a full one
\* grows without taking the task.
BufferBounded == Len(buffer) <= InitialSlots \/ Len(buffer) <= Cardinality(Ids)

\* With one connection, events the worker takes and finitely many failing calls,
\* a waiting event is taken by somebody in the end, unless the threads hang: no
\* wake-up is lost for good and no task is dropped for good.
WaitingIsTaken ==
  ([]~hung) => \A id \in Ids : board[id] = "waiting" ~> board[id] # "waiting"

-----------------------------------------------------------------------------
(* The inductive invariant the proofs use *)

Full(j) == j \in DOMAIN buffer /\ ~buffer[j].empty

\* The ids of the answer that the poll has dealt with.
Done == answers[conn] \ (todo \cup {cur})

\* What the poll knows of the id it is at: not in the slots it has looked at.
ScanInv ==
  /\ ppc \in {"check", "add"} => cur \notin todo
  /\ ppc \notin {"check", "add"} => cur = NoId
  /\ ppc \notin {"next", "check", "add"} => todo = {}
  /\ ppc = "check" => \A j \in 1..(pslot - 1) : ~Holds(j, cur)
  /\ ppc = "add" => \A j \in DOMAIN buffer : ~Holds(j, cur)

\* What the notes of the tasks say, phase by phase.
NoteInv ==
  \A j \in DOMAIN buffer :
     Full(j) =>
        /\ ppc \in {"fetch", "take", "wake"} => ~buffer[j].note
        /\ ppc \in {"next", "check", "add", "sweep"} =>
              (buffer[j].note <=> buffer[j].id \in Done)
        /\ ppc = "sweep" /\ j < pslot => buffer[j].note
        /\ ppc = "unnote" /\ j < pslot => ~buffer[j].note

\* An event this node was given is no longer waiting, and while the node is
\* about to run it, it has not yet.
RunInv ==
  /\ \A id \in Ids : winner[id] = "us" => board[id] \in {"started", "ended"}
  /\ wpc = "call" => winner[task] = "us" /\ ran[task] = 0

\* A callback that was called, or is not added yet, has no entry in returns.
ReturnInv ==
  /\ app \notin returns
  /\ \A r \in Returns : fired[r] > 0 => r \in sent \ (returns \cup {app})

\* The invariant that every step of the threads preserves.
IInv ==
  /\ TypeOK
  /\ ScanInv
  /\ NoteInv
  /\ NoDuplicateTasks
  /\ SweepLeavesListed
  /\ RunInv
  /\ RunsOnce
  /\ ReturnInv
  /\ FiredOnce
=============================================================================
