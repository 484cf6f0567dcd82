--------------------------- MODULE TaskerThreads ---------------------------
(***************************************************************************)
(* The handlers of server::tasker_manager as threads execute them: the     *)
(* recursive mutex tasker_manager::mt around each whole handler, and the   *)
(* mutexes mt_client and mt_event of the group inside it.  One action is   *)
(* what a thread does between two lock operations.  get_events_json takes  *)
(* the group's mutexes in the other order than the rest and builds its     *)
(* answer in a static string; looking up a group or a client and adding    *)
(* the missing one are separate steps; and a new group may move all others *)
(* to new memory.  Only mt keeps this together.                            *)
(*                                                                         *)
(* The mutexes are the recursive locks that RecursiveMutex shows mutex_n   *)
(* to be: a thread that owns one passes.  mt_var, which no thread holds    *)
(* while it takes another mutex, and mt_respon_id, which only constructors *)
(* take, are left out.                                                     *)
(***************************************************************************)
EXTENDS Integers, Sequences

CONSTANTS
  Threads, NoThread,
  Workers, Groups, NoGroup, NameServer, Messages,
  InitialSlots, MaxClock, NoHash, UnknownId, NoJson

ASSUME ThreadsAssumption ==
  /\ NoThread \notin Threads
  /\ InitialSlots \in Nat
  /\ MaxClock \in Nat

VARIABLES
  gate,           \* owner of tasker_manager::mt
  clients_group,  \* tasker_manager::clients_group
  respon,         \* static respon of get_events_json: the hashes in it
  clock, seen, status, grants,  \* as in Tasker
  pc,             \* pc[t]: where t is in its handler
  req,            \* req[t]: the request t serves
  index,          \* index[t]: the local index of the group, 0 for -1
  answer,         \* answer[t]: what t is about to return
  committed       \* history: the tables when mt was last taken

locals == <<pc, req, index, answer>>
vars == <<gate, clients_group, respon, clock, seen, status, grants, locals, committed>>

\* The group a thread finds by a name: the first, as find_group does.
IndexOf(g, i) ==
  \/ i = 0 /\ \A j \in DOMAIN clients_group : clients_group[j].group # g
  \/ /\ i \in DOMAIN clients_group
     /\ clients_group[i].group = g
     /\ \A j \in 1..(i-1) : clients_group[j].group # g

EmptyTable(slot) == [i \in 1..InitialSlots |-> slot]

\* The tables in the form Tasker gives them.
GroupNames == {clients_group[i].group : i \in DOMAIN clients_group}

ClientsOf(g) ==
  UNION {{c.clients[k] : k \in DOMAIN c.clients} :
            c \in {clients_group[i] : i \in {k \in DOMAIN clients_group : IndexOf(g, k)}}}

EventsOf(g, free) ==
  IF g \in GroupNames
  THEN clients_group[CHOOSE i \in DOMAIN clients_group : IndexOf(g, i)].events
  ELSE EmptyTable(free)

EmptySlot == [hash_event |-> NoHash, json |-> NoJson,
              count_restart |-> 0, busy |-> FALSE, process |-> FALSE]

Tables ==
  [clients_group |-> GroupNames,
   clients |-> [g \in Groups \cup {NoGroup} |-> ClientsOf(g)],
   events |-> [g \in Groups \cup {NoGroup} |-> EventsOf(g, EmptySlot)],
   clock |-> clock,
   grants |-> grants]

\* What the other threads can see of the tables: while one holds mt, the
\* state before its handler.
Visible == IF gate = NoThread THEN Tables ELSE committed

T == INSTANCE Tasker WITH
       clients_group <- Visible.clients_group,
       clients <- Visible.clients,
       events <- Visible.events,
       clock <- Visible.clock,
       grants <- Visible.grants

AllGroups == T!AllGroups

Changers == {"start_event", "clear_event", "end_event"}

\* Requests that need a new hash come only while the bound on them allows.
Requests ==
  [op : {"get_events_json"}, worker : Workers, group : Groups]
  \cup [op : IF clock < MaxClock THEN Changers ELSE Changers \ {"clear_event"},
        worker : Workers, group : Groups, id : seen \cup {UnknownId}]
  \cup {r \in [op : {"add_new_event"}, worker : Workers, group : AllGroups, ev : Messages] :
           clock < MaxClock /\ T!NextHop(r.ev.list_servers, r.group)}

NoRequest == [op |-> "none"]

NoAnswer == [status |-> 0, body |-> {}]

Init ==
  /\ gate = NoThread
  /\ clients_group = << >>
  /\ respon = {}
  /\ clock = 0
  /\ seen = {}
  /\ status = 0
  /\ grants = [id \in T!HashEvent |-> 0]
  /\ pc = [t \in Threads |-> "idle"]
  /\ req = [t \in Threads |-> NoRequest]
  /\ index = [t \in Threads |-> 0]
  /\ answer = [t \in Threads |-> NoAnswer]
  /\ committed = Tables

-----------------------------------------------------------------------------

Goto(t, from, to) ==
  /\ pc[t] = from
  /\ pc' = [pc EXCEPT ![t] = to]

\* A recursive mutex lets in its owner and, when it has none, anyone.
Passes(owner, t) == owner \in {NoThread, t}

My(t) == clients_group[index[t]]

SetMine(t, field, value) ==
  clients_group' = [clients_group EXCEPT ![index[t]] = [@ EXCEPT ![field] = value]]

\* Mutant: the handler forgets to take mt.
EnterUnlocked(t) ==
  /\ Goto(t, "idle", "find")
  /\ gate' = t
  /\ committed' = Tables
  /\ \E r \in Requests : req' = [req EXCEPT ![t] = r]
  /\ UNCHANGED <<clients_group, respon, clock, seen, status, grants, index, answer>>

\* A request reaches a thread, which takes mt for all of the handler.  Adding
\* a request that waits for mt would change nothing that others see.
Enter(t) ==
  /\ Goto(t, "idle", "find")
  /\ Passes(gate, t)
  /\ gate' = t
  /\ committed' = Tables
  /\ \E r \in Requests : req' = [req EXCEPT ![t] = r]
  /\ UNCHANGED <<clients_group, respon, clock, seen, status, grants, index, answer>>

\* find_group(), which takes mt again, and the early returns after it.
Found(t, i) ==
  \/ /\ i = 0
     /\ req[t].op \in Changers
     /\ pc' = [pc EXCEPT ![t] = "leave"]
     /\ answer' = [answer EXCEPT ![t].status = -1]
  \/ /\ i = 0
     /\ req[t].op \notin Changers
     /\ pc' = [pc EXCEPT ![t] = "create"]
     /\ answer' = answer
  \/ /\ i # 0
     /\ req[t].op = "add_new_event" /\ ~req[t].ev.respon_id
     /\ pc' = [pc EXCEPT ![t] = "leave"]
     /\ answer' = [answer EXCEPT ![t].status = -1]
  \/ /\ i # 0
     /\ req[t].op = "add_new_event" => req[t].ev.respon_id
     /\ pc' = [pc EXCEPT ![t] = IF req[t].op = "get_events_json" THEN "lock_client"
                                ELSE "lock_event"]
     /\ answer' = answer

find_group(t) ==
  /\ pc[t] = "find"
  /\ Passes(gate, t)
  /\ \E i \in 0..Len(clients_group) :
        /\ IndexOf(req[t].group, i)
        /\ index' = [index EXCEPT ![t] = i]
        /\ Found(t, i)
  /\ UNCHANGED <<gate, clients_group, respon, clock, seen, status, grants, req, committed>>

\* push_back of a new group.  The vector may move its groups, and a moved
\* group has new mutexes.
CreateGroup(t) ==
  /\ pc[t] = "create"
  /\ LET Moved(c) == [c EXCEPT !.mt_client = NoThread, !.mt_event = NoThread]
         new == [group |-> req[t].group, clients |-> << >>,
                 events |-> EmptyTable(EmptySlot),
                 mt_client |-> NoThread, mt_event |-> NoThread]
     IN  clients_group' =
            Append([i \in DOMAIN clients_group |-> Moved(clients_group[i])], new)
  /\ index' = [index EXCEPT ![t] = Len(clients_group) + 1]
  /\ Found(t, Len(clients_group) + 1)
  /\ UNCHANGED <<gate, respon, clock, seen, status, grants, req, committed>>

\* get_events_json takes mt_client and then mt_event, the others mt_event only.
LockClient(t) ==
  /\ Goto(t, "lock_client", "lock_event")
  /\ Passes(My(t).mt_client, t)
  /\ SetMine(t, "mt_client", t)
  /\ UNCHANGED <<gate, respon, clock, seen, status, grants, req, index, answer, committed>>

LockEvent(t) ==
  /\ Goto(t, "lock_event", "check_client")
  /\ Passes(My(t).mt_event, t)
  /\ SetMine(t, "mt_event", t)
  /\ UNCHANGED <<gate, respon, clock, seen, status, grants, req, index, answer, committed>>

IsClient(t) == \E k \in DOMAIN My(t).clients : My(t).clients[k] = req[t].worker

\* check_client() takes mt_client and gives it back before get_new_client()
\* takes it again.
check_client(t) ==
  /\ Goto(t, "check_client", IF IsClient(t) THEN "work" ELSE "get_new_client")
  /\ Passes(My(t).mt_client, t)
  /\ UNCHANGED <<gate, clients_group, respon, clock, seen, status, grants,
                 req, index, answer, committed>>

get_new_client(t) ==
  /\ Goto(t, "get_new_client", "work")
  /\ Passes(My(t).mt_client, t)
  /\ SetMine(t, "clients", Append(My(t).clients, req[t].worker))
  /\ UNCHANGED <<gate, respon, clock, seen, status, grants, req, index, answer, committed>>

-----------------------------------------------------------------------------
\* The loops over events, which the thread does with mt_event taken

First(rows, i, id) ==
  /\ i \in DOMAIN rows
  /\ rows[i].hash_event = id
  /\ \A j \in 1..(i-1) : rows[j].hash_event # id

None(rows, id) == \A i \in DOMAIN rows : rows[i].hash_event # id

Vacant(rows, i) ==
  /\ i \in DOMAIN rows
  /\ ~rows[i].busy
  /\ \A j \in 1..(i-1) : rows[j].busy

AllBusy(rows) == \A i \in DOMAIN rows : rows[i].busy

WaitingIn(rows) ==
  {rows[i].hash_event : i \in {k \in DOMAIN rows : rows[k].busy /\ ~rows[k].process}}

SetEvent(t, i, slot) == SetMine(t, "events", [My(t).events EXCEPT ![i] = slot])

Answer(t, n) == answer' = [answer EXCEPT ![t].status = n]

\* As in Tasker: equal texts of different hashes are assumed away.
NewHash(t) == [group |-> req[t].group, clock |-> clock + 1]

Work(t, op) ==
  /\ Goto(t, "work", IF op = "get_events_json" THEN "copy" ELSE "unlock")
  /\ req[t].op = op
  /\ UNCHANGED <<gate, seen, status, req, index, committed>>

StartWork(t) ==
  /\ Work(t, "start_event")
  /\ \/ \E i \in DOMAIN My(t).events :
           /\ First(My(t).events, i, req[t].id)
           /\ ~My(t).events[i].process
           /\ SetEvent(t, i, [My(t).events[i] EXCEPT !.process = TRUE])
           /\ grants' = [grants EXCEPT ![req[t].id] = @ + 1]
           /\ Answer(t, 0)
     \/ \E i \in DOMAIN My(t).events :
           /\ First(My(t).events, i, req[t].id)
           /\ My(t).events[i].process
           /\ Answer(t, -2)
           /\ UNCHANGED <<clients_group, grants>>
     \/ /\ None(My(t).events, req[t].id)
        /\ Answer(t, -3)
        /\ UNCHANGED <<clients_group, grants>>
  /\ UNCHANGED <<respon, clock>>

ClearWork(t) ==
  /\ Work(t, "clear_event")
  /\ \/ \E i \in DOMAIN My(t).events :
           /\ First(My(t).events, i, req[t].id)
           /\ My(t).events[i].process
           /\ clock < MaxClock
           /\ clock' = clock + 1
           /\ SetEvent(t, i, [My(t).events[i] EXCEPT !.count_restart = @ + 1,
                                                     !.hash_event = NewHash(t),
                                                     !.process = FALSE])
           /\ Answer(t, 0)
     \/ \E i \in DOMAIN My(t).events :
           /\ First(My(t).events, i, req[t].id)
           /\ ~My(t).events[i].process
           /\ Answer(t, 0)
           /\ UNCHANGED <<clients_group, clock>>
     \/ /\ None(My(t).events, req[t].id)
        /\ Answer(t, -2)
        /\ UNCHANGED <<clients_group, clock>>
  /\ UNCHANGED <<respon, grants>>

EndWork(t) ==
  /\ Work(t, "end_event")
  /\ \/ \E i \in DOMAIN My(t).events :
           /\ First(My(t).events, i, req[t].id)
           /\ SetEvent(t, i, EmptySlot)
           /\ Answer(t, 0)
     \/ /\ None(My(t).events, req[t].id)
        /\ Answer(t, -2)
        /\ UNCHANGED clients_group
  /\ UNCHANGED <<respon, clock, grants>>

AddWork(t) ==
  /\ Work(t, "add_new_event")
  /\ clock < MaxClock
  /\ clock' = clock + 1
  /\ LET slot == [hash_event |-> NewHash(t), json |-> req[t].ev,
                  count_restart |-> 0, busy |-> TRUE, process |-> FALSE]
         events == My(t).events
     IN  \/ \E i \in DOMAIN events : Vacant(events, i) /\ SetEvent(t, i, slot)
         \/ AllBusy(events) /\ SetMine(t, "events", Append(events, slot))
  /\ Answer(t, 0)
  /\ UNCHANGED <<respon, grants>>

\* The answer is put together in the static string and copied when it is full.
GetWork(t) ==
  /\ Work(t, "get_events_json")
  /\ respon' = WaitingIn(My(t).events)
  /\ UNCHANGED <<clients_group, clock, grants, answer>>

CopyRespon(t) ==
  /\ Goto(t, "copy", "unlock")
  /\ answer' = [answer EXCEPT ![t].body = respon]
  /\ UNCHANGED <<gate, clients_group, respon, clock, seen, status, grants,
                 req, index, committed>>

-----------------------------------------------------------------------------

\* Mutant: mt_event is not given back.
UnlockClient(t) ==
  /\ Goto(t, "unlock", "leave")
  /\ SetMine(t, "mt_client", NoThread)
  /\ UNCHANGED <<gate, respon, clock, seen, status, grants, req, index, answer, committed>>

\* The destructors of the scope_lock_mutex objects give the group's mutexes
\* back that this thread owns,
Unlock(t) ==
  /\ Goto(t, "unlock", "leave")
  /\ LET Freed(owner) == IF owner = t THEN NoThread ELSE owner
     IN  clients_group' = [clients_group EXCEPT ![index[t]] =
                             [My(t) EXCEPT !.mt_client = Freed(My(t).mt_client),
                                           !.mt_event = Freed(My(t).mt_event)]]
  /\ UNCHANGED <<gate, respon, clock, seen, status, grants, req, index, answer, committed>>

\* Mutant: the early return with -1 keeps mt.
LeaveLocked(t) ==
  /\ Goto(t, "leave", "idle")
  /\ gate' = IF answer[t].status = -1 THEN gate ELSE NoThread
  /\ seen' = seen \cup answer[t].body
  /\ status' = answer[t].status
  /\ req' = [req EXCEPT ![t] = NoRequest]
  /\ index' = [index EXCEPT ![t] = 0]
  /\ answer' = [answer EXCEPT ![t] = NoAnswer]
  /\ UNCHANGED <<clients_group, respon, clock, grants, committed>>

\* and at last mt; the response goes out.
Leave(t) ==
  /\ Goto(t, "leave", "idle")
  /\ gate' = NoThread
  /\ seen' = seen \cup answer[t].body
  /\ status' = answer[t].status
  /\ req' = [req EXCEPT ![t] = NoRequest]
  /\ index' = [index EXCEPT ![t] = 0]
  /\ answer' = [answer EXCEPT ![t] = NoAnswer]
  /\ UNCHANGED <<clients_group, respon, clock, grants, committed>>

\* What a thread does once its handler runs.
Step(t) ==
  \/ find_group(t) \/ CreateGroup(t) \/ LockClient(t) \/ LockEvent(t)
  \/ check_client(t) \/ get_new_client(t)
  \/ StartWork(t) \/ ClearWork(t) \/ EndWork(t) \/ AddWork(t) \/ GetWork(t)
  \/ CopyRespon(t) \/ Unlock(t) \/ Leave(t)

Next == \E t \in Threads : Enter(t) \/ Step(t)

\* A thread that runs a handler is scheduled again and again.
Fairness == \A t \in Threads : WF_vars(Step(t))

Spec == Init /\ [][Next]_vars /\ Fairness

-----------------------------------------------------------------------------
(* Properties *)

InTables(t) == pc[t] \notin {"idle", "leave"}

InGroup(t) == InTables(t) /\ pc[t] \notin {"find", "create"}

Group ==
  [group : AllGroups, clients : Seq(Workers), events : Seq(T!Slot),
   mt_client : Threads \cup {NoThread}, mt_event : Threads \cup {NoThread}]

TypeOK ==
  /\ gate \in Threads \cup {NoThread}
  /\ clients_group \in Seq(Group)
  /\ respon \subseteq T!HashEvent
  /\ seen \subseteq T!HashEvent
  /\ status \in -3..0
  /\ \A t \in Threads :
        /\ index[t] \in 0..Len(clients_group)
        /\ InGroup(t) => index[t] # 0
        /\ answer[t].body \subseteq T!HashEvent

\* No thread adds a group, which may move all groups to new memory, while
\* another reads the table or works in one of its groups.
NoMoveUnderFoot ==
  \A t, u \in Threads : pc[t] = "create" /\ InTables(u) => t = u

\* Looking up and then adding leaves no group name and no worker with two rows.
NoDuplicateRows ==
  /\ \A i, j \in DOMAIN clients_group :
        clients_group[i].group = clients_group[j].group => i = j
  /\ \A i \in DOMAIN clients_group :
        LET rows == clients_group[i].clients
        IN  \A k, l \in DOMAIN rows : rows[k] = rows[l] => k = l

\* The mutexes of a group are never waited for, so the two orders in which
\* handlers take them cannot lock two threads against each other.
InnerLocksNeverContended ==
  \A t \in Threads : \A i \in DOMAIN clients_group :
     InTables(t) => /\ Passes(clients_group[i].mt_client, t)
                    /\ Passes(clients_group[i].mt_event, t)

\* A get_events_json answer names only events of the group that was asked for,
\* although all groups build it in one static string.
AnswerIsOwnGroup ==
  \A t \in Threads : \A id \in answer[t].body : id.group = req[t].group

\* The threads implement Tasker: a whole handler is one step of it, taken when
\* mt is given back.
ImplementsTasker == T!Spec

\* No handler keeps mt for ever, whichever way it returns.
GateIsReleased == gate # NoThread ~> gate = NoThread
-----------------------------------------------------------------------------
(* The inductive invariant the proofs use *)

Places == {"idle", "find", "create", "lock_client", "lock_event", "check_client",
           "get_new_client", "work", "copy", "unlock", "leave"}

\* Types of what the threads have on their stacks.
LocalsOK ==
  /\ pc \in [Threads -> Places]
  /\ req = [t \in Threads |-> req[t]]
  /\ index \in [Threads -> Nat]
  /\ answer \in [Threads -> [status : -3..0, body : SUBSET T!HashEvent]]
  /\ clock \in 0..MaxClock
  /\ \A t \in Threads : pc[t] # "idle" => req[t].group \in AllGroups
  /\ \A t \in Threads : pc[t] # "idle" => req[t].worker \in Workers
  /\ \A t \in Threads : pc[t] # "idle" /\ req[t].op = "add_new_event" => req[t].ev \in Messages

\* Who runs a handler owns mt, and who owns a mutex of a group works in it.
Owns(t, i) == InGroup(t) /\ index[t] = i

OwnersInv ==
  /\ \A t \in Threads : pc[t] # "idle" => gate = t
  /\ \A i \in DOMAIN clients_group : \A t \in Threads :
        t \in {clients_group[i].mt_client, clients_group[i].mt_event} => Owns(t, i)

\* What a thread has found out is still so.
FoundInv ==
  \A t \in Threads :
     /\ InGroup(t) => My(t).group = req[t].group
     /\ pc[t] = "create" => \A i \in DOMAIN clients_group : clients_group[i].group # req[t].group
     /\ pc[t] = "get_new_client" => ~IsClient(t)

\* An event that waits in a group has a hash of that group, and so has what is
\* in the static string when it is copied.
HashesInv ==
  /\ \A i \in DOMAIN clients_group : \A k \in DOMAIN clients_group[i].events :
        clients_group[i].events[k].busy =>
           /\ clients_group[i].events[k].hash_event \in T!HashEvent
           /\ clients_group[i].events[k].hash_event.group = clients_group[i].group
  /\ \A t \in Threads : pc[t] = "copy" => \A id \in respon : id.group = req[t].group
  /\ \A t \in Threads : pc[t] = "idle" => answer[t].body = {}

\* What keeps the handlers apart.
LocksInv ==
  /\ TypeOK
  /\ LocalsOK
  /\ OwnersInv
  /\ FoundInv
  /\ HashesInv
  /\ NoDuplicateRows
  /\ AnswerIsOwnGroup

-----------------------------------------------------------------------------
\* How far a handler has got, told by the tables it found when it took mt

RequestOK(t) ==
  \/ req[t].op = "get_events_json" /\ req[t].group \in Groups
  \/ /\ req[t].op \in Changers
     /\ req[t].group \in Groups
     /\ req[t].id \in seen \cup {UnknownId}
  \/ req[t].op = "add_new_event" /\ T!NextHop(req[t].ev.list_servers, req[t].group)

Replied(t, n, hashes) == answer[t] = [status |-> n, body |-> hashes]

SameClients == Tables.clients = committed.clients
SameEvents == Tables.events = committed.events
SameCounts == clock = committed.clock /\ grants = committed.grants

\* Before the group is found or made,
Untouched(t) ==
  /\ Tables = committed
  /\ Replied(t, 0, {})
  /\ pc[t] = "create" => req[t].op \notin Changers

\* after it,
GroupThere(t) ==
  /\ GroupNames = committed.clients_group \cup {req[t].group}
  /\ req[t].op \in Changers => req[t].group \in committed.clients_group
  /\ req[t].op = "add_new_event" => req[t].ev.respon_id

Grouped(t) == GroupThere(t) /\ SameClients /\ SameEvents /\ SameCounts /\ Replied(t, 0, {})

\* after the worker is registered,
ClientThere(t) ==
  /\ GroupThere(t)
  /\ Tables.clients = [committed.clients EXCEPT ![req[t].group] = @ \cup {req[t].worker}]

Registered(t) ==
  /\ ClientThere(t) /\ SameEvents /\ SameCounts /\ Replied(t, 0, {})
  /\ pc[t] = "copy" => /\ req[t].op = "get_events_json"
                       /\ respon = WaitingIn(committed.events[req[t].group])

\* and with the work done.
Rows(t) == committed.events[req[t].group]

Changed(t, i, slot) ==
  Tables.events = [committed.events EXCEPT ![req[t].group] = [@ EXCEPT ![i] = slot]]

GetDone(t) ==
  req[t].op = "get_events_json" /\ Replied(t, 0, WaitingIn(Rows(t))) /\ SameEvents /\ SameCounts

StartDone(t) ==
  /\ req[t].op = "start_event"
  /\ clock = committed.clock
  /\ \/ \E i \in DOMAIN Rows(t) :
           /\ First(Rows(t), i, req[t].id)
           /\ ~Rows(t)[i].process
           /\ Changed(t, i, [Rows(t)[i] EXCEPT !.process = TRUE])
           /\ grants = [committed.grants EXCEPT ![req[t].id] = @ + 1]
           /\ Replied(t, 0, {})
     \/ \E i \in DOMAIN Rows(t) :
           /\ First(Rows(t), i, req[t].id)
           /\ Rows(t)[i].process
           /\ Replied(t, -2, {}) /\ SameEvents /\ SameCounts
     \/ None(Rows(t), req[t].id) /\ Replied(t, -3, {}) /\ SameEvents /\ SameCounts

HashMade(t) == [group |-> req[t].group, clock |-> committed.clock + 1]

ClearDone(t) ==
  /\ req[t].op = "clear_event"
  /\ grants = committed.grants
  /\ \/ \E i \in DOMAIN Rows(t) :
           /\ First(Rows(t), i, req[t].id)
           /\ Rows(t)[i].process
           /\ committed.clock < MaxClock /\ clock = committed.clock + 1
           /\ Changed(t, i, [Rows(t)[i] EXCEPT !.count_restart = @ + 1,
                                               !.hash_event = HashMade(t),
                                               !.process = FALSE])
           /\ Replied(t, 0, {})
     \/ \E i \in DOMAIN Rows(t) :
           /\ First(Rows(t), i, req[t].id)
           /\ ~Rows(t)[i].process
           /\ Replied(t, 0, {}) /\ SameEvents /\ SameCounts
     \/ None(Rows(t), req[t].id) /\ Replied(t, -2, {}) /\ SameEvents /\ SameCounts

EndDone(t) ==
  /\ req[t].op = "end_event"
  /\ SameCounts
  /\ \/ \E i \in DOMAIN Rows(t) :
           /\ First(Rows(t), i, req[t].id)
           /\ Changed(t, i, EmptySlot)
           /\ Replied(t, 0, {})
     \/ None(Rows(t), req[t].id) /\ Replied(t, -2, {}) /\ SameEvents

AddDone(t) ==
  /\ req[t].op = "add_new_event"
  /\ committed.clock < MaxClock /\ clock = committed.clock + 1
  /\ grants = committed.grants
  /\ Replied(t, 0, {})
  /\ LET slot == [hash_event |-> HashMade(t), json |-> req[t].ev,
                  count_restart |-> 0, busy |-> TRUE, process |-> FALSE]
     IN  \/ \E i \in DOMAIN Rows(t) : Vacant(Rows(t), i) /\ Changed(t, i, slot)
         \/ /\ AllBusy(Rows(t))
            /\ Tables.events = [committed.events EXCEPT ![req[t].group] = Append(@, slot)]

Served(t) ==
  ClientThere(t) /\ (GetDone(t) \/ StartDone(t) \/ ClearDone(t) \/ EndDone(t) \/ AddDone(t))

\* A handler that answers -1 has at most made the group.
Refused(t) ==
  /\ SameClients /\ SameEvents /\ SameCounts
  /\ Replied(t, -1, {})
  /\ \/ /\ req[t].op \in Changers
        /\ req[t].group \notin committed.clients_group
        /\ GroupNames = committed.clients_group
     \/ /\ req[t].op = "add_new_event" /\ ~req[t].ev.respon_id
        /\ GroupNames = committed.clients_group \cup {req[t].group}

Progress(t) ==
  /\ RequestOK(t)
  /\ pc[t] \in {"find", "create"} => Untouched(t)
  /\ pc[t] \in {"lock_client", "lock_event", "check_client", "get_new_client"} => Grouped(t)
  /\ pc[t] \in {"work", "copy"} => Registered(t)
  /\ pc[t] = "unlock" => Served(t)
  /\ pc[t] = "leave" => Served(t) \/ Refused(t)

HandlersInv ==
  \A t \in Threads : IF pc[t] = "idle" THEN gate # t /\ Replied(t, 0, {}) ELSE Progress(t)

\* The invariant that every step of a handler preserves.
IInv == LocksInv /\ HandlersInv
=============================================================================
