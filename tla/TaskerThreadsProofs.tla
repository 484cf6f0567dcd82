------------------------ MODULE TaskerThreadsProofs ------------------------
(***************************************************************************)
(* Proofs about the handlers as threads, for any number of threads, groups *)
(* and workers, any initial table size and bound on the clock.             *)
(*                                                                         *)
(* First, LocksInv is inductive: tasker_manager::mt alone keeps handlers   *)
(* apart.  No thread waits for a mutex of a group, none adds a group while *)
(* another works in the table, and the look-ups that adding relies on stay *)
(* true.  Then HandlersInv says how far each handler has got since it took *)
(* mt, and with it the threads are shown to implement Tasker.              *)
(***************************************************************************)
EXTENDS TaskerThreads, TLAPS

LEMMA SlotType ==
  /\ EmptySlot \in T!Slot
  /\ ~EmptySlot.busy
BY DEF EmptySlot, T!Slot

LEMMA RowUpdate ==
  ASSUME clients_group \in Seq(Group), NEW i \in DOMAIN clients_group, NEW row \in Group,
         clients_group' = [clients_group EXCEPT ![i] = row]
  PROVE  /\ clients_group' \in Seq(Group)
         /\ Len(clients_group') = Len(clients_group)
         /\ DOMAIN clients_group' = DOMAIN clients_group
         /\ clients_group'[i] = row
         /\ \A j \in DOMAIN clients_group : j # i => clients_group'[j] = clients_group[j]
  OBVIOUS

LEMMA RowTypes ==
  ASSUME NEW row \in Group
  PROVE  /\ row.group \in AllGroups
         /\ row.clients \in Seq(Workers)
         /\ row.events \in Seq(T!Slot)
         /\ row.mt_client \in Threads \cup {NoThread}
         /\ row.mt_event \in Threads \cup {NoThread}
BY DEF Group

\* While a thread runs its handler, all others are outside theirs.
LEMMA Alone ==
  ASSUME LocksInv, NEW t \in Threads, pc[t] # "idle"
  PROVE  gate = t /\ \A u \in Threads : u # t => pc[u] = "idle"
BY DEF LocksInv, OwnersInv

\* What is known of a thread at work in its group.
LEMMA AtWork ==
  ASSUME LocksInv, NEW t \in Threads, InGroup(t)
  PROVE  /\ clients_group \in Seq(Group)
         /\ index[t] \in DOMAIN clients_group
         /\ My(t) \in Group
         /\ My(t).group = req[t].group
         /\ req[t].group \in AllGroups /\ req[t].worker \in Workers
         /\ My(t).mt_client \in {NoThread, t} /\ My(t).mt_event \in {NoThread, t}
<1>1. clients_group \in Seq(Group) /\ index[t] \in 1..Len(clients_group)
  BY DEF LocksInv, TypeOK
<1>2. My(t) \in Group
  BY <1>1 DEF My
<1>3. pc[t] # "idle"
  BY DEF InGroup, InTables
<1>4. \A u \in Threads : u \in {My(t).mt_client, My(t).mt_event} => u = t
  BY <1>1, <1>3, Alone DEF LocksInv, OwnersInv, Owns, InGroup, InTables, My
<1> QED BY <1>1, <1>2, <1>3, <1>4, RowTypes DEF LocksInv, FoundInv, LocalsOK

-----------------------------------------------------------------------------
\* A step of a thread inside its group: it may change its own row of
\* clients_group, the answer it is building and the static string.

NamesOwn(row) ==
  \A k \in DOMAIN row.events :
     row.events[k].busy => /\ row.events[k].hash_event \in T!HashEvent
                           /\ row.events[k].hash_event.group = row.group

NoWorkerTwice(row) ==
  \A k, l \in DOMAIN row.clients : row.clients[k] = row.clients[l] => k = l

LEMMA GroupStep ==
  ASSUME LocksInv, NEW t \in Threads, InGroup(t),
         NEW row \in Group,
         clients_group' = [clients_group EXCEPT ![index[t]] = row],
         row.group = My(t).group, NamesOwn(row), NoWorkerTwice(row),
         row.mt_client \in {NoThread, t}, row.mt_event \in {NoThread, t},
         NEW p \in Places \ {"idle", "find", "create"},
         pc' = [pc EXCEPT ![t] = p],
         p = "leave" => row.mt_client = NoThread /\ row.mt_event = NoThread,
         p = "get_new_client" => \A k \in DOMAIN row.clients : row.clients[k] # req[t].worker,
         p = "copy" => \A id \in respon' : id.group = req[t].group,
         respon' \subseteq T!HashEvent,
         NEW a \in [status : -3..0, body : SUBSET T!HashEvent],
         answer' = [answer EXCEPT ![t] = a],
         \A id \in a.body : id.group = req[t].group,
         clock' \in 0..MaxClock,
         UNCHANGED <<gate, seen, status, req, index>>
  PROVE  LocksInv'
<1> USE ThreadsAssumption
<1>1. /\ clients_group' \in Seq(Group)
      /\ Len(clients_group') = Len(clients_group)
      /\ DOMAIN clients_group' = DOMAIN clients_group
      /\ clients_group'[index[t]] = row
      /\ \A j \in DOMAIN clients_group : j # index[t] => clients_group'[j] = clients_group[j]
  BY AtWork, RowUpdate
<1>2. /\ pc \in [Threads -> Places] /\ pc[t] # "idle"
      /\ index \in [Threads -> Nat]
      /\ answer \in [Threads -> [status : -3..0, body : SUBSET T!HashEvent]]
  BY DEF LocksInv, LocalsOK, InGroup, InTables
<1>3. pc' \in [Threads -> Places] /\ pc'[t] = p /\ \A u \in Threads : u # t => pc'[u] = "idle"
  BY <1>2, Alone
<1>4. /\ answer' \in [Threads -> [status : -3..0, body : SUBSET T!HashEvent]]
      /\ answer'[t] = a /\ \A u \in Threads : u # t => answer'[u] = answer[u]
  BY <1>2
<1>5. \A j \in DOMAIN clients_group : clients_group'[j].group = clients_group[j].group
  BY <1>1 DEF My
<1>6. TypeOK'
  <2>1. \A u \in Threads : InGroup(u)' => u = t
    BY <1>3 DEF InGroup, InTables
  <2>2. \A u \in Threads : index'[u] \in 0..Len(clients_group') /\ (InGroup(u)' => index'[u] # 0)
    BY <1>1, <2>1 DEF LocksInv, TypeOK
  <2>3. \A u \in Threads : answer'[u].body \subseteq T!HashEvent
    BY <1>4
  <2> QED BY <1>1, <2>2, <2>3 DEF LocksInv, TypeOK
<1>7. LocalsOK'
  <2>1. index' \in [Threads -> Nat] /\ req' = [u \in Threads |-> req'[u]]
    BY <1>2 DEF LocksInv, LocalsOK
  <2>2. \A u \in Threads : pc'[u] # "idle" => pc[u] # "idle"
    BY <1>2, <1>3
  <2> QED BY <1>3, <1>4, <2>1, <2>2 DEF LocksInv, LocalsOK
<1>8. OwnersInv'
  <2>1. \A u \in Threads : pc'[u] # "idle" => gate' = u
    BY <1>2, <1>3, Alone
  <2>2. ASSUME NEW i \in DOMAIN clients_group', NEW u \in Threads,
               u \in {clients_group'[i].mt_client, clients_group'[i].mt_event}
        PROVE  Owns(u, i)'
    <3>1. CASE i = index[t]
      <4>1. u = t /\ p # "leave"
        BY <1>1, <2>2, <3>1
      <4> QED BY <1>3, <3>1, <4>1 DEF Owns, InGroup, InTables
    <3>2. CASE i # index[t]
      <4>1. Owns(u, i)
        BY <1>1, <2>2, <3>2 DEF LocksInv, OwnersInv
      <4>2. u = t
        BY <1>2, <4>1, Alone DEF Owns, InGroup, InTables
      <4> QED BY <3>2, <4>1, <4>2 DEF Owns
    <3> QED BY <3>1, <3>2
  <2> QED BY <2>1, <2>2 DEF OwnersInv
<1>9. FoundInv'
  <2> SUFFICES ASSUME NEW u \in Threads
               PROVE  /\ InGroup(u)' => My(u)'.group = req'[u].group
                      /\ pc'[u] = "create" => \A i \in DOMAIN clients_group' :
                                                 clients_group'[i].group # req'[u].group
                      /\ pc'[u] = "get_new_client" => ~IsClient(u)'
    BY DEF FoundInv
  <2>1. CASE u = t
    BY <1>1, <1>3, <2>1, AtWork DEF My, IsClient
  <2>2. CASE u # t
    BY <1>3, <2>2 DEF InGroup, InTables
  <2> QED BY <2>1, <2>2
<1>10. HashesInv'
  <2>1. \A i \in DOMAIN clients_group : NamesOwn(clients_group'[i])
    BY <1>1 DEF LocksInv, HashesInv, NamesOwn
  <2>2. \A u \in Threads : pc'[u] = "copy" => \A id \in respon' : id.group = req'[u].group
    BY <1>3
  <2>3. \A u \in Threads : pc'[u] = "idle" => answer'[u].body = {}
    <3>1. \A u \in Threads : pc'[u] = "idle" => u # t /\ pc[u] = "idle"
      BY <1>2, <1>3, Alone
    <3> QED BY <1>4, <3>1 DEF LocksInv, HashesInv
  <2> QED BY <1>1, <2>1, <2>2, <2>3 DEF HashesInv, NamesOwn
<1>11. NoDuplicateRows'
  <2>1. \A i, j \in DOMAIN clients_group' : clients_group'[i].group = clients_group'[j].group => i = j
    BY <1>1, <1>5 DEF LocksInv, NoDuplicateRows
  <2>2. \A i \in DOMAIN clients_group : NoWorkerTwice(clients_group'[i])
    BY <1>1 DEF LocksInv, NoDuplicateRows, NoWorkerTwice
  <2> QED BY <1>1, <2>1, <2>2 DEF NoDuplicateRows, NoWorkerTwice
<1>12. AnswerIsOwnGroup'
  BY <1>4 DEF LocksInv, AnswerIsOwnGroup
<1> QED BY <1>6, <1>7, <1>8, <1>9, <1>10, <1>11, <1>12 DEF LocksInv

\* What the row of the group is before the step.
LEMMA OwnRow ==
  ASSUME LocksInv, NEW t \in Threads, InGroup(t)
  PROVE  /\ NamesOwn(My(t)) /\ NoWorkerTwice(My(t))
         /\ clients_group = [clients_group EXCEPT ![index[t]] = My(t)]
<1>1. clients_group \in Seq(Group) /\ index[t] \in DOMAIN clients_group
  BY AtWork
<1>2. NamesOwn(My(t)) /\ NoWorkerTwice(My(t))
  BY <1>1 DEF LocksInv, HashesInv, NoDuplicateRows, NamesOwn, NoWorkerTwice, My
<1> QED BY <1>1, <1>2 DEF My

LEMMA SetField ==
  ASSUME NEW row \in Group
  PROVE  /\ \A v : [row EXCEPT !["clients"] = v] =
                     [group |-> row.group, clients |-> v, events |-> row.events,
                      mt_client |-> row.mt_client, mt_event |-> row.mt_event]
         /\ \A v : [row EXCEPT !["events"] = v] =
                     [group |-> row.group, clients |-> row.clients, events |-> v,
                      mt_client |-> row.mt_client, mt_event |-> row.mt_event]
         /\ \A v : [row EXCEPT !["mt_client"] = v] =
                     [group |-> row.group, clients |-> row.clients, events |-> row.events,
                      mt_client |-> v, mt_event |-> row.mt_event]
         /\ \A v : [row EXCEPT !["mt_event"] = v] =
                     [group |-> row.group, clients |-> row.clients, events |-> row.events,
                      mt_client |-> row.mt_client, mt_event |-> v]
BY DEF Group

LEMMA SetMineIs ==
  ASSUME LocksInv, NEW t \in Threads, InGroup(t), NEW field, NEW v, SetMine(t, field, v)
  PROVE  clients_group' = [clients_group EXCEPT ![index[t]] = [My(t) EXCEPT ![field] = v]]
BY AtWork DEF SetMine, My

\* A step that changes neither the tables nor the answer.
LEMMA AnswerKept ==
  ASSUME LocksInv, NEW t \in Threads
  PROVE  /\ answer[t] \in [status : -3..0, body : SUBSET T!HashEvent]
         /\ answer = [answer EXCEPT ![t] = answer[t]]
         /\ \A id \in answer[t].body : id.group = req[t].group
BY DEF LocksInv, LocalsOK, AnswerIsOwnGroup

LEMMA RestKept ==
  ASSUME LocksInv
  PROVE  respon \subseteq T!HashEvent /\ clock \in 0..MaxClock
BY DEF LocksInv, TypeOK, LocalsOK

-----------------------------------------------------------------------------
\* The mutexes of the group and its clients

LEMMA LockClientInv == ASSUME LocksInv, NEW t \in Threads, LockClient(t) PROVE LocksInv'
<1>1. pc[t] = "lock_client" /\ InGroup(t)
  BY DEF LockClient, Goto, InGroup, InTables
<1> DEFINE row == [group |-> My(t).group, clients |-> My(t).clients, events |-> My(t).events,
                   mt_client |-> t, mt_event |-> My(t).mt_event]
<1>2. clients_group' = [clients_group EXCEPT ![index[t]] = row]
  <2>1. SetMine(t, "mt_client", t)
    BY DEF LockClient
  <2>2. clients_group' = [clients_group EXCEPT ![index[t]] = [My(t) EXCEPT !["mt_client"] = t]]
    BY <1>1, <2>1, SetMineIs
  <2>3. [My(t) EXCEPT !["mt_client"] = t] = row
    BY <1>1, AtWork, SetField
  <2> QED BY <2>2, <2>3
<1>3. row \in Group
  BY <1>1, AtWork, RowTypes DEF Group
<1>4. NamesOwn(row) /\ NoWorkerTwice(row)
  BY <1>1, OwnRow DEF NamesOwn, NoWorkerTwice
<1>5. row.group = My(t).group /\ row.mt_client = t /\ row.mt_event \in {NoThread, t}
  BY <1>1, AtWork
<1>6. /\ pc' = [pc EXCEPT ![t] = "lock_event"] /\ "lock_event" \in Places
      /\ UNCHANGED <<gate, respon, clock, seen, status, req, index, answer>>
  BY DEF LockClient, Goto, Places
<1> HIDE DEF row
<1> QED BY <1>1, <1>2, <1>3, <1>4, <1>5, <1>6, AnswerKept, RestKept, GroupStep

LEMMA LockEventInv == ASSUME LocksInv, NEW t \in Threads, LockEvent(t) PROVE LocksInv'
<1>1. pc[t] = "lock_event" /\ InGroup(t)
  BY DEF LockEvent, Goto, InGroup, InTables
<1> DEFINE row == [group |-> My(t).group, clients |-> My(t).clients, events |-> My(t).events,
                   mt_client |-> My(t).mt_client, mt_event |-> t]
<1>2. clients_group' = [clients_group EXCEPT ![index[t]] = row]
  <2>1. SetMine(t, "mt_event", t)
    BY DEF LockEvent
  <2>2. clients_group' = [clients_group EXCEPT ![index[t]] = [My(t) EXCEPT !["mt_event"] = t]]
    BY <1>1, <2>1, SetMineIs
  <2>3. [My(t) EXCEPT !["mt_event"] = t] = row
    BY <1>1, AtWork, SetField
  <2> QED BY <2>2, <2>3
<1>3. row \in Group
  BY <1>1, AtWork, RowTypes DEF Group
<1>4. NamesOwn(row) /\ NoWorkerTwice(row)
  BY <1>1, OwnRow DEF NamesOwn, NoWorkerTwice
<1>5. row.group = My(t).group /\ row.mt_event = t /\ row.mt_client \in {NoThread, t}
  BY <1>1, AtWork
<1>6. /\ pc' = [pc EXCEPT ![t] = "check_client"] /\ "check_client" \in Places
      /\ UNCHANGED <<gate, respon, clock, seen, status, req, index, answer>>
  BY DEF LockEvent, Goto, Places
<1> HIDE DEF row
<1> QED BY <1>1, <1>2, <1>3, <1>4, <1>5, <1>6, AnswerKept, RestKept, GroupStep

LEMMA check_clientInv == ASSUME LocksInv, NEW t \in Threads, check_client(t) PROVE LocksInv'
<1>1. pc[t] = "check_client" /\ InGroup(t)
  BY DEF check_client, Goto, InGroup, InTables
<1>2. PICK p \in {"work", "get_new_client"} :
         pc' = [pc EXCEPT ![t] = p] /\ (p = "get_new_client" => ~IsClient(t))
  BY DEF check_client, Goto
<1>3. p = "get_new_client" => \A k \in DOMAIN My(t).clients : My(t).clients[k] # req[t].worker
  BY <1>2 DEF IsClient
<1>4. UNCHANGED <<clients_group, gate, respon, clock, seen, status, req, index, answer>>
  BY DEF check_client
<1>5. p \in Places \ {"idle", "find", "create"} /\ p # "leave" /\ p # "copy"
  BY DEF Places
<1> QED BY <1>1, <1>2, <1>3, <1>4, <1>5, OwnRow, AtWork, AnswerKept, RestKept, GroupStep

LEMMA get_new_clientInv == ASSUME LocksInv, NEW t \in Threads, get_new_client(t) PROVE LocksInv'
<1>1. pc[t] = "get_new_client" /\ InGroup(t)
  BY DEF get_new_client, Goto, InGroup, InTables
<1>2. ~IsClient(t)
  BY <1>1 DEF LocksInv, FoundInv
<1>3. My(t).clients \in Seq(Workers) /\ req[t].worker \in Workers
  BY <1>1, AtWork, RowTypes
<1> DEFINE rows == Append(My(t).clients, req[t].worker)
           n == Len(My(t).clients)
<1>4. /\ rows \in Seq(Workers) /\ n \in Nat /\ DOMAIN rows = 1..(n + 1)
      /\ rows[n + 1] = req[t].worker
      /\ DOMAIN My(t).clients = 1..n
      /\ \A k \in 1..n : rows[k] = My(t).clients[k]
  BY <1>3
<1>5. \A k, l \in DOMAIN rows : rows[k] = rows[l] => k = l
  <2>1. \A k, l \in 1..n : rows[k] = rows[l] => k = l
    BY <1>1, <1>4, OwnRow DEF NoWorkerTwice
  <2>2. \A k \in 1..n : rows[k] # rows[n + 1]
    BY <1>2, <1>4 DEF IsClient
  <2>3. \A k \in DOMAIN rows : k \in 1..n \/ k = n + 1
    BY <1>4
  <2> HIDE DEF rows
  <2> QED BY <2>1, <2>2, <2>3
<1> DEFINE row == [group |-> My(t).group, clients |-> rows, events |-> My(t).events,
                   mt_client |-> My(t).mt_client, mt_event |-> My(t).mt_event]
<1>6. clients_group' = [clients_group EXCEPT ![index[t]] = row]
  <2>1. SetMine(t, "clients", rows)
    BY DEF get_new_client
  <2>2. clients_group' = [clients_group EXCEPT ![index[t]] = [My(t) EXCEPT !["clients"] = rows]]
    BY <1>1, <2>1, SetMineIs
  <2>3. [My(t) EXCEPT !["clients"] = rows] = row
    BY <1>1, AtWork, SetField
  <2> QED BY <2>2, <2>3
<1> HIDE DEF rows
<1>7. row \in Group
  BY <1>1, <1>4, AtWork, RowTypes DEF Group
<1>8. NamesOwn(row) /\ NoWorkerTwice(row)
  BY <1>1, <1>5, OwnRow DEF NamesOwn, NoWorkerTwice
<1>9. row.group = My(t).group /\ row.mt_event \in {NoThread, t} /\ row.mt_client \in {NoThread, t}
  BY <1>1, AtWork
<1>10. /\ pc' = [pc EXCEPT ![t] = "work"] /\ "work" \in Places
       /\ UNCHANGED <<gate, respon, clock, seen, status, req, index, answer>>
  BY DEF get_new_client, Goto, Places
<1> HIDE DEF row
<1> QED BY <1>1, <1>6, <1>7, <1>8, <1>9, <1>10, AnswerKept, RestKept, GroupStep

LEMMA UnlockRow ==
  ASSUME LocksInv, NEW t \in Threads, Unlock(t)
  PROVE  /\ InGroup(t) /\ pc[t] = "unlock"
         /\ clients_group' = [clients_group EXCEPT ![index[t]] =
              [group |-> My(t).group, clients |-> My(t).clients, events |-> My(t).events,
               mt_client |-> NoThread, mt_event |-> NoThread]]
<1>0. pc[t] = "unlock" /\ InGroup(t)
  BY DEF Unlock, Goto, InGroup, InTables
<1> DEFINE row == [group |-> My(t).group, clients |-> My(t).clients, events |-> My(t).events,
                   mt_client |-> NoThread, mt_event |-> NoThread]
           Freed(owner) == IF owner = t THEN NoThread ELSE owner
<1>1. clients_group' = [clients_group EXCEPT ![index[t]] =
         [My(t) EXCEPT !.mt_client = Freed(My(t).mt_client), !.mt_event = Freed(My(t).mt_event)]]
  BY DEF Unlock
<1>2. Freed(My(t).mt_client) = NoThread /\ Freed(My(t).mt_event) = NoThread
  BY <1>0, AtWork
<1>3. [My(t) EXCEPT !.mt_client = NoThread, !.mt_event = NoThread] = row
  <2>1. \A r \in Group : [r EXCEPT !.mt_client = NoThread, !.mt_event = NoThread] =
           [group |-> r.group, clients |-> r.clients, events |-> r.events,
            mt_client |-> NoThread, mt_event |-> NoThread]
    <3> SUFFICES ASSUME NEW r \in Group
                 PROVE  [r EXCEPT !.mt_client = NoThread, !.mt_event = NoThread] =
           [group |-> r.group, clients |-> r.clients, events |-> r.events,
            mt_client |-> NoThread, mt_event |-> NoThread]
      OBVIOUS
    <3>1. r = [group |-> r.group, clients |-> r.clients, events |-> r.events,
            mt_client |-> r.mt_client, mt_event |-> r.mt_event]
      BY DEF Group
    <3>2. DOMAIN r = {"group", "clients", "events", "mt_client", "mt_event"}
      BY <3>1
    <3> DEFINE d == [r EXCEPT !.mt_client = NoThread, !.mt_event = NoThread]
    <3>3. d = [f \in DOMAIN r |-> IF f \in {"mt_client", "mt_event"} THEN NoThread ELSE r[f]]
      BY <3>1, <3>2
    <3>4. /\ DOMAIN d = {"group", "clients", "events", "mt_client", "mt_event"}
          /\ d.group = r.group /\ d.clients = r.clients /\ d.events = r.events
          /\ d.mt_client = NoThread /\ d.mt_event = NoThread
      BY <3>2, <3>3
    <3> QED BY <3>3, <3>4, <3>2
  <2> QED BY <1>0, <2>1, AtWork
<1> QED BY <1>0, <1>1, <1>2, <1>3

LEMMA UnlockInv == ASSUME LocksInv, NEW t \in Threads, Unlock(t) PROVE LocksInv'
<1>1. pc[t] = "unlock" /\ InGroup(t)
  BY DEF Unlock, Goto, InGroup, InTables
<1> DEFINE row == [group |-> My(t).group, clients |-> My(t).clients, events |-> My(t).events,
                   mt_client |-> NoThread, mt_event |-> NoThread]
<1>2. clients_group' = [clients_group EXCEPT ![index[t]] = row]
  BY UnlockRow
<1>3. row \in Group
  BY <1>1, AtWork, RowTypes DEF Group
<1>4. NamesOwn(row) /\ NoWorkerTwice(row)
  BY <1>1, OwnRow DEF NamesOwn, NoWorkerTwice
<1>5. row.group = My(t).group /\ row.mt_event = NoThread /\ row.mt_client = NoThread
  OBVIOUS
<1>6. /\ pc' = [pc EXCEPT ![t] = "leave"] /\ "leave" \in Places
      /\ UNCHANGED <<gate, respon, clock, seen, status, req, index, answer>>
  BY DEF Unlock, Goto, Places
<1> HIDE DEF row
<1> QED BY <1>1, <1>2, <1>3, <1>4, <1>5, <1>6, AnswerKept, RestKept, GroupStep

-----------------------------------------------------------------------------
\* The work on the events

\* A handler other than get_events_json that leaves the table of events ev
\* behind and answers with the number n.
LEMMA EventsStep ==
  ASSUME LocksInv, NEW t \in Threads, pc[t] = "work",
         pc' = [pc EXCEPT ![t] = "unlock"],
         NEW ev \in Seq(T!Slot), clients_group' = [clients_group EXCEPT ![index[t]] =
                                                     [My(t) EXCEPT !["events"] = ev]],
         \A k \in DOMAIN ev : ev[k].busy => /\ ev[k].hash_event \in T!HashEvent
                                            /\ ev[k].hash_event.group = My(t).group,
         NEW n \in -3..0, Answer(t, n),
         clock' \in 0..MaxClock,
         UNCHANGED <<gate, respon, seen, status, req, index>>
  PROVE  LocksInv'
<1>1. InGroup(t)
  BY DEF InGroup, InTables
<1> DEFINE row == [group |-> My(t).group, clients |-> My(t).clients, events |-> ev,
                   mt_client |-> My(t).mt_client, mt_event |-> My(t).mt_event]
           a == [status |-> n, body |-> answer[t].body]
<1>2. clients_group' = [clients_group EXCEPT ![index[t]] = row]
  <2>1. [My(t) EXCEPT !["events"] = ev] = row
    BY <1>1, AtWork, SetField
  <2> QED BY <2>1
<1>3. row \in Group
  BY <1>1, AtWork, RowTypes DEF Group
<1>4. NamesOwn(row) /\ NoWorkerTwice(row)
  BY <1>1, OwnRow DEF NamesOwn, NoWorkerTwice
<1>5. row.group = My(t).group /\ row.mt_event \in {NoThread, t} /\ row.mt_client \in {NoThread, t}
  BY <1>1, AtWork
<1>6. /\ a \in [status : -3..0, body : SUBSET T!HashEvent]
      /\ \A id \in a.body : id.group = req[t].group
  BY AnswerKept
<1>7. answer' = [answer EXCEPT ![t] = a]
  <2>1. \A b \in [status : -3..0, body : SUBSET T!HashEvent] :
           [b EXCEPT !.status = n] = [status |-> n, body |-> b.body]
    OBVIOUS
  <2>2. answer' = [answer EXCEPT ![t] = [answer[t] EXCEPT !.status = n]]
    BY DEF Answer
  <2> QED BY <2>1, <2>2, AnswerKept
<1>8. "unlock" \in Places \ {"idle", "find", "create"}
  BY DEF Places
<1> HIDE DEF row, a
<1> QED BY <1>1, <1>2, <1>3, <1>4, <1>5, <1>6, <1>7, <1>8, RestKept, GroupStep

\* The same for a handler that finds nothing to do.
LEMMA IdleWork ==
  ASSUME LocksInv, NEW t \in Threads, pc[t] = "work",
         pc' = [pc EXCEPT ![t] = "unlock"],
         clients_group' = clients_group,
         NEW n \in -3..0, Answer(t, n),
         UNCHANGED <<gate, respon, clock, seen, status, req, index>>
  PROVE  LocksInv'
<1>1. InGroup(t)
  BY DEF InGroup, InTables
<1>2. My(t) \in Group
  BY <1>1, AtWork
<1>3. [My(t) EXCEPT !["events"] = My(t).events] = My(t) /\ My(t).events \in Seq(T!Slot)
  <2>1. \A row \in Group : [row EXCEPT !["events"] = row.events] = row
    BY DEF Group
  <2> QED BY <1>2, <2>1, RowTypes
<1>4. clients_group' = [clients_group EXCEPT ![index[t]] =
                          [My(t) EXCEPT !["events"] = My(t).events]]
  BY <1>1, <1>3, OwnRow
<1>5. \A k \in DOMAIN My(t).events :
         My(t).events[k].busy => /\ My(t).events[k].hash_event \in T!HashEvent
                                 /\ My(t).events[k].hash_event.group = My(t).group
  BY <1>1, OwnRow DEF NamesOwn
<1> QED BY <1>3, <1>4, <1>5, RestKept, EventsStep

OwnSlot(t, slot) ==
  slot.busy => slot.hash_event \in T!HashEvent /\ slot.hash_event.group = My(t).group

\* The same for a handler that puts one slot into its place or at the end.
LEMMA SlotStep ==
  ASSUME LocksInv, NEW t \in Threads, pc[t] = "work",
         pc' = [pc EXCEPT ![t] = "unlock"],
         NEW slot \in T!Slot,
         OwnSlot(t, slot),
         \/ \E i \in DOMAIN My(t).events : SetEvent(t, i, slot)
         \/ SetMine(t, "events", Append(My(t).events, slot)),
         NEW n \in -3..0, Answer(t, n),
         clock' \in 0..MaxClock,
         UNCHANGED <<gate, respon, seen, status, req, index>>
  PROVE  LocksInv'
<1>1. InGroup(t)
  BY DEF InGroup, InTables
<1>2. My(t).events \in Seq(T!Slot)
  BY <1>1, AtWork, RowTypes
<1>3. \A k \in DOMAIN My(t).events :
         My(t).events[k].busy => /\ My(t).events[k].hash_event \in T!HashEvent
                                 /\ My(t).events[k].hash_event.group = My(t).group
  BY <1>1, OwnRow DEF NamesOwn
<1>4. ASSUME NEW i \in DOMAIN My(t).events, SetEvent(t, i, slot)
      PROVE  LocksInv'
  <2> DEFINE ev == [My(t).events EXCEPT ![i] = slot]
  <2>1. /\ ev \in Seq(T!Slot) /\ DOMAIN ev = DOMAIN My(t).events /\ ev[i] = slot
        /\ \A k \in DOMAIN ev : k # i => ev[k] = My(t).events[k]
    BY <1>2
  <2>2. SetMine(t, "events", ev)
    BY <1>4 DEF SetEvent
  <2> HIDE DEF ev
  <2>3. clients_group' = [clients_group EXCEPT ![index[t]] = [My(t) EXCEPT !["events"] = ev]]
    BY <1>1, <2>2, SetMineIs
  <2>4. \A k \in DOMAIN ev : ev[k].busy => /\ ev[k].hash_event \in T!HashEvent
                                           /\ ev[k].hash_event.group = My(t).group
    BY <1>3, <2>1 DEF OwnSlot
  <2> QED BY <2>1, <2>3, <2>4, EventsStep
<1>5. CASE SetMine(t, "events", Append(My(t).events, slot))
  <2> DEFINE ev == Append(My(t).events, slot)
             m == Len(My(t).events)
  <2>1. /\ ev \in Seq(T!Slot) /\ m \in Nat /\ DOMAIN ev = 1..(m + 1) /\ ev[m + 1] = slot
        /\ DOMAIN My(t).events = 1..m
        /\ \A k \in 1..m : ev[k] = My(t).events[k]
    BY <1>2
  <2>2. SetMine(t, "events", ev)
    BY <1>5
  <2> HIDE DEF ev
  <2>3. clients_group' = [clients_group EXCEPT ![index[t]] = [My(t) EXCEPT !["events"] = ev]]
    BY <1>1, <2>2, SetMineIs
  <2>4. \A k \in DOMAIN ev : ev[k].busy => /\ ev[k].hash_event \in T!HashEvent
                                           /\ ev[k].hash_event.group = My(t).group
    <3>1. \A k \in DOMAIN ev : k = m + 1 \/ k \in 1..m
      BY <2>1
    <3> QED BY <1>3, <2>1, <3>1 DEF OwnSlot
  <2> QED BY <2>1, <2>3, <2>4, EventsStep
<1> QED BY <1>4, <1>5

LEMMA SlotFields ==
  ASSUME NEW s \in T!Slot
  PROVE  /\ s.hash_event \in T!HashEvent \cup {NoHash}
         /\ s.json \in Messages \cup {NoJson}
         /\ s.count_restart \in Nat /\ s.busy \in BOOLEAN /\ s.process \in BOOLEAN
         /\ s = [hash_event |-> s.hash_event, json |-> s.json, count_restart |-> s.count_restart,
                 busy |-> s.busy, process |-> s.process]
BY DEF T!Slot

LEMMA ProcessEdit ==
  ASSUME NEW s \in T!Slot, NEW b
  PROVE  [s EXCEPT !.process = b] =
            [hash_event |-> s.hash_event, json |-> s.json,
             count_restart |-> s.count_restart, busy |-> s.busy, process |-> b]
<1>1. DOMAIN s = {"hash_event", "json", "count_restart", "busy", "process"}
  BY DEF T!Slot
<1> QED BY <1>1

\* What clear_event makes of a slot.
Cleared(s, h) == [s EXCEPT !.count_restart = @ + 1, !.hash_event = h, !.process = FALSE]

LEMMA ClearedIs ==
  ASSUME NEW s \in T!Slot, NEW h
  PROVE  Cleared(s, h) = [hash_event |-> h, json |-> s.json,
                          count_restart |-> s.count_restart + 1, busy |-> s.busy, process |-> FALSE]
<1> DEFINE c == s.count_restart + 1
           b == FALSE
           d == [s EXCEPT !.count_restart = c, !.hash_event = h, !.process = b]
<1>1. DOMAIN s = {"hash_event", "json", "count_restart", "busy", "process"}
  BY DEF T!Slot
<1>2. Cleared(s, h) = d
  BY DEF Cleared
<1> HIDE DEF b, c
<1>3. DOMAIN d = {"hash_event", "json", "count_restart", "busy", "process"}
  BY <1>1
<1>4. d = [f \in DOMAIN s |-> IF f = "process" THEN b
                              ELSE IF f = "hash_event" THEN h
                              ELSE IF f = "count_restart" THEN c
                              ELSE s[f]]
  BY <1>1
<1>5. /\ d.hash_event = h /\ d.json = s.json /\ d.count_restart = c
      /\ d.busy = s.busy /\ d.process = b
  BY <1>1, <1>4
<1>6. d = [hash_event |-> h, json |-> s.json, count_restart |-> c, busy |-> s.busy, process |-> b]
  BY <1>3, <1>4, <1>5
<1> QED BY <1>2, <1>6 DEF b, c

\* A new hash has the group that the thread serves.
LEMMA NewHashType ==
  ASSUME LocksInv, NEW t \in Threads, pc[t] = "work", clock < MaxClock
  PROVE  /\ NewHash(t) \in T!HashEvent /\ NewHash(t).group = My(t).group
         /\ clock + 1 \in 0..MaxClock
<1> USE ThreadsAssumption
<1>1. InGroup(t)
  BY DEF InGroup, InTables
<1>2. clock \in Nat /\ clock + 1 \in 1..MaxClock /\ clock + 1 \in 0..MaxClock
  BY RestKept
<1>3. req[t].group \in AllGroups /\ My(t).group = req[t].group
  BY <1>1, AtWork
<1> QED BY <1>2, <1>3 DEF NewHash, T!HashEvent, AllGroups

LEMMA StartWorkInv == ASSUME LocksInv, NEW t \in Threads, StartWork(t) PROVE LocksInv'
<1>1. /\ pc[t] = "work" /\ pc' = [pc EXCEPT ![t] = "unlock"]
      /\ UNCHANGED <<gate, respon, clock, seen, status, req, index>>
  BY DEF StartWork, Work, Goto
<1>2. InGroup(t)
  BY <1>1 DEF InGroup, InTables
<1>3. ASSUME NEW i \in DOMAIN My(t).events, Answer(t, 0),
             SetEvent(t, i, [My(t).events[i] EXCEPT !.process = TRUE])
      PROVE  LocksInv'
  <2> DEFINE s == My(t).events[i]
             slot == [hash_event |-> s.hash_event, json |-> s.json,
                      count_restart |-> s.count_restart, busy |-> s.busy, process |-> TRUE]
  <2>1. s \in T!Slot
    BY <1>2, AtWork, RowTypes
  <2>2. [s EXCEPT !.process = TRUE] = slot /\ slot \in T!Slot
    <3> HIDE DEF s
    <3>1. [s EXCEPT !.process = TRUE] = slot
      BY <2>1, ProcessEdit
    <3>2. slot \in T!Slot
      BY <2>1 DEF T!Slot
    <3> QED BY <3>1, <3>2
  <2>3. OwnSlot(t, slot)
    BY <1>2, OwnRow DEF NamesOwn, OwnSlot
  <2>4. SetEvent(t, i, slot)
    BY <1>3, <2>2
  <2> HIDE DEF slot, s
  <2>5. 0 \in -3..0 /\ clock' \in 0..MaxClock
    BY <1>1, RestKept
  <2>6. \E j \in DOMAIN My(t).events : SetEvent(t, j, slot)
    BY <1>3, <2>4
  <2>7. PICK z \in T!Slot : OwnSlot(t, z) /\ \E j \in DOMAIN My(t).events : SetEvent(t, j, z)
    BY <2>2, <2>3, <2>6
  <2> QED BY <1>1, <1>3, <2>5, <2>7, SlotStep
<1>4. ASSUME NEW n \in -3..0, Answer(t, n), UNCHANGED clients_group PROVE LocksInv'
  BY <1>1, <1>4, IdleWork
<1>5. -2 \in -3..0 /\ -3 \in -3..0
  OBVIOUS
<1> QED BY <1>3, <1>4, <1>5 DEF StartWork

LEMMA ClearWorkInv == ASSUME LocksInv, NEW t \in Threads, ClearWork(t) PROVE LocksInv'
<1>1. /\ pc[t] = "work" /\ pc' = [pc EXCEPT ![t] = "unlock"]
      /\ UNCHANGED <<gate, respon, seen, status, req, index>>
  BY DEF ClearWork, Work, Goto
<1>2. InGroup(t)
  BY <1>1 DEF InGroup, InTables
<1>3. ASSUME NEW i \in DOMAIN My(t).events, Answer(t, 0), clock < MaxClock, clock' = clock + 1,
             SetEvent(t, i, [My(t).events[i] EXCEPT !.count_restart = @ + 1,
                                                    !.hash_event = NewHash(t),
                                                    !.process = FALSE])
      PROVE  LocksInv'
  <2> DEFINE s == My(t).events[i]
             slot == [hash_event |-> NewHash(t), json |-> s.json,
                      count_restart |-> s.count_restart + 1, busy |-> s.busy, process |-> FALSE]
  <2>1. s \in T!Slot
    BY <1>2, AtWork, RowTypes
  <2>2. NewHash(t) \in T!HashEvent /\ NewHash(t).group = My(t).group /\ clock' \in 0..MaxClock
    BY <1>1, <1>3, NewHashType
  <2>3. slot \in T!Slot
    BY <2>1, <2>2 DEF T!Slot
  <2>4. SetEvent(t, i, Cleared(s, NewHash(t)))
    BY <1>3 DEF Cleared
  <2>5. SetEvent(t, i, slot)
    <3>1. Cleared(s, NewHash(t)) = slot
      BY <2>1, ClearedIs
    <3> QED BY <2>4, <3>1
  <2> HIDE DEF slot, s
  <2>6. 0 \in -3..0
    OBVIOUS
  <2>7. OwnSlot(t, slot)
    BY <2>2 DEF slot, OwnSlot
  <2>8. \E j \in DOMAIN My(t).events : SetEvent(t, j, slot)
    BY <1>3, <2>5
  <2>9. PICK z \in T!Slot : OwnSlot(t, z) /\ \E j \in DOMAIN My(t).events : SetEvent(t, j, z)
    BY <2>3, <2>7, <2>8
  <2> QED BY <1>1, <1>3, <2>2, <2>6, <2>9, SlotStep
<1>4. ASSUME NEW n \in -3..0, Answer(t, n), UNCHANGED <<clients_group, clock>> PROVE LocksInv'
  BY <1>1, <1>4, IdleWork
<1>5. -2 \in -3..0 /\ 0 \in -3..0
  OBVIOUS
<1> QED BY <1>3, <1>4, <1>5 DEF ClearWork

LEMMA EndWorkInv == ASSUME LocksInv, NEW t \in Threads, EndWork(t) PROVE LocksInv'
<1>1. /\ pc[t] = "work" /\ pc' = [pc EXCEPT ![t] = "unlock"]
      /\ UNCHANGED <<gate, respon, clock, seen, status, req, index>>
  BY DEF EndWork, Work, Goto
<1>2. ASSUME NEW i \in DOMAIN My(t).events, Answer(t, 0), SetEvent(t, i, EmptySlot)
      PROVE  LocksInv'
  <2>1. 0 \in -3..0
    OBVIOUS
  <2>2. OwnSlot(t, EmptySlot)
    BY SlotType DEF OwnSlot
  <2> QED BY <1>1, <1>2, <2>1, <2>2, SlotType, RestKept, SlotStep
<1>3. ASSUME NEW n \in -3..0, Answer(t, n), UNCHANGED clients_group PROVE LocksInv'
  BY <1>1, <1>3, IdleWork
<1> QED BY <1>2, <1>3 DEF EndWork

LEMMA AddWorkInv == ASSUME LocksInv, NEW t \in Threads, AddWork(t) PROVE LocksInv'
<1>1. /\ pc[t] = "work" /\ pc' = [pc EXCEPT ![t] = "unlock"] /\ req[t].op = "add_new_event"
      /\ UNCHANGED <<gate, respon, seen, status, req, index>>
      /\ clock < MaxClock /\ clock' = clock + 1 /\ Answer(t, 0)
  BY DEF AddWork, Work, Goto
<1> DEFINE slot == [hash_event |-> NewHash(t), json |-> req[t].ev,
                    count_restart |-> 0, busy |-> TRUE, process |-> FALSE]
<1>2. req[t].ev \in Messages
  BY <1>1 DEF LocksInv, LocalsOK
<1>3. NewHash(t) \in T!HashEvent /\ NewHash(t).group = My(t).group /\ clock' \in 0..MaxClock
  BY <1>1, NewHashType
<1>4. slot \in T!Slot /\ OwnSlot(t, slot)
  BY <1>2, <1>3 DEF T!Slot, OwnSlot
<1>5. \/ \E i \in DOMAIN My(t).events : SetEvent(t, i, slot)
      \/ SetMine(t, "events", Append(My(t).events, slot))
  BY DEF AddWork
<1>6. 0 \in -3..0
  OBVIOUS
<1> HIDE DEF slot
<1> QED BY <1>1, <1>3, <1>4, <1>5, <1>6, SlotStep

\* The static string holds the hashes of events that wait in the own group.
LEMMA GetWorkInv == ASSUME LocksInv, NEW t \in Threads, GetWork(t) PROVE LocksInv'
<1>1. /\ pc[t] = "work" /\ pc' = [pc EXCEPT ![t] = "copy"]
      /\ UNCHANGED <<clients_group, gate, clock, seen, status, req, index, answer>>
  BY DEF GetWork, Work, Goto
<1>2. InGroup(t)
  BY <1>1 DEF InGroup, InTables
<1>3. \A id \in respon' : id \in T!HashEvent /\ id.group = req[t].group
  <2>1. ASSUME NEW id \in respon'
        PROVE  \E k \in DOMAIN My(t).events : My(t).events[k].busy /\ id = My(t).events[k].hash_event
    BY DEF GetWork, WaitingIn
  <2> QED BY <1>2, <2>1, OwnRow, AtWork DEF NamesOwn
<1>4. "copy" \in Places \ {"idle", "find", "create"}
  BY DEF Places
<1>5. /\ respon' \subseteq T!HashEvent /\ clock' \in 0..MaxClock
      /\ clients_group' = [clients_group EXCEPT ![index[t]] = My(t)]
      /\ answer' = [answer EXCEPT ![t] = answer[t]]
  BY <1>1, <1>2, <1>3, OwnRow, AnswerKept, RestKept
<1>6. /\ NamesOwn(My(t)) /\ NoWorkerTwice(My(t)) /\ My(t) \in Group
      /\ My(t).mt_client \in {NoThread, t} /\ My(t).mt_event \in {NoThread, t}
  BY <1>2, OwnRow, AtWork
<1>7. /\ answer[t] \in [status : -3..0, body : SUBSET T!HashEvent]
      /\ \A id \in answer[t].body : id.group = req[t].group
  BY AnswerKept
<1>8. PICK row \in Group :
         /\ clients_group' = [clients_group EXCEPT ![index[t]] = row]
         /\ row.group = My(t).group /\ NamesOwn(row) /\ NoWorkerTwice(row)
         /\ row.mt_client \in {NoThread, t} /\ row.mt_event \in {NoThread, t}
  BY <1>5, <1>6
<1>9. PICK a \in [status : -3..0, body : SUBSET T!HashEvent] :
         answer' = [answer EXCEPT ![t] = a] /\ \A id \in a.body : id.group = req[t].group
  BY <1>5, <1>7
<1>10. PICK p \in Places \ {"idle", "find", "create"} : p = "copy"
  BY <1>4
<1>11. /\ pc' = [pc EXCEPT ![t] = p]
       /\ p = "leave" => row.mt_client = NoThread /\ row.mt_event = NoThread
       /\ p = "get_new_client" => \A k \in DOMAIN row.clients : row.clients[k] # req[t].worker
       /\ p = "copy" => \A id \in respon' : id.group = req[t].group
       /\ UNCHANGED <<gate, seen, status, req, index>>
  BY <1>1, <1>3, <1>10
<1> QED BY <1>2, <1>5, <1>8, <1>9, <1>11, GroupStep

LEMMA CopyResponInv == ASSUME LocksInv, NEW t \in Threads, CopyRespon(t) PROVE LocksInv'
<1>1. /\ pc[t] = "copy" /\ pc' = [pc EXCEPT ![t] = "unlock"]
      /\ UNCHANGED <<clients_group, respon, gate, clock, seen, status, req, index>>
      /\ answer' = [answer EXCEPT ![t].body = respon]
  BY DEF CopyRespon, Goto
<1>2. InGroup(t)
  BY <1>1 DEF InGroup, InTables
<1> DEFINE a == [status |-> answer[t].status, body |-> respon]
<1>3. a \in [status : -3..0, body : SUBSET T!HashEvent] /\ a.body = respon
  BY AnswerKept, RestKept
<1>4. answer' = [answer EXCEPT ![t] = a]
  <2>1. \A b \in [status : -3..0, body : SUBSET T!HashEvent] :
           [b EXCEPT !.body = respon] = [status |-> b.status, body |-> respon]
    OBVIOUS
  <2> QED BY <1>1, <2>1, AnswerKept
<1>5. \A id \in respon : id.group = req[t].group
  BY <1>1 DEF LocksInv, HashesInv
<1>6. "unlock" \in Places \ {"idle", "find", "create"}
  BY DEF Places
<1> HIDE DEF a
<1> QED BY <1>1, <1>2, <1>3, <1>4, <1>5, <1>6, OwnRow, AtWork, RestKept, GroupStep

-----------------------------------------------------------------------------
\* Before and after the group

\* A thread outside any group leaves the tables alone: it takes mt, looks a group
\* up, or leaves.  It goes to p with the request r, the group at n, the answer a.
Outside(t, p, n, r, a) ==
  /\ UNCHANGED <<clients_group, respon, clock>>
  /\ gate' \in {NoThread, t} /\ (p # "idle" => gate' = t)
  /\ p # "idle" => /\ r.group \in AllGroups /\ r.worker \in Workers
                   /\ r.op = "add_new_event" => r.ev \in Messages
  /\ p \notin {"copy", "get_new_client"}
  /\ p \notin {"idle", "leave", "find", "create"} => n # 0 /\ clients_group[n].group = r.group
  /\ p = "create" => \A i \in DOMAIN clients_group : clients_group[i].group # r.group
  /\ p = "idle" => a.body = {}
  /\ \A id \in a.body : id.group = r.group
  /\ seen' \subseteq T!HashEvent /\ status' \in -3..0

LEMMA OutsideStep ==
  ASSUME LocksInv, NEW t \in Threads, ~InGroup(t),
         \A u \in Threads : u # t => pc[u] = "idle",
         NEW p \in Places, pc' = [pc EXCEPT ![t] = p],
         NEW n \in 0..Len(clients_group), index' = [index EXCEPT ![t] = n],
         NEW r, req' = [req EXCEPT ![t] = r],
         NEW a \in [status : -3..0, body : SUBSET T!HashEvent],
         answer' = [answer EXCEPT ![t] = a],
         Outside(t, p, n, r, a)
  PROVE  LocksInv'
<1> USE DEF Outside
<1>1. /\ pc \in [Threads -> Places] /\ index \in [Threads -> Nat]
      /\ answer \in [Threads -> [status : -3..0, body : SUBSET T!HashEvent]]
      /\ req = [u \in Threads |-> req[u]]
      /\ clients_group \in Seq(Group) /\ Len(clients_group) \in Nat
      /\ DOMAIN clients_group = 1..Len(clients_group)
  BY DEF LocksInv, LocalsOK, TypeOK
<1>2. pc' \in [Threads -> Places] /\ pc'[t] = p /\ \A u \in Threads : u # t => pc'[u] = "idle"
  BY <1>1
<1>3. index' \in [Threads -> Nat] /\ index'[t] = n /\ \A u \in Threads : u # t => index'[u] = index[u]
  BY <1>1
<1>4. /\ answer' \in [Threads -> [status : -3..0, body : SUBSET T!HashEvent]]
      /\ answer'[t] = a /\ \A u \in Threads : u # t => answer'[u] = answer[u]
  BY <1>1
<1>5. /\ req' = [u \in Threads |-> req'[u]]
      /\ req'[t] = r /\ \A u \in Threads : u # t => req'[u] = req[u]
  BY <1>1
<1>6. \A u \in Threads : InGroup(u)' => /\ u = t /\ n # 0 /\ clients_group[n].group = r.group
                                        /\ p \notin {"idle", "leave", "find", "create"}
  BY <1>2 DEF InGroup, InTables
<1>7. TypeOK'
  <2>1. \A u \in Threads : /\ index'[u] \in 0..Len(clients_group')
                           /\ InGroup(u)' => index'[u] # 0
    BY <1>3, <1>6 DEF LocksInv, TypeOK
  <2>2. \A u \in Threads : answer'[u].body \subseteq T!HashEvent
    BY <1>4
  <2>3. gate' \in Threads \cup {NoThread} /\ clients_group' \in Seq(Group) /\ respon' \subseteq T!HashEvent
    BY DEF LocksInv, TypeOK
  <2> QED BY <2>1, <2>2, <2>3 DEF TypeOK
<1>8. LocalsOK'
  <2>1. \A u \in Threads : pc'[u] # "idle" => u = t /\ p # "idle"
    BY <1>2
  <2>2. clock' \in 0..MaxClock
    BY RestKept
  <2> QED BY <1>2, <1>3, <1>4, <1>5, <2>1, <2>2 DEF LocalsOK
<1>9. OwnersInv'
  <2>1. \A i \in DOMAIN clients_group : \A u \in Threads :
           u \notin {clients_group[i].mt_client, clients_group[i].mt_event}
    BY DEF LocksInv, OwnersInv, Owns, InGroup, InTables
  <2> QED BY <1>2, <2>1 DEF OwnersInv
<1>10. FoundInv'
  <2> SUFFICES ASSUME NEW u \in Threads
               PROVE  /\ InGroup(u)' => My(u)'.group = req'[u].group
                      /\ pc'[u] = "create" => \A i \in DOMAIN clients_group' :
                                                 clients_group'[i].group # req'[u].group
                      /\ pc'[u] = "get_new_client" => ~IsClient(u)'
    BY DEF FoundInv
  <2>1. InGroup(u)' => My(u)'.group = req'[u].group
    BY <1>3, <1>5, <1>6 DEF My
  <2>2. pc'[u] = "create" => u = t
    BY <1>2
  <2>3. pc'[u] # "get_new_client"
    BY <1>2
  <2> QED BY <1>2, <1>5, <2>1, <2>2, <2>3
<1>11. HashesInv'
  <2>1. \A u \in Threads : pc'[u] # "copy"
    BY <1>2
  <2>2. \A u \in Threads : pc'[u] = "idle" => answer'[u].body = {}
    BY <1>2, <1>4 DEF LocksInv, HashesInv
  <2>3. HashesInv
    BY DEF LocksInv
  <2> QED BY <2>1, <2>2, <2>3 DEF HashesInv
<1>12. NoDuplicateRows'
  BY DEF LocksInv, NoDuplicateRows
<1>13. AnswerIsOwnGroup'
  BY <1>4, <1>5 DEF LocksInv, AnswerIsOwnGroup
<1> QED BY <1>7, <1>8, <1>9, <1>10, <1>11, <1>12, <1>13 DEF LocksInv

LEMMA EnterInv == ASSUME LocksInv, NEW t \in Threads, Enter(t) PROVE LocksInv'
<1>1. /\ pc[t] = "idle" /\ pc' = [pc EXCEPT ![t] = "find"] /\ gate \in {NoThread, t} /\ gate' = t
      /\ UNCHANGED <<clients_group, respon, clock, seen, status, index, answer>>
  BY DEF Enter, Goto, Passes
<1>2. PICK r \in Requests : req' = [req EXCEPT ![t] = r]
  BY DEF Enter
<1>3. r.group \in AllGroups /\ r.worker \in Workers /\ (r.op = "add_new_event" => r.ev \in Messages)
  BY DEF Requests, Changers, AllGroups, T!AllGroups
<1>4. \A u \in Threads : u # t => pc[u] = "idle"
  BY <1>1, ThreadsAssumption DEF LocksInv, OwnersInv
<1>5. ~InGroup(t)
  BY <1>1 DEF InGroup, InTables
<1>6. /\ index[t] \in 0..Len(clients_group) /\ index' = [index EXCEPT ![t] = index[t]]
      /\ seen' \subseteq T!HashEvent /\ status' \in -3..0
  BY <1>1 DEF LocksInv, TypeOK, LocalsOK
<1>7. /\ answer[t] \in [status : -3..0, body : SUBSET T!HashEvent] /\ answer[t].body = {}
      /\ answer' = [answer EXCEPT ![t] = answer[t]]
  BY <1>1, AnswerKept DEF LocksInv, HashesInv
<1>8. PICK p \in Places : p = "find" /\ pc' = [pc EXCEPT ![t] = p]
  BY <1>1 DEF Places
<1>9. PICK n \in 0..Len(clients_group) : index' = [index EXCEPT ![t] = n]
  BY <1>6
<1>10. PICK a \in [status : -3..0, body : SUBSET T!HashEvent] :
          a.body = {} /\ answer' = [answer EXCEPT ![t] = a]
  BY <1>7
<1>11. Outside(t, p, n, r, a)
  BY <1>1, <1>3, <1>6, <1>8, <1>10 DEF Outside
<1> QED BY <1>2, <1>4, <1>5, <1>8, <1>9, <1>10, <1>11, OutsideStep

LEMMA find_groupInv == ASSUME LocksInv, NEW t \in Threads, find_group(t) PROVE LocksInv'
<1>1. /\ pc[t] = "find" /\ gate' = gate
      /\ UNCHANGED <<clients_group, respon, clock, seen, status, req>>
  BY DEF find_group
<1>2. gate = t /\ \A u \in Threads : u # t => pc[u] = "idle"
  BY <1>1, Alone
<1>3. ~InGroup(t)
  BY <1>1 DEF InGroup, InTables
<1>4. PICK n \in 0..Len(clients_group) :
         IndexOf(req[t].group, n) /\ index' = [index EXCEPT ![t] = n] /\ Found(t, n)
  BY DEF find_group
<1>5. /\ n = 0 => \A i \in DOMAIN clients_group : clients_group[i].group # req[t].group
      /\ n # 0 => clients_group[n].group = req[t].group
  BY <1>4 DEF IndexOf, LocksInv, TypeOK
<1>6. /\ req[t].group \in AllGroups /\ req[t].worker \in Workers
      /\ req[t].op = "add_new_event" => req[t].ev \in Messages
      /\ req' = [req EXCEPT ![t] = req[t]]
      /\ seen' \subseteq T!HashEvent /\ status' \in -3..0
  BY <1>1 DEF LocksInv, LocalsOK, TypeOK
<1>7. PICK p \in {"leave", "create", "lock_client", "lock_event"} :
         /\ pc' = [pc EXCEPT ![t] = p]
         /\ p \in {"lock_client", "lock_event"} => n # 0
         /\ p = "create" => n = 0
         /\ answer' = answer \/ answer' = [answer EXCEPT ![t].status = -1]
  BY <1>4 DEF Found
<1>8. PICK a \in [status : -3..0, body : SUBSET T!HashEvent] :
         a.body = answer[t].body /\ answer' = [answer EXCEPT ![t] = a]
  <2>1. CASE answer' = answer
    BY <2>1, AnswerKept
  <2>2. CASE answer' = [answer EXCEPT ![t].status = -1]
    <3>1. \A b \in [status : -3..0, body : SUBSET T!HashEvent] :
             [b EXCEPT !.status = -1] = [status |-> -1, body |-> b.body]
      OBVIOUS
    <3>2. [status |-> -1, body |-> answer[t].body] \in [status : -3..0, body : SUBSET T!HashEvent]
      BY AnswerKept
    <3> QED BY <2>2, <3>1, <3>2, AnswerKept
  <2> QED BY <1>7, <2>1, <2>2
<1>9. \A id \in a.body : id.group = req[t].group
  BY <1>8, AnswerKept
<1>10. p \in Places /\ p # "idle" /\ p \notin {"copy", "get_new_client"}
  BY DEF Places
<1>11. p \notin {"idle", "leave", "find", "create"} => n # 0 /\ clients_group[n].group = req[t].group
  BY <1>5, <1>7
<1>12. p = "create" => \A i \in DOMAIN clients_group : clients_group[i].group # req[t].group
  BY <1>5, <1>7
<1>13. PICK r : r = req[t] /\ req' = [req EXCEPT ![t] = r]
  BY <1>6
<1>14. Outside(t, p, n, r, a)
  BY <1>1, <1>2, <1>6, <1>9, <1>10, <1>11, <1>12, <1>13 DEF Outside
<1> QED BY <1>2, <1>3, <1>4, <1>7, <1>8, <1>10, <1>13, <1>14, OutsideStep

LEMMA LeaveInv == ASSUME LocksInv, NEW t \in Threads, Leave(t) PROVE LocksInv'
<1>1. /\ pc[t] = "leave" /\ pc' = [pc EXCEPT ![t] = "idle"] /\ gate' = NoThread
      /\ req' = [req EXCEPT ![t] = NoRequest]
      /\ index' = [index EXCEPT ![t] = 0]
      /\ answer' = [answer EXCEPT ![t] = NoAnswer]
      /\ UNCHANGED <<clients_group, respon, clock>>
      /\ seen' = seen \cup answer[t].body /\ status' = answer[t].status
  BY DEF Leave, Goto
<1>2. \A u \in Threads : u # t => pc[u] = "idle"
  BY <1>1, Alone
<1>3. ~InGroup(t)
  BY <1>1 DEF InGroup, InTables
<1>4. seen' \subseteq T!HashEvent /\ status' \in -3..0
  BY <1>1, AnswerKept DEF LocksInv, TypeOK
<1>5. PICK p \in Places : p = "idle" /\ pc' = [pc EXCEPT ![t] = p]
  BY <1>1 DEF Places
<1>6. PICK a \in [status : -3..0, body : SUBSET T!HashEvent] :
         a.body = {} /\ answer' = [answer EXCEPT ![t] = a]
  <2>1. NoAnswer \in [status : -3..0, body : SUBSET T!HashEvent] /\ NoAnswer.body = {}
    BY DEF NoAnswer
  <2> QED BY <1>1, <2>1
<1>7. PICK n \in 0..Len(clients_group) : n = 0 /\ index' = [index EXCEPT ![t] = n]
  <2>1. 0 \in 0..Len(clients_group)
    BY DEF LocksInv, TypeOK
  <2> QED BY <1>1, <2>1
<1>8. PICK r : req' = [req EXCEPT ![t] = r]
  BY <1>1
<1>9. Outside(t, p, n, r, a)
  BY <1>1, <1>4, <1>5, <1>6 DEF Outside
<1> QED BY <1>2, <1>3, <1>5, <1>6, <1>7, <1>8, <1>9, OutsideStep

\* The groups that CreateGroup leaves behind: the old ones, maybe moved, and its own.
NewRow(t) ==
  [group |-> req[t].group, clients |-> << >>, events |-> EmptyTable(EmptySlot),
   mt_client |-> NoThread, mt_event |-> NoThread]

LEMMA CreatedRows ==
  ASSUME LocksInv, NEW t \in Threads, CreateGroup(t)
  PROVE  /\ clients_group' \in Seq(Group) /\ NewRow(t) \in Group
         /\ Len(clients_group') = Len(clients_group) + 1
         /\ clients_group'[Len(clients_group) + 1] = NewRow(t)
         /\ \A k \in DOMAIN NewRow(t).events : ~NewRow(t).events[k].busy
         /\ \A i \in DOMAIN clients_group :
               /\ clients_group'[i].group = clients_group[i].group
               /\ clients_group'[i].clients = clients_group[i].clients
               /\ clients_group'[i].events = clients_group[i].events
               /\ clients_group'[i].mt_client = NoThread /\ clients_group'[i].mt_event = NoThread
<1> USE ThreadsAssumption
<1> DEFINE m == Len(clients_group)
           new == NewRow(t)
           moved == [i \in DOMAIN clients_group |->
                       [clients_group[i] EXCEPT !.mt_client = NoThread, !.mt_event = NoThread]]
<1>1. pc[t] = "create" /\ clients_group' = Append(moved, new)
  BY DEF CreateGroup, NewRow
<1>3. /\ clients_group \in Seq(Group) /\ m \in Nat /\ DOMAIN clients_group = 1..m
      /\ req[t].group \in AllGroups
  <2>1. clients_group \in Seq(Group)
    BY DEF LocksInv, TypeOK
  <2>2. req[t].group \in AllGroups
    BY <1>1 DEF LocksInv, LocalsOK
  <2> QED BY <2>1, <2>2
<1>4. new \in Group /\ \A k \in DOMAIN new.events : ~new.events[k].busy
  <2>1. EmptyTable(EmptySlot) \in Seq(T!Slot)
    BY SlotType DEF EmptyTable
  <2>2. \A k \in DOMAIN EmptyTable(EmptySlot) : ~EmptyTable(EmptySlot)[k].busy
    BY SlotType DEF EmptyTable
  <2>3. << >> \in Seq(Workers)
    OBVIOUS
  <2> QED BY <1>3, <2>1, <2>2, <2>3 DEF Group, NewRow
<1>5. /\ moved \in Seq(Group) /\ DOMAIN moved = 1..m /\ Len(moved) = m
      /\ \A i \in 1..m : /\ moved[i].group = clients_group[i].group
                         /\ moved[i].clients = clients_group[i].clients
                         /\ moved[i].events = clients_group[i].events
                         /\ moved[i].mt_client = NoThread /\ moved[i].mt_event = NoThread
  <2> DEFINE Moved(c) == [c EXCEPT !.mt_client = NoThread, !.mt_event = NoThread]
  <2>1. \A c \in Group :
           /\ Moved(c) \in Group
           /\ Moved(c).group = c.group /\ Moved(c).clients = c.clients
           /\ Moved(c).events = c.events
           /\ Moved(c).mt_client = NoThread /\ Moved(c).mt_event = NoThread
    BY DEF Group
  <2>2. moved = [i \in 1..m |-> Moved(clients_group[i])]
    BY <1>3
  <2>3. \A i \in 1..m : clients_group[i] \in Group
    BY <1>3
  <2>4. \A i \in 1..m : /\ moved[i] = Moved(clients_group[i])
                         /\ Moved(clients_group[i]) \in Group
    BY <2>1, <2>2, <2>3
  <2>5. \A i \in 1..m : /\ moved[i].group = clients_group[i].group
                         /\ moved[i].clients = clients_group[i].clients
                         /\ moved[i].events = clients_group[i].events
                         /\ moved[i].mt_client = NoThread /\ moved[i].mt_event = NoThread
    <3> HIDE DEF Moved, moved
    <3> QED BY <2>1, <2>3, <2>4
  <2> HIDE DEF Moved
  <2>6. moved \in [1..m -> Group] /\ DOMAIN moved = 1..m
    BY <2>2, <2>4
  <2> HIDE DEF moved, m
  <2>7. moved \in Seq(Group) /\ Len(moved) = m
    BY <1>3, <2>6
  <2> QED BY <2>5, <2>6, <2>7
<1> HIDE DEF moved, m
<1> HIDE DEF moved, m, new
<1>6. /\ clients_group' \in Seq(Group) /\ Len(clients_group') = m + 1
      /\ clients_group'[m + 1] = new
      /\ \A i \in 1..m : clients_group'[i] = moved[i]
  BY <1>1, <1>3, <1>4, <1>5
<1> QED BY <1>3, <1>4, <1>5, <1>6 DEF m, new

\* The vector may move, which it can without harm: nobody owns a mutex in it.
LEMMA CreateGroupInv == ASSUME LocksInv, NEW t \in Threads, CreateGroup(t) PROVE LocksInv'
<1> USE ThreadsAssumption
<1> DEFINE m == Len(clients_group)
           new == NewRow(t)
<1>1. /\ pc[t] = "create" /\ gate' = gate
      /\ index' = [index EXCEPT ![t] = m + 1]
      /\ Found(t, m + 1)
      /\ UNCHANGED <<respon, clock, seen, status, req>>
  BY DEF CreateGroup
<1>2. gate = t /\ \A u \in Threads : u # t => pc[u] = "idle"
  BY <1>1, Alone
<1>3. /\ clients_group \in Seq(Group) /\ m \in Nat /\ DOMAIN clients_group = 1..m
      /\ pc \in [Threads -> Places] /\ index \in [Threads -> Nat]
      /\ req[t].group \in AllGroups /\ req[t].worker \in Workers
  <2>1. clients_group \in Seq(Group)
    BY DEF LocksInv, TypeOK
  <2>2. m \in Nat /\ DOMAIN clients_group = 1..m
    BY <2>1
  <2>3. pc \in [Threads -> Places] /\ index \in [Threads -> Nat]
    BY DEF LocksInv, LocalsOK
  <2>4. req[t].group \in AllGroups /\ req[t].worker \in Workers
    BY <1>1 DEF LocksInv, LocalsOK
  <2> QED BY <2>1, <2>2, <2>3, <2>4
<1>4. /\ clients_group' \in Seq(Group) /\ new \in Group /\ Len(clients_group') = m + 1
      /\ clients_group'[m + 1] = new
      /\ \A k \in DOMAIN new.events : ~new.events[k].busy
      /\ new.group = req[t].group /\ new.clients = << >>
      /\ new.mt_client = NoThread /\ new.mt_event = NoThread
  BY CreatedRows DEF NewRow
<1>5. \A i \in 1..m : /\ clients_group'[i].group = clients_group[i].group
                      /\ clients_group'[i].clients = clients_group[i].clients
                      /\ clients_group'[i].events = clients_group[i].events
                      /\ clients_group'[i].mt_client = NoThread
                      /\ clients_group'[i].mt_event = NoThread
  BY <1>3, CreatedRows
<1> HIDE DEF m, new
<1>6. /\ DOMAIN clients_group' = 1..(m + 1)
      /\ m + 1 \in Nat /\ m + 1 # 0
      /\ \A i \in 1..(m + 1) : i \in 1..m \/ i = m + 1
  BY <1>3, <1>4
<1>7. PICK p \in {"leave", "lock_client", "lock_event"} :
         /\ pc' = [pc EXCEPT ![t] = p]
         /\ answer' = answer \/ answer' = [answer EXCEPT ![t].status = -1]
  BY <1>1, <1>6 DEF Found
<1>8. PICK a \in [status : -3..0, body : SUBSET T!HashEvent] :
         a.body = answer[t].body /\ answer' = [answer EXCEPT ![t] = a]
  <2>1. CASE answer' = answer
    BY <2>1, AnswerKept
  <2>2. CASE answer' = [answer EXCEPT ![t].status = -1]
    <3>1. \A b \in [status : -3..0, body : SUBSET T!HashEvent] :
             [b EXCEPT !.status = -1] = [status |-> -1, body |-> b.body]
      OBVIOUS
    <3>2. [status |-> -1, body |-> answer[t].body] \in [status : -3..0, body : SUBSET T!HashEvent]
      BY AnswerKept
    <3> QED BY <2>2, <3>1, <3>2, AnswerKept
  <2> QED BY <1>7, <2>1, <2>2
<1>9. /\ pc' \in [Threads -> Places] /\ pc'[t] = p
      /\ \A u \in Threads : u # t => pc'[u] = "idle"
  BY <1>2, <1>3, <1>7 DEF Places
<1>10. /\ index' \in [Threads -> Nat] /\ index'[t] = m + 1
       /\ \A u \in Threads : u # t => index'[u] = index[u]
  BY <1>1, <1>3, <1>6
<1>11. /\ answer' \in [Threads -> [status : -3..0, body : SUBSET T!HashEvent]]
       /\ \A u \in Threads : answer'[u].body = answer[u].body
  BY <1>8 DEF LocksInv, LocalsOK
<1>12. \A u \in Threads : InGroup(u)' => u = t
  BY <1>9 DEF InGroup, InTables
<1>13. TypeOK'
  <2>1. \A u \in Threads : index[u] \in 0..m
    BY DEF LocksInv, TypeOK, m
  <2>2. \A u \in Threads : index'[u] \in 0..(m + 1)
    <3>1. m + 1 \in 0..(m + 1) /\ \A k \in 0..m : k \in 0..(m + 1)
      BY <1>3
    <3>2. \A u \in Threads : index'[u] = m + 1 \/ index'[u] = index[u]
      BY <1>10
    <3> QED BY <2>1, <3>1, <3>2
  <2>3. \A u \in Threads : InGroup(u)' => index'[u] # 0
    BY <1>6, <1>10, <1>12
  <2>4. \A u \in Threads : answer'[u].body \subseteq T!HashEvent
    BY <1>11
  <2>5. /\ gate' \in Threads \cup {NoThread} /\ respon' \subseteq T!HashEvent
        /\ seen' \subseteq T!HashEvent /\ status' \in -3..0
    BY <1>1 DEF LocksInv, TypeOK
  <2> QED BY <1>4, <1>6, <2>2, <2>3, <2>4, <2>5 DEF TypeOK
<1>14. LocalsOK'
  <2>1. \A u \in Threads : pc'[u] # "idle" => u = t /\ pc[u] # "idle"
    BY <1>1, <1>9
  <2>2. /\ req' = [u \in Threads |-> req'[u]] /\ clock' \in 0..MaxClock
        /\ \A u \in Threads : pc'[u] # "idle" =>
              /\ req'[u].group \in AllGroups /\ req'[u].worker \in Workers
              /\ req'[u].op = "add_new_event" => req'[u].ev \in Messages
    BY <1>1, <2>1 DEF LocksInv, LocalsOK
  <2> QED BY <1>9, <1>10, <1>11, <2>2 DEF LocalsOK
<1>15. OwnersInv'
  <2>1. \A i \in 1..(m + 1) : clients_group'[i].mt_client = NoThread
                              /\ clients_group'[i].mt_event = NoThread
    BY <1>4, <1>5, <1>6
  <2> QED BY <1>1, <1>2, <1>6, <1>9, <2>1 DEF OwnersInv
<1>16. FoundInv'
  <2>1. My(t)'.group = req'[t].group
    BY <1>1, <1>4, <1>10 DEF My
  <2> QED BY <1>9, <1>12, <2>1 DEF FoundInv
<1>17. HashesInv'
  <2>1. \A i \in 1..m : NamesOwn(clients_group'[i])
    <3>1. ASSUME NEW i \in 1..m PROVE NamesOwn(clients_group'[i])
      <4>1. NamesOwn(clients_group[i])
        BY <1>3 DEF LocksInv, HashesInv, NamesOwn
      <4>2. /\ clients_group'[i].events = clients_group[i].events
            /\ clients_group'[i].group = clients_group[i].group
        BY <1>5, <1>6
      <4> QED BY <4>1, <4>2 DEF NamesOwn
    <3> QED BY <3>1
  <2>2. NamesOwn(clients_group'[m + 1])
    BY <1>4, <1>6 DEF NamesOwn
  <2>3. \A i \in DOMAIN clients_group' : NamesOwn(clients_group'[i])
    BY <1>6, <2>1, <2>2
  <2>4. \A u \in Threads : pc'[u] = "idle" => pc[u] = "idle"
    BY <1>2, <1>9
  <2>5. \A u \in Threads : pc'[u] = "idle" => answer'[u].body = {}
    BY <1>11, <2>4 DEF LocksInv, HashesInv
  <2>6. \A u \in Threads : pc'[u] # "copy"
    BY <1>9
  <2> QED BY <2>3, <2>5, <2>6 DEF HashesInv, NamesOwn
<1>18. NoDuplicateRows'
  <2>1. \A i \in 1..m : clients_group'[i].group = clients_group[i].group
                        /\ clients_group'[i].clients = clients_group[i].clients
    BY <1>5, <1>6
  <2>2. \A i \in 1..m : clients_group[i].group # req[t].group
    BY <1>1, <1>3 DEF LocksInv, FoundInv
  <2>3. clients_group'[m + 1].group = req[t].group /\ clients_group'[m + 1].clients = << >>
    BY <1>4
  <2>4. \A i, j \in 1..m : clients_group'[i].group = clients_group'[j].group => i = j
    BY <1>3, <2>1 DEF LocksInv, NoDuplicateRows
  <2>5. \A i, j \in 1..(m + 1) : clients_group'[i].group = clients_group'[j].group => i = j
    BY <1>6, <2>1, <2>2, <2>3, <2>4
  <2>6. \A i \in 1..(m + 1) : NoWorkerTwice(clients_group'[i])
    <3>1. ASSUME NEW i \in 1..m PROVE NoWorkerTwice(clients_group'[i])
      <4>1. NoWorkerTwice(clients_group[i])
        BY <1>3 DEF LocksInv, NoDuplicateRows, NoWorkerTwice
      <4> QED BY <2>1, <4>1 DEF NoWorkerTwice
    <3>2. NoWorkerTwice(clients_group'[m + 1])
      BY <2>3 DEF NoWorkerTwice
    <3> QED BY <1>6, <3>1, <3>2
  <2> QED BY <1>6, <2>5, <2>6 DEF NoDuplicateRows, NoWorkerTwice
<1>19. AnswerIsOwnGroup'
  BY <1>1, <1>11 DEF LocksInv, AnswerIsOwnGroup
<1> QED BY <1>13, <1>14, <1>15, <1>16, <1>17, <1>18, <1>19 DEF LocksInv

-----------------------------------------------------------------------------

LEMMA InitInv == Init => LocksInv
<1> USE ThreadsAssumption
<1> SUFFICES ASSUME Init PROVE LocksInv
  OBVIOUS
<1>1. /\ clients_group = << >> /\ gate = NoThread /\ respon = {} /\ seen = {} /\ status = 0
      /\ clock = 0
      /\ pc = [t \in Threads |-> "idle"] /\ index = [t \in Threads |-> 0]
      /\ req = [t \in Threads |-> NoRequest] /\ answer = [t \in Threads |-> NoAnswer]
  BY DEF Init
<1>2. NoAnswer \in [status : -3..0, body : SUBSET T!HashEvent] /\ NoAnswer.body = {}
  BY DEF NoAnswer
<1>3. clients_group \in Seq(Group) /\ Len(clients_group) = 0 /\ DOMAIN clients_group = {}
  BY <1>1
<1>4. TypeOK
  BY <1>1, <1>2, <1>3 DEF TypeOK, InGroup, InTables
<1>5. LocalsOK
  BY <1>1, <1>2 DEF LocalsOK, Places
<1>6. OwnersInv /\ FoundInv /\ HashesInv /\ NoDuplicateRows /\ AnswerIsOwnGroup
  BY <1>1, <1>2, <1>3 DEF OwnersInv, FoundInv, HashesInv, NoDuplicateRows, AnswerIsOwnGroup,
                          InGroup, InTables
<1> QED BY <1>4, <1>5, <1>6 DEF LocksInv

LEMMA StutterInv == ASSUME LocksInv, UNCHANGED vars PROVE LocksInv'
<1>1. TypeOK' /\ LocalsOK'
  BY DEF vars, locals, LocksInv, TypeOK, LocalsOK, InGroup, InTables
<1>2. OwnersInv' /\ FoundInv'
  BY DEF vars, locals, LocksInv, OwnersInv, FoundInv, Owns, InGroup, InTables, My, IsClient
<1>3. HashesInv' /\ NoDuplicateRows' /\ AnswerIsOwnGroup'
  BY DEF vars, locals, LocksInv, HashesInv, NoDuplicateRows, AnswerIsOwnGroup
<1> QED BY <1>1, <1>2, <1>3 DEF LocksInv

LEMMA NextInv == ASSUME LocksInv, [Next]_vars PROVE LocksInv'
<1>1. ASSUME NEW t \in Threads, Enter(t) \/ Step(t) PROVE LocksInv'
  BY <1>1, EnterInv, find_groupInv, CreateGroupInv, LockClientInv, LockEventInv, check_clientInv,
     get_new_clientInv, StartWorkInv, ClearWorkInv, EndWorkInv, AddWorkInv, GetWorkInv,
     CopyResponInv, UnlockInv, LeaveInv DEF Step
<1> QED BY <1>1, StutterInv DEF Next

\* What a handler has looked up under tasker_manager::mt stays true until it
\* gives mt back.
THEOREM ThreadsLocks == Spec => []LocksInv
BY InitInv, NextInv, PTL DEF Spec

\* No thread adds a group, which may move all of them to new memory, while
\* another thread reads the table or works in a group.
THEOREM ThreadsNoMoveUnderFoot == Spec => []NoMoveUnderFoot
<1>1. LocksInv => NoMoveUnderFoot
  BY DEF LocksInv, OwnersInv, NoMoveUnderFoot, InTables
<1> QED BY <1>1, ThreadsLocks, PTL

\* Looking a group or a client up and adding the missing one in separate steps
\* never leaves two rows of one name.
THEOREM ThreadsNoDuplicateRows == Spec => []NoDuplicateRows
<1>1. LocksInv => NoDuplicateRows
  BY DEF LocksInv
<1> QED BY <1>1, ThreadsLocks, PTL

\* Nobody waits for mt_client or mt_event of a group, so the two orders in which
\* handlers take them can lock no two threads against each other.
THEOREM ThreadsInnerLocksNeverContended == Spec => []InnerLocksNeverContended
<1>1. LocksInv => InnerLocksNeverContended
  <2> SUFFICES ASSUME LocksInv, NEW t \in Threads, NEW i \in DOMAIN clients_group, InTables(t)
               PROVE  /\ clients_group[i].mt_client \in {NoThread, t}
                      /\ clients_group[i].mt_event \in {NoThread, t}
    BY DEF InnerLocksNeverContended, Passes
  <2>1. pc[t] # "idle"
    BY DEF InTables
  <2>2. \A u \in Threads : u \in {clients_group[i].mt_client, clients_group[i].mt_event} => u = t
    BY <2>1, Alone DEF LocksInv, OwnersInv, Owns, InGroup, InTables
  <2>3. clients_group[i] \in Group
    BY DEF LocksInv, TypeOK
  <2> QED BY <2>2, <2>3, RowTypes
<1> QED BY <1>1, ThreadsLocks, PTL

\* A get_events_json answer names events of the group that was asked for only,
\* although every thread puts its answer together in one static string.
THEOREM ThreadsAnswerIsOwnGroup == Spec => []AnswerIsOwnGroup
<1>1. LocksInv => AnswerIsOwnGroup
  BY DEF LocksInv
<1> QED BY <1>1, ThreadsLocks, PTL

-----------------------------------------------------------------------------
(***************************************************************************)
(* The threads implement Tasker.  All that others can see of a handler     *)
(* happens when it leaves; until then HandlersInv says how far it has got. *)
(***************************************************************************)

\* The tables as functions of the vector of groups.

Distinct(rows) == \A i, j \in DOMAIN rows : rows[i].group = rows[j].group => i = j

WorkersIn(row) == {row.clients[k] : k \in DOMAIN row.clients}

FoundAt(rows, g, i) ==
  \/ i = 0 /\ \A j \in DOMAIN rows : rows[j].group # g
  \/ /\ i \in DOMAIN rows
     /\ rows[i].group = g
     /\ \A j \in 1..(i-1) : rows[j].group # g

NamesIn(rows) == {rows[i].group : i \in DOMAIN rows}

ClientsIn(rows, g) ==
  UNION {{c.clients[k] : k \in DOMAIN c.clients} :
            c \in {rows[i] : i \in {k \in DOMAIN rows : FoundAt(rows, g, k)}}}

EventsIn(rows, g) ==
  IF g \in NamesIn(rows)
  THEN rows[CHOOSE i \in DOMAIN rows : FoundAt(rows, g, i)].events
  ELSE EmptyTable(EmptySlot)

ClientTable(rows) == [g \in AllGroups |-> ClientsIn(rows, g)]
EventTable(rows) == [g \in AllGroups |-> EventsIn(rows, g)]

LEMMA TablesAre ==
  /\ GroupNames = NamesIn(clients_group)
  /\ Tables.clients_group = GroupNames
  /\ Tables.clients = ClientTable(clients_group)
  /\ Tables.events = EventTable(clients_group)
  /\ Tables.clock = clock /\ Tables.grants = grants
BY DEF Tables, GroupNames, ClientsOf, EventsOf, IndexOf, NamesIn, ClientTable, EventTable,
       ClientsIn, EventsIn, FoundAt, AllGroups, T!AllGroups

LEMMA NewTablesAre ==
  /\ GroupNames' = NamesIn(clients_group')
  /\ Tables'.clients_group = GroupNames'
  /\ Tables'.clients = ClientTable(clients_group')
  /\ Tables'.events = EventTable(clients_group')
  /\ Tables'.clock = clock' /\ Tables'.grants = grants'
BY DEF Tables, GroupNames, ClientsOf, EventsOf, IndexOf, NamesIn, ClientTable, EventTable,
       ClientsIn, EventsIn, FoundAt, AllGroups, T!AllGroups

\* Where no two rows have the same name, a row is found by its name.
LEMMA RowFound ==
  ASSUME NEW rows \in Seq(Group), Distinct(rows), NEW i \in DOMAIN rows
  PROVE  /\ \A j \in DOMAIN rows : FoundAt(rows, rows[i].group, j) <=> j = i
         /\ rows[i].group \in NamesIn(rows)
         /\ ClientsIn(rows, rows[i].group) = WorkersIn(rows[i])
         /\ EventsIn(rows, rows[i].group) = rows[i].events
<1>1. DOMAIN rows = 1..Len(rows) /\ Len(rows) \in Nat
  OBVIOUS
<1>2. \A j \in DOMAIN rows : FoundAt(rows, rows[i].group, j) <=> j = i
  BY <1>1 DEF FoundAt, Distinct
<1>3. rows[i].group \in NamesIn(rows)
  BY DEF NamesIn
<1>4. {k \in DOMAIN rows : FoundAt(rows, rows[i].group, k)} = {i}
  BY <1>2
<1>5. ClientsIn(rows, rows[i].group) = WorkersIn(rows[i])
  BY <1>4 DEF ClientsIn, WorkersIn
<1>6. (CHOOSE j \in DOMAIN rows : FoundAt(rows, rows[i].group, j)) = i
  BY <1>2
<1>7. EventsIn(rows, rows[i].group) = rows[i].events
  BY <1>3, <1>6 DEF EventsIn
<1> QED BY <1>2, <1>3, <1>5, <1>7

LEMMA RowMissing ==
  ASSUME NEW rows \in Seq(Group), NEW g, g \notin NamesIn(rows)
  PROVE  ClientsIn(rows, g) = {} /\ EventsIn(rows, g) = EmptyTable(EmptySlot)
<1>1. DOMAIN rows = 1..Len(rows) /\ Len(rows) \in Nat
  OBVIOUS
<1>2. {k \in DOMAIN rows : FoundAt(rows, g, k)} = {}
  BY <1>1 DEF FoundAt, NamesIn
<1>3. ClientsIn(rows, g) = {}
  BY <1>2 DEF ClientsIn
<1> QED BY <1>3 DEF EventsIn

\* Two vectors that agree on the row of a name agree on what is found by it.
LEMMA SameRow ==
  ASSUME NEW old \in Seq(Group), Distinct(old), NEW new \in Seq(Group), Distinct(new),
         NEW i \in DOMAIN old, NEW j \in DOMAIN new, old[i].group = new[j].group,
         old[i].clients = new[j].clients, old[i].events = new[j].events
  PROVE  /\ ClientsIn(new, old[i].group) = ClientsIn(old, old[i].group)
         /\ EventsIn(new, old[i].group) = EventsIn(old, old[i].group)
<1>1. WorkersIn(old[i]) = WorkersIn(new[j])
  BY DEF WorkersIn
<1> QED BY <1>1, RowFound

\* One row changes, but keeps its name.
RowReplaced(rows, i, row, new) ==
  /\ rows \in Seq(Group) /\ Distinct(rows) /\ i \in DOMAIN rows
  /\ row \in Group /\ row.group = rows[i].group
  /\ new \in Seq(Group) /\ DOMAIN new = DOMAIN rows /\ new[i] = row
  /\ \A j \in DOMAIN rows : j # i => new[j] = rows[j]

LEMMA RowChanged ==
  ASSUME NEW rows, NEW i, NEW row, NEW new, RowReplaced(rows, i, row, new)
  PROVE  /\ NamesIn(new) = NamesIn(rows)
         /\ ClientTable(new) = [ClientTable(rows) EXCEPT ![row.group] = WorkersIn(row)]
         /\ EventTable(new) = [EventTable(rows) EXCEPT ![row.group] = row.events]
<1> USE DEF RowReplaced
<1>1. \A j \in DOMAIN rows : new[j].group = rows[j].group
  OBVIOUS
<1>2. Distinct(new)
  BY <1>1 DEF Distinct
<1>3. NamesIn(new) = NamesIn(rows)
  BY <1>1 DEF NamesIn
<1>4. ClientsIn(new, row.group) = WorkersIn(row) /\ EventsIn(new, row.group) = row.events
  BY <1>1, <1>2, RowFound
<1>5. ASSUME NEW g, g # row.group
      PROVE  ClientsIn(new, g) = ClientsIn(rows, g) /\ EventsIn(new, g) = EventsIn(rows, g)
  <2>1. CASE g \notin NamesIn(rows)
    BY <1>1, <1>3, <2>1, RowMissing
  <2>2. ASSUME NEW j \in DOMAIN rows, g = rows[j].group
        PROVE  ClientsIn(new, g) = ClientsIn(rows, g) /\ EventsIn(new, g) = EventsIn(rows, g)
    <3>1. j \in DOMAIN new /\ new[j] = rows[j]
      BY <1>1, <1>5, <2>2
    <3> QED BY <1>1, <1>2, <2>2, <3>1, SameRow
  <2> QED BY <2>1, <2>2 DEF NamesIn
<1>6. row.group \in AllGroups
  BY RowTypes
<1>7. ClientTable(new) = [ClientTable(rows) EXCEPT ![row.group] = WorkersIn(row)]
  BY <1>4, <1>5, <1>6 DEF ClientTable
<1>8. EventTable(new) = [EventTable(rows) EXCEPT ![row.group] = row.events]
  BY <1>4, <1>5, <1>6 DEF EventTable
<1> QED BY <1>3, <1>7, <1>8

\* A new row with no clients and free slots only shows in the names alone.
LEMMA RowAdded ==
  ASSUME NEW rows \in Seq(Group), Distinct(rows), NEW new \in Seq(Group), Distinct(new),
         Len(new) = Len(rows) + 1,
         \A i \in DOMAIN rows : /\ new[i].group = rows[i].group
                                /\ new[i].clients = rows[i].clients
                                /\ new[i].events = rows[i].events,
         new[Len(new)].clients = << >>, new[Len(new)].events = EmptyTable(EmptySlot)
  PROVE  /\ NamesIn(new) = NamesIn(rows) \cup {new[Len(new)].group}
         /\ ClientTable(new) = ClientTable(rows)
         /\ EventTable(new) = EventTable(rows)
<1> DEFINE m == Len(new)
           g == new[m].group
<1>1. /\ m \in Nat /\ DOMAIN new = 1..m /\ m \in DOMAIN new /\ Len(rows) = m - 1
      /\ DOMAIN rows = 1..(m - 1) /\ m \notin DOMAIN rows
      /\ \A i \in DOMAIN new : i = m \/ i \in DOMAIN rows
      /\ \A i \in DOMAIN rows : i \in DOMAIN new
  OBVIOUS
<1> HIDE DEF m
<1>2. NamesIn(new) = NamesIn(rows) \cup {g}
  BY <1>1 DEF NamesIn
<1>3. g \notin NamesIn(rows)
  BY <1>1 DEF NamesIn, Distinct
<1>4. ASSUME NEW h
      PROVE  ClientsIn(new, h) = ClientsIn(rows, h) /\ EventsIn(new, h) = EventsIn(rows, h)
  <2>1. CASE h \notin NamesIn(new)
    BY <1>2, <2>1, RowMissing
  <2>2. CASE h = g
    <3>1. WorkersIn(new[m]) = {}
      BY DEF WorkersIn, m
    <3>2. ClientsIn(new, g) = {} /\ EventsIn(new, g) = EmptyTable(EmptySlot)
      BY <1>1, <3>1, RowFound DEF m
    <3> QED BY <1>3, <2>2, <3>2, RowMissing
  <2>3. ASSUME NEW i \in DOMAIN rows, h = rows[i].group
        PROVE  ClientsIn(new, h) = ClientsIn(rows, h) /\ EventsIn(new, h) = EventsIn(rows, h)
    BY <1>1, <2>3, SameRow
  <2> QED BY <1>2, <2>1, <2>2, <2>3 DEF NamesIn
<1> QED BY <1>2, <1>4 DEF ClientTable, EventTable, m

LEMMA RowsDistinct ==
  ASSUME LocksInv
  PROVE  clients_group \in Seq(Group) /\ Distinct(clients_group)
BY DEF LocksInv, TypeOK, NoDuplicateRows, Distinct

\* What the tables say of the group a thread works in.
LEMMA MyTable ==
  ASSUME LocksInv, NEW t \in Threads, InGroup(t)
  PROVE  /\ req[t].group \in AllGroups
         /\ Tables.clients[req[t].group] = WorkersIn(My(t))
         /\ Tables.events[req[t].group] = My(t).events
<1>1. /\ clients_group \in Seq(Group) /\ Distinct(clients_group)
      /\ index[t] \in DOMAIN clients_group
      /\ clients_group[index[t]].group = req[t].group /\ req[t].group \in AllGroups
  BY AtWork, RowsDistinct DEF My
<1> QED BY <1>1, RowFound, TablesAre DEF ClientTable, EventTable, My

\* The thread changes the row of its group.
LEMMA TablesRow ==
  ASSUME LocksInv, NEW t \in Threads, InGroup(t), NEW row \in Group, row.group = My(t).group,
         clients_group' = [clients_group EXCEPT ![index[t]] = row]
  PROVE  /\ GroupNames' = GroupNames
         /\ Tables'.clients = [Tables.clients EXCEPT ![req[t].group] = WorkersIn(row)]
         /\ Tables'.events = [Tables.events EXCEPT ![req[t].group] = row.events]
<1>1. /\ clients_group \in Seq(Group) /\ Distinct(clients_group)
      /\ index[t] \in DOMAIN clients_group
      /\ row.group = clients_group[index[t]].group /\ row.group = req[t].group
  BY AtWork, RowsDistinct DEF My
<1>2. PICK new : new = clients_group'
  OBVIOUS
<1>3. /\ NamesIn(new) = NamesIn(clients_group)
      /\ ClientTable(new) = [ClientTable(clients_group) EXCEPT ![row.group] = WorkersIn(row)]
      /\ EventTable(new) = [EventTable(clients_group) EXCEPT ![row.group] = row.events]
  <2>1. RowReplaced(clients_group, index[t], row, new)
    BY <1>1, <1>2, RowUpdate DEF RowReplaced
  <2> QED BY <2>1, RowChanged
<1>4. /\ GroupNames' = NamesIn(new) /\ GroupNames = NamesIn(clients_group)
      /\ Tables'.clients = ClientTable(new) /\ Tables.clients = ClientTable(clients_group)
      /\ Tables'.events = EventTable(new) /\ Tables.events = EventTable(clients_group)
  BY <1>2, TablesAre, NewTablesAre
<1> QED BY <1>1, <1>3, <1>4

\* Nobody notices when its clients, its events or both stay.
LEMMA TablesOwnRow ==
  ASSUME LocksInv, NEW t \in Threads, InGroup(t)
  PROVE  /\ Tables.clients = [Tables.clients EXCEPT ![req[t].group] = WorkersIn(My(t))]
         /\ Tables.events = [Tables.events EXCEPT ![req[t].group] = My(t).events]
BY MyTable, TablesAre DEF ClientTable, EventTable

SameTables ==
  /\ GroupNames' = GroupNames
  /\ Tables'.clients = Tables.clients /\ Tables'.events = Tables.events
  /\ clock' = clock /\ grants' = grants

LEMMA MutexRow ==
  ASSUME LocksInv, NEW t \in Threads, InGroup(t), NEW row \in Group, row.group = My(t).group,
         row.clients = My(t).clients, row.events = My(t).events,
         clients_group' = [clients_group EXCEPT ![index[t]] = row],
         UNCHANGED <<clock, grants>>
  PROVE  SameTables
<1>1. WorkersIn(row) = WorkersIn(My(t))
  BY DEF WorkersIn
<1>2. /\ GroupNames' = GroupNames
      /\ Tables'.clients = [Tables.clients EXCEPT ![req[t].group] = WorkersIn(row)]
      /\ Tables'.events = [Tables.events EXCEPT ![req[t].group] = row.events]
  BY TablesRow
<1> QED BY <1>1, <1>2, TablesOwnRow DEF SameTables

LEMMA UnchangedTables ==
  ASSUME UNCHANGED <<clients_group, clock, grants>>
  PROVE  SameTables /\ Tables' = Tables
<1>1. SameTables
  BY TablesAre, NewTablesAre DEF SameTables
<1>2. Tables' = Tables
  BY DEF Tables, GroupNames, ClientsOf, EventsOf, IndexOf
<1> QED BY <1>1, <1>2

-----------------------------------------------------------------------------
\* One step of a handler, from one stage to the next.

LEMMA Running ==
  ASSUME IInv, NEW t \in Threads, pc[t] # "idle"
  PROVE  /\ LocksInv /\ Progress(t)
         /\ gate = t /\ t # NoThread /\ \A u \in Threads : u # t => pc[u] = "idle"
BY Alone, ThreadsAssumption DEF IInv, HandlersInv

\* The handler goes on, with another answer maybe, and its tables are seen as before.
Continues(t, p) ==
  /\ pc[t] # "idle" /\ p \in Places /\ p # "idle"
  /\ pc' = [pc EXCEPT ![t] = p]
  /\ \A u \in Threads : u # t => answer'[u] = answer[u]
  /\ UNCHANGED <<gate, req, seen, status, committed>>

LEMMA ProgressStep ==
  ASSUME IInv, NEW t \in Threads, NEW p, Continues(t, p),
         p \in {"find", "create"} => Untouched(t)',
         p \in {"lock_client", "lock_event", "check_client", "get_new_client"} => Grouped(t)',
         p \in {"work", "copy"} => Registered(t)',
         p = "unlock" => Served(t)',
         p = "leave" => Served(t)' \/ Refused(t)'
  PROVE  HandlersInv' /\ UNCHANGED T!vars
<1>1. /\ LocksInv /\ Progress(t) /\ gate = t /\ t # NoThread
      /\ \A u \in Threads : u # t => pc[u] = "idle"
      /\ pc \in [Threads -> Places]
  BY Running DEF Continues, LocksInv, LocalsOK
<1>2. pc'[t] = p /\ p # "idle" /\ \A u \in Threads : u # t => pc'[u] = "idle"
  BY <1>1 DEF Continues
<1>3. RequestOK(t)'
  BY <1>1 DEF Continues, Progress, RequestOK, T!NextHop
<1>4. Progress(t)'
  BY <1>2, <1>3 DEF Progress
<1>5. \A u \in Threads : u # t => gate' # u /\ Replied(u, 0, {})'
  BY <1>1 DEF Continues, IInv, HandlersInv, Replied
<1>6. HandlersInv'
  BY <1>2, <1>4, <1>5 DEF HandlersInv
<1>7. UNCHANGED T!vars
  BY <1>1 DEF Continues, T!vars, Visible
<1> QED BY <1>6, <1>7

\* While the tables look the same, a stage that was reached stays reached.
LEMMA StageKept ==
  ASSUME SameTables, UNCHANGED <<req, committed>>, NEW t \in Threads
  PROVE  /\ answer'[t] = answer[t] /\ Grouped(t) => Grouped(t)'
         /\ ClientThere(t) => ClientThere(t)'
         /\ answer'[t] = answer[t] /\ Served(t) => Served(t)'
<1>1. GroupThere(t) => GroupThere(t)'
  BY DEF SameTables, GroupThere
<1>2. ClientThere(t) => ClientThere(t)'
  BY <1>1 DEF SameTables, ClientThere
<1>3. answer'[t] = answer[t] /\ Grouped(t) => Grouped(t)'
  BY <1>1 DEF SameTables, Grouped, SameClients, SameEvents, SameCounts, Replied
<1>4. SUFFICES ASSUME answer'[t] = answer[t], Served(t) PROVE Served(t)'
  BY <1>2, <1>3
<1>5. GetDone(t) => GetDone(t)'
  BY <1>4 DEF SameTables, GetDone, Rows, SameEvents, SameCounts, Replied
<1>6. StartDone(t) => StartDone(t)'
  BY <1>4 DEF SameTables, StartDone, Rows, Changed, SameEvents, SameCounts, Replied
<1>7. ClearDone(t) => ClearDone(t)'
  BY <1>4 DEF SameTables, ClearDone, Rows, Changed, HashMade, SameEvents, SameCounts, Replied
<1>8. EndDone(t) => EndDone(t)'
  BY <1>4 DEF SameTables, EndDone, Rows, Changed, SameEvents, SameCounts, Replied
<1>9. AddDone(t) => AddDone(t)'
  <2>1. HashMade(t)' = HashMade(t) /\ Rows(t)' = Rows(t) /\ req'[t] = req[t]
    BY DEF HashMade, Rows
  <2>2. \A i, slot : Changed(t, i, slot) => Changed(t, i, slot)'
    BY DEF SameTables, Changed
  <2>3. Replied(t, 0, {}) => Replied(t, 0, {})'
    BY <1>4 DEF Replied
  <2>4. UNCHANGED <<committed, clock, grants>> /\ Tables'.events = Tables.events
    BY DEF SameTables
  <2> QED BY <2>1, <2>2, <2>3, <2>4 DEF AddDone, Vacant, AllBusy
<1> QED BY <1>2, <1>4, <1>5, <1>6, <1>7, <1>8, <1>9 DEF Served

\* What SetMine makes of the row.
LEMMA SetMineRow ==
  ASSUME LocksInv, NEW t \in Threads, InGroup(t), NEW field, NEW v, SetMine(t, field, v)
  PROVE  /\ field = "clients" =>
              clients_group' = [clients_group EXCEPT ![index[t]] =
                [group |-> My(t).group, clients |-> v, events |-> My(t).events,
                 mt_client |-> My(t).mt_client, mt_event |-> My(t).mt_event]]
         /\ field = "events" =>
              clients_group' = [clients_group EXCEPT ![index[t]] =
                [group |-> My(t).group, clients |-> My(t).clients, events |-> v,
                 mt_client |-> My(t).mt_client, mt_event |-> My(t).mt_event]]
         /\ field = "mt_client" =>
              clients_group' = [clients_group EXCEPT ![index[t]] =
                [group |-> My(t).group, clients |-> My(t).clients, events |-> My(t).events,
                 mt_client |-> v, mt_event |-> My(t).mt_event]]
         /\ field = "mt_event" =>
              clients_group' = [clients_group EXCEPT ![index[t]] =
                [group |-> My(t).group, clients |-> My(t).clients, events |-> My(t).events,
                 mt_client |-> My(t).mt_client, mt_event |-> v]]
<1>1. clients_group' = [clients_group EXCEPT ![index[t]] = [My(t) EXCEPT ![field] = v]]
  BY SetMineIs
<1>2. My(t) \in Group
  BY AtWork
<1>3. field = "clients" =>
        [My(t) EXCEPT ![field] = v] =
          [group |-> My(t).group, clients |-> v, events |-> My(t).events,
           mt_client |-> My(t).mt_client, mt_event |-> My(t).mt_event]
  BY <1>2, SetField
<1>4. field = "events" =>
        [My(t) EXCEPT ![field] = v] =
          [group |-> My(t).group, clients |-> My(t).clients, events |-> v,
           mt_client |-> My(t).mt_client, mt_event |-> My(t).mt_event]
  BY <1>2, SetField
<1>5. field = "mt_client" =>
        [My(t) EXCEPT ![field] = v] =
          [group |-> My(t).group, clients |-> My(t).clients, events |-> My(t).events,
           mt_client |-> v, mt_event |-> My(t).mt_event]
  BY <1>2, SetField
<1>6. field = "mt_event" =>
        [My(t) EXCEPT ![field] = v] =
          [group |-> My(t).group, clients |-> My(t).clients, events |-> My(t).events,
           mt_client |-> My(t).mt_client, mt_event |-> v]
  BY <1>2, SetField
<1> QED BY <1>1, <1>3, <1>4, <1>5, <1>6

\* To take a mutex of the group changes nothing in the tables.
LEMMA MutexTables ==
  ASSUME LocksInv, NEW t \in Threads, InGroup(t),
         SetMine(t, "mt_client", t) \/ SetMine(t, "mt_event", t),
         UNCHANGED <<clock, grants>>
  PROVE  SameTables
<1>1. /\ My(t) \in Group /\ My(t).group \in AllGroups /\ My(t).clients \in Seq(Workers)
      /\ My(t).events \in Seq(T!Slot)
      /\ My(t).mt_client \in Threads \cup {NoThread} /\ My(t).mt_event \in Threads \cup {NoThread}
  BY AtWork, RowTypes
<1> DEFINE Row(c, e) == [group |-> My(t).group, clients |-> My(t).clients,
                         events |-> My(t).events, mt_client |-> c, mt_event |-> e]
<1>2. PICK c \in Threads \cup {NoThread}, e \in Threads \cup {NoThread} :
         clients_group' = [clients_group EXCEPT ![index[t]] = Row(c, e)]
  <2>1. CASE SetMine(t, "mt_client", t)
    <3>1. clients_group' = [clients_group EXCEPT ![index[t]] = Row(t, My(t).mt_event)]
      BY <2>1, SetMineRow
    <3> QED BY <1>1, <3>1
  <2>2. CASE SetMine(t, "mt_event", t)
    <3>1. clients_group' = [clients_group EXCEPT ![index[t]] = Row(My(t).mt_client, t)]
      BY <2>2, SetMineRow
    <3> QED BY <1>1, <3>1
  <2> QED BY <2>1, <2>2
<1>3. /\ Row(c, e) \in Group /\ Row(c, e).group = My(t).group
      /\ Row(c, e).clients = My(t).clients /\ Row(c, e).events = My(t).events
  BY <1>1 DEF Group
<1> HIDE DEF Row
<1>4. PICK row \in Group :
         /\ row.group = My(t).group /\ row.clients = My(t).clients /\ row.events = My(t).events
         /\ clients_group' = [clients_group EXCEPT ![index[t]] = row]
  BY <1>2, <1>3
<1> QED BY <1>4, MutexRow

LEMMA LockClientStep ==
  ASSUME IInv, NEW t \in Threads, LockClient(t)
  PROVE  HandlersInv' /\ UNCHANGED T!vars
<1>1. /\ pc[t] = "lock_client" /\ InGroup(t) /\ Continues(t, "lock_event")
      /\ SetMine(t, "mt_client", t) /\ UNCHANGED <<clock, grants, req, committed, answer>>
  BY DEF LockClient, Goto, InGroup, InTables, Continues, Places
<1>2. LocksInv /\ Grouped(t)
  BY <1>1, Running DEF Progress
<1>3. SameTables
  BY <1>1, <1>2, MutexTables
<1>4. Grouped(t)'
  BY <1>1, <1>2, <1>3, StageKept
<1> QED BY <1>1, <1>4, ProgressStep

LEMMA LockEventStep ==
  ASSUME IInv, NEW t \in Threads, LockEvent(t)
  PROVE  HandlersInv' /\ UNCHANGED T!vars
<1>1. /\ pc[t] = "lock_event" /\ InGroup(t) /\ Continues(t, "check_client")
      /\ SetMine(t, "mt_event", t) /\ UNCHANGED <<clock, grants, req, committed, answer>>
  BY DEF LockEvent, Goto, InGroup, InTables, Continues, Places
<1>2. LocksInv /\ Grouped(t)
  BY <1>1, Running DEF Progress
<1>3. SameTables
  BY <1>1, <1>2, MutexTables
<1>4. Grouped(t)'
  BY <1>1, <1>2, <1>3, StageKept
<1> QED BY <1>1, <1>4, ProgressStep

\* The worker of the request is a client of the group: it is registered.
LEMMA check_clientStep ==
  ASSUME IInv, NEW t \in Threads, check_client(t)
  PROVE  HandlersInv' /\ UNCHANGED T!vars
<1> DEFINE g == req[t].group
           w == req[t].worker
<1>1. /\ pc[t] = "check_client" /\ InGroup(t)
      /\ UNCHANGED <<clients_group, clock, grants, req, committed, answer>>
  BY DEF check_client, Goto, InGroup, InTables
<1>2. LocksInv /\ Grouped(t)
  BY <1>1, Running DEF Progress
<1>3. SameTables /\ Grouped(t)'
  BY <1>1, <1>2, UnchangedTables, StageKept
<1>4. CASE IsClient(t)
  <2>1. Continues(t, "work")
    BY <1>1, <1>4 DEF check_client, Goto, Continues, Places
  <2>2. /\ g \in AllGroups /\ Tables.clients[g] = WorkersIn(My(t))
        /\ Tables.clients = ClientTable(clients_group)
        /\ w \in WorkersIn(My(t))
    BY <1>1, <1>2, <1>4, MyTable, TablesAre DEF IsClient, WorkersIn
  <2>3. Tables.clients = [Tables.clients EXCEPT ![g] = @ \cup {w}]
    <3>1. Tables.clients[g] \cup {w} = Tables.clients[g]
      BY <2>2
    <3> QED BY <2>2, <3>1 DEF ClientTable
  <2>4. Tables'.clients = [committed'.clients EXCEPT ![g] = @ \cup {w}]
    BY <1>1, <1>2, <1>3, <2>3 DEF SameTables, Grouped, SameClients
  <2>5. ClientThere(t)'
    BY <1>1, <1>3, <2>4 DEF Grouped, ClientThere
  <2>6. Registered(t)'
    <3>1. pc'[t] = "work"
      BY <1>2, <2>1 DEF Continues, LocksInv, LocalsOK
    <3> QED BY <1>3, <2>5, <3>1 DEF Grouped, Registered
  <2> QED BY <2>1, <2>6, ProgressStep
<1>5. CASE ~IsClient(t)
  <2>1. Continues(t, "get_new_client")
    BY <1>1, <1>5 DEF check_client, Goto, Continues, Places
  <2> QED BY <1>3, <2>1, ProgressStep
<1> QED BY <1>4, <1>5

LEMMA get_new_clientStep ==
  ASSUME IInv, NEW t \in Threads, get_new_client(t)
  PROVE  HandlersInv' /\ UNCHANGED T!vars
<1> DEFINE g == req[t].group
           w == req[t].worker
           rows == Append(My(t).clients, w)
           row == [group |-> My(t).group, clients |-> rows, events |-> My(t).events,
                   mt_client |-> My(t).mt_client, mt_event |-> My(t).mt_event]
<1>1. /\ pc[t] = "get_new_client" /\ InGroup(t) /\ Continues(t, "work")
      /\ SetMine(t, "clients", rows) /\ UNCHANGED <<clock, grants, req, committed, answer>>
  BY DEF get_new_client, Goto, InGroup, InTables, Continues, Places
<1>2. LocksInv /\ Grouped(t) /\ pc'[t] = "work"
  BY <1>1, Running DEF Progress, Continues, LocksInv, LocalsOK
<1>3. My(t) \in Group /\ w \in Workers
  BY <1>1, <1>2, AtWork
<1>4. row \in Group /\ row.group = My(t).group /\ row.events = My(t).events
  <2>1. rows \in Seq(Workers)
    BY <1>3, RowTypes
  <2> QED BY <1>3, <2>1, RowTypes DEF Group
<1>5. WorkersIn(row) = WorkersIn(My(t)) \cup {w}
  <2>1. /\ Len(My(t).clients) \in Nat /\ DOMAIN My(t).clients = 1..Len(My(t).clients)
        /\ DOMAIN rows = 1..(Len(My(t).clients) + 1)
        /\ \A k \in DOMAIN My(t).clients : rows[k] = My(t).clients[k]
        /\ rows[Len(My(t).clients) + 1] = w
    BY <1>3, RowTypes
  <2>2. row.clients = rows
    OBVIOUS
  <2>3. \A k \in DOMAIN rows : k \in DOMAIN My(t).clients \/ k = Len(My(t).clients) + 1
    BY <2>1
  <2>4. \A k \in DOMAIN My(t).clients : k \in DOMAIN rows
    BY <2>1
  <2>5. Len(My(t).clients) + 1 \in DOMAIN rows
    BY <2>1
  <2> HIDE DEF rows, row
  <2> QED BY <2>1, <2>2, <2>3, <2>4, <2>5 DEF WorkersIn
<1>6. clients_group' = [clients_group EXCEPT ![index[t]] = row]
  BY <1>1, <1>2, SetMineRow
<1> HIDE DEF row, rows
<1>7. /\ GroupNames' = GroupNames
      /\ Tables'.clients = [Tables.clients EXCEPT ![g] = WorkersIn(row)]
      /\ Tables'.events = [Tables.events EXCEPT ![g] = My(t).events]
  BY <1>1, <1>2, <1>4, <1>6, TablesRow
<1>8. Tables.clients = committed.clients /\ Tables.clients[g] = WorkersIn(My(t))
  BY <1>1, <1>2, MyTable DEF Grouped, SameClients
<1>9. Tables'.clients = [committed'.clients EXCEPT ![g] = @ \cup {w}]
  BY <1>1, <1>5, <1>7, <1>8
<1>10. Tables'.events = committed'.events
  BY <1>1, <1>2, <1>7, TablesOwnRow DEF Grouped, SameEvents
<1>11. GroupThere(t)'
  BY <1>1, <1>2, <1>7 DEF Grouped, GroupThere
<1>12. Registered(t)'
  BY <1>1, <1>2, <1>9, <1>10, <1>11 DEF Registered, Grouped, ClientThere, SameEvents, SameCounts, Replied
<1> QED BY <1>1, <1>12, ProgressStep

LEMMA UnlockStep ==
  ASSUME IInv, NEW t \in Threads, Unlock(t)
  PROVE  HandlersInv' /\ UNCHANGED T!vars
<1>1. /\ pc[t] = "unlock" /\ InGroup(t) /\ Continues(t, "leave")
      /\ UNCHANGED <<clock, grants, req, committed, answer>>
  BY DEF Unlock, Goto, InGroup, InTables, Continues, Places
<1>2. LocksInv /\ Served(t)
  BY <1>1, Running DEF Progress
<1>3. PICK row \in Group :
         /\ row.group = My(t).group /\ row.clients = My(t).clients /\ row.events = My(t).events
         /\ clients_group' = [clients_group EXCEPT ![index[t]] = row]
  <2> DEFINE new == [group |-> My(t).group, clients |-> My(t).clients, events |-> My(t).events,
                     mt_client |-> NoThread, mt_event |-> NoThread]
  <2>1. new \in Group
    BY <1>1, <1>2, AtWork, RowTypes DEF Group
  <2>2. clients_group' = [clients_group EXCEPT ![index[t]] = new]
    BY <1>2, UnlockRow
  <2> QED BY <2>1, <2>2
<1>4. SameTables
  BY <1>1, <1>2, <1>3, MutexRow
<1>5. Served(t)'
  BY <1>1, <1>2, <1>4, StageKept
<1> QED BY <1>1, <1>5, ProgressStep

-----------------------------------------------------------------------------
\* The work, on the table of events that the handler found.

LEMMA AtHand ==
  ASSUME IInv, NEW t \in Threads, pc[t] = "work"
  PROVE  /\ LocksInv /\ InGroup(t) /\ Registered(t) /\ Rows(t) = My(t).events
         /\ req[t].group \in AllGroups
         /\ NewHash(t) = HashMade(t)
         /\ answer[t] = [status |-> 0, body |-> {}]
         /\ \A n \in -3..0 : Answer(t, n) =>
               Replied(t, n, {})' /\ \A u \in Threads : u # t => answer'[u] = answer[u]
<1>1. LocksInv /\ InGroup(t) /\ Registered(t)
  BY Running DEF Progress, InGroup, InTables
<1>2. Rows(t) = My(t).events /\ req[t].group \in AllGroups
  BY <1>1, MyTable DEF Registered, SameEvents, Rows
<1>3. NewHash(t) = HashMade(t)
  BY <1>1 DEF Registered, SameCounts, NewHash, HashMade
<1>4. /\ answer[t] = [status |-> 0, body |-> {}]
      /\ answer \in [Threads -> [status : -3..0, body : SUBSET T!HashEvent]]
  BY <1>1 DEF Registered, Replied, LocksInv, LocalsOK
<1>5. ASSUME NEW n \in -3..0, Answer(t, n)
      PROVE  Replied(t, n, {})' /\ \A u \in Threads : u # t => answer'[u] = answer[u]
  <2>1. answer' = [answer EXCEPT ![t] = [answer[t] EXCEPT !.status = n]]
    BY <1>5 DEF Answer
  <2>2. [answer[t] EXCEPT !.status = n] = [status |-> n, body |-> {}]
    <3>1. \A b \in [status : -3..0, body : SUBSET T!HashEvent] :
             [b EXCEPT !.status = n] = [status |-> n, body |-> b.body]
      OBVIOUS
    <3>2. answer[t] \in [status : -3..0, body : SUBSET T!HashEvent] /\ answer[t].body = {}
      BY <1>4
    <3> QED BY <3>1, <3>2
  <2>3. answer'[t] = [status |-> n, body |-> {}]
    BY <1>4, <2>1, <2>2
  <2>4. \A u \in Threads : u # t => answer'[u] = answer[u]
    BY <1>4, <2>1
  <2> QED BY <2>3, <2>4 DEF Replied
<1> QED BY <1>1, <1>2, <1>3, <1>4, <1>5

\* What Work, SetEvent and Append leave of the tables.
LEMMA WorkContinues ==
  ASSUME IInv, NEW t \in Threads, NEW op, Work(t, op), NEW n \in -3..0, Answer(t, n),
         op # "get_events_json"
  PROVE  Continues(t, "unlock") /\ pc[t] = "work" /\ Replied(t, n, {})' /\ req[t].op = op
<1>1. pc[t] = "work"
  BY DEF Work, Goto
<1> QED BY <1>1, AtHand DEF Work, Goto, Continues, Places

LEMMA EventsTables ==
  ASSUME IInv, NEW t \in Threads, pc[t] = "work", NEW ev \in Seq(T!Slot), SetMine(t, "events", ev),
         UNCHANGED <<req, committed>>
  PROVE  /\ ClientThere(t)'
         /\ Tables'.events = [committed.events EXCEPT ![req[t].group] = ev]
<1> DEFINE row == [group |-> My(t).group, clients |-> My(t).clients, events |-> ev,
                   mt_client |-> My(t).mt_client, mt_event |-> My(t).mt_event]
<1>1. LocksInv /\ InGroup(t) /\ Registered(t)
  BY AtHand
<1>2. row \in Group /\ row.group = My(t).group /\ row.events = ev
  BY <1>1, AtWork, RowTypes DEF Group
<1>3. WorkersIn(row) = WorkersIn(My(t))
  BY DEF WorkersIn
<1>4. clients_group' = [clients_group EXCEPT ![index[t]] = row]
  BY <1>1, SetMineRow
<1> HIDE DEF row
<1>5. /\ GroupNames' = GroupNames
      /\ Tables'.clients = [Tables.clients EXCEPT ![req[t].group] = WorkersIn(row)]
      /\ Tables'.events = [Tables.events EXCEPT ![req[t].group] = row.events]
  BY <1>1, <1>2, <1>4, TablesRow
<1>6. Tables'.clients = Tables.clients
  BY <1>1, <1>3, <1>5, TablesOwnRow
<1>7. GroupThere(t)'
  BY <1>1, <1>5 DEF Registered, ClientThere, GroupThere
<1>8. ClientThere(t)'
  BY <1>1, <1>6, <1>7 DEF Registered, ClientThere
<1> QED BY <1>1, <1>2, <1>5, <1>8 DEF Registered, SameEvents

LEMMA SlotTables ==
  ASSUME IInv, NEW t \in Threads, pc[t] = "work", NEW i \in DOMAIN My(t).events,
         NEW slot \in T!Slot, SetEvent(t, i, slot), UNCHANGED <<req, committed>>
  PROVE  ClientThere(t)' /\ Changed(t, i, slot)'
<1>1. My(t).events \in Seq(T!Slot) /\ Rows(t) = My(t).events
  BY AtHand, AtWork, RowTypes
<1>2. [My(t).events EXCEPT ![i] = slot] \in Seq(T!Slot)
  BY <1>1
<1>3. SetMine(t, "events", [My(t).events EXCEPT ![i] = slot])
  BY DEF SetEvent
<1>4. ClientThere(t)'
  BY <1>2, <1>3, EventsTables
<1>5. Tables'.events = [committed.events EXCEPT ![req[t].group] = [My(t).events EXCEPT ![i] = slot]]
  BY <1>2, <1>3, EventsTables
<1>6. My(t).events = committed.events[req[t].group]
  BY <1>1 DEF Rows
<1> QED BY <1>4, <1>5, <1>6 DEF Changed

LEMMA NothingTables ==
  ASSUME IInv, NEW t \in Threads, pc[t] = "work",
         UNCHANGED <<clients_group, clock, grants, req, committed>>
  PROVE  /\ ClientThere(t)' /\ SameEvents' /\ SameCounts'
         /\ Rows(t)' = Rows(t) /\ clock' = committed'.clock /\ grants' = committed'.grants
<1>1. SameTables /\ Registered(t)
  BY UnchangedTables, AtHand
<1>2. ClientThere(t)'
  BY <1>1, StageKept DEF Registered
<1> QED BY <1>1, <1>2 DEF SameTables, Registered, SameEvents, SameCounts, Rows

\* The slots that start_event and clear_event write.
LEMMA StartedSlot ==
  ASSUME NEW s \in T!Slot
  PROVE  [s EXCEPT !.process = TRUE] \in T!Slot
<1>1. [s EXCEPT !.process = TRUE] =
         [hash_event |-> s.hash_event, json |-> s.json,
          count_restart |-> s.count_restart, busy |-> s.busy, process |-> TRUE]
  BY ProcessEdit
<1>2. [hash_event |-> s.hash_event, json |-> s.json,
       count_restart |-> s.count_restart, busy |-> s.busy, process |-> TRUE] \in T!Slot
  BY SlotFields DEF T!Slot
<1> QED BY <1>1, <1>2

LEMMA ClearedSlot ==
  ASSUME NEW s \in T!Slot, NEW h \in T!HashEvent
  PROVE  Cleared(s, h) \in T!Slot
<1>1. Cleared(s, h) =
         [hash_event |-> h, json |-> s.json,
          count_restart |-> s.count_restart + 1, busy |-> s.busy, process |-> FALSE]
  BY ClearedIs
<1>2. [hash_event |-> h, json |-> s.json,
       count_restart |-> s.count_restart + 1, busy |-> s.busy, process |-> FALSE] \in T!Slot
  BY SlotFields DEF T!Slot
<1> QED BY <1>1, <1>2

LEMMA StartWorkStep ==
  ASSUME IInv, NEW t \in Threads, StartWork(t)
  PROVE  HandlersInv' /\ UNCHANGED T!vars
<1> DEFINE id == req[t].id
<1>1. /\ pc[t] = "work" /\ Work(t, "start_event") /\ clock' = clock
      /\ UNCHANGED <<req, committed>>
  BY DEF StartWork, Work, Goto
<1>2. Rows(t) = My(t).events /\ My(t).events \in Seq(T!Slot) /\ Registered(t)
  BY <1>1, AtHand, AtWork, RowTypes
<1>3. Rows(t)' = Rows(t) /\ req'[t] = req[t] /\ clock = committed.clock /\ grants = committed.grants
  BY <1>1, <1>2 DEF Rows, Registered, SameCounts
<1>4. ASSUME NEW n \in -3..0, Answer(t, n), ClientThere(t)', StartDone(t)'
      PROVE  HandlersInv' /\ UNCHANGED T!vars
  <2>1. Continues(t, "unlock")
    BY <1>1, <1>4, WorkContinues
  <2> QED BY <1>4, <2>1, ProgressStep DEF Served
<1>5. ASSUME NEW i \in DOMAIN My(t).events, First(My(t).events, i, id), ~My(t).events[i].process,
             SetEvent(t, i, [My(t).events[i] EXCEPT !.process = TRUE]),
             grants' = [grants EXCEPT ![id] = @ + 1], Answer(t, 0)
      PROVE  HandlersInv' /\ UNCHANGED T!vars
  <2>1. [My(t).events[i] EXCEPT !.process = TRUE] \in T!Slot
    BY <1>2, StartedSlot
  <2>2. PICK slot \in T!Slot : slot = [My(t).events[i] EXCEPT !.process = TRUE]
    BY <2>1
  <2>3. SetEvent(t, i, slot)
    BY <1>5, <2>2
  <2>4. ClientThere(t)' /\ Changed(t, i, slot)'
    BY <1>1, <1>5, <2>3, SlotTables
  <2>5. Replied(t, 0, {})'
    BY <1>1, <1>5, WorkContinues
  <2>6. i \in DOMAIN Rows(t)' /\ First(Rows(t)', i, req'[t].id) /\ ~Rows(t)'[i].process
    BY <1>2, <1>3, <1>5
  <2>7. Changed(t, i, [Rows(t)[i] EXCEPT !.process = TRUE])'
    <3>1. [Rows(t)'[i] EXCEPT !.process = TRUE] = slot
      BY <1>2, <1>3, <2>2
    <3> QED BY <2>4, <3>1 DEF Changed
  <2>8. grants' = [committed'.grants EXCEPT ![req'[t].id] = @ + 1] /\ clock' = committed'.clock
    BY <1>1, <1>3, <1>5
  <2>9. req'[t].op = "start_event"
    BY <1>1 DEF Work
  <2>10. StartDone(t)'
    BY <2>5, <2>6, <2>7, <2>8, <2>9 DEF StartDone
  <2> QED BY <1>4, <1>5, <2>4, <2>10
<1>6. ASSUME NEW n \in {-2, -3}, Answer(t, n), UNCHANGED <<clients_group, grants>>,
             \/ /\ n = -2
                /\ \E i \in DOMAIN My(t).events :
                      First(My(t).events, i, id) /\ My(t).events[i].process
             \/ n = -3 /\ None(My(t).events, id)
      PROVE  HandlersInv' /\ UNCHANGED T!vars
  <2>1. ClientThere(t)' /\ SameEvents' /\ SameCounts' /\ clock' = committed'.clock
    BY <1>1, <1>6, NothingTables
  <2>2. Replied(t, n, {})'
    BY <1>1, <1>6, WorkContinues
  <2>3. req'[t].op = "start_event"
    BY <1>1 DEF Work
  <2>4. StartDone(t)'
    BY <1>2, <1>3, <1>6, <2>1, <2>2, <2>3 DEF StartDone
  <2> QED BY <1>4, <1>6, <2>1, <2>4
<1> QED BY <1>5, <1>6 DEF StartWork

LEMMA ClearWorkStep ==
  ASSUME IInv, NEW t \in Threads, ClearWork(t)
  PROVE  HandlersInv' /\ UNCHANGED T!vars
<1> DEFINE id == req[t].id
<1>1. /\ pc[t] = "work" /\ Work(t, "clear_event") /\ grants' = grants
      /\ UNCHANGED <<req, committed>>
  BY DEF ClearWork, Work, Goto
<1>2. Rows(t) = My(t).events /\ My(t).events \in Seq(T!Slot) /\ Registered(t)
  BY <1>1, AtHand, AtWork, RowTypes
<1>3. /\ Rows(t)' = Rows(t) /\ req'[t] = req[t] /\ HashMade(t)' = HashMade(t)
      /\ clock = committed.clock /\ grants = committed.grants
  BY <1>1, <1>2 DEF Rows, Registered, SameCounts, HashMade
<1>4. ASSUME NEW n \in -3..0, Answer(t, n), ClientThere(t)', ClearDone(t)'
      PROVE  HandlersInv' /\ UNCHANGED T!vars
  <2>1. Continues(t, "unlock")
    BY <1>1, <1>4, WorkContinues
  <2> QED BY <1>4, <2>1, ProgressStep DEF Served
<1>5. ASSUME NEW i \in DOMAIN My(t).events, First(My(t).events, i, id), My(t).events[i].process,
             clock < MaxClock, clock' = clock + 1,
             SetEvent(t, i, [My(t).events[i] EXCEPT !.count_restart = @ + 1,
                                                    !.hash_event = NewHash(t),
                                                    !.process = FALSE]),
             Answer(t, 0)
      PROVE  HandlersInv' /\ UNCHANGED T!vars
  <2>1. NewHash(t) \in T!HashEvent /\ NewHash(t) = HashMade(t) /\ My(t).events[i] \in T!Slot
    BY <1>1, <1>2, <1>5, AtHand, NewHashType
  <2>2. PICK slot \in T!Slot : slot = Cleared(My(t).events[i], NewHash(t))
    BY <2>1, ClearedSlot
  <2>3. SetEvent(t, i, slot)
    BY <1>5, <2>2 DEF Cleared
  <2>4. ClientThere(t)' /\ Changed(t, i, slot)'
    BY <1>1, <1>5, <2>3, SlotTables
  <2>5. Replied(t, 0, {})'
    BY <1>1, <1>5, WorkContinues
  <2>6. i \in DOMAIN Rows(t)' /\ First(Rows(t)', i, req'[t].id) /\ Rows(t)'[i].process
    BY <1>2, <1>3, <1>5
  <2>7. Changed(t, i, [Rows(t)[i] EXCEPT !.count_restart = @ + 1,
                                         !.hash_event = HashMade(t),
                                         !.process = FALSE])'
    <3>1. Cleared(Rows(t)'[i], HashMade(t)') = slot
      BY <1>2, <1>3, <2>1, <2>2
    <3>2. [Rows(t)'[i] EXCEPT !.count_restart = @ + 1, !.hash_event = HashMade(t)',
                              !.process = FALSE] = slot
      BY <3>1 DEF Cleared
    <3> QED BY <2>4, <3>2 DEF Changed
  <2>8. /\ committed'.clock < MaxClock /\ clock' = committed'.clock + 1
        /\ grants' = committed'.grants
    BY <1>1, <1>3, <1>5
  <2>9. req'[t].op = "clear_event"
    BY <1>1 DEF Work
  <2>10. ClearDone(t)'
    BY <2>5, <2>6, <2>7, <2>8, <2>9 DEF ClearDone
  <2> QED BY <1>4, <1>5, <2>4, <2>10
<1>6. ASSUME NEW n \in {0, -2}, Answer(t, n), UNCHANGED <<clients_group, clock>>,
             \/ /\ n = 0
                /\ \E i \in DOMAIN My(t).events :
                      First(My(t).events, i, id) /\ ~My(t).events[i].process
             \/ n = -2 /\ None(My(t).events, id)
      PROVE  HandlersInv' /\ UNCHANGED T!vars
  <2>1. ClientThere(t)' /\ SameEvents' /\ SameCounts' /\ grants' = committed'.grants
    BY <1>1, <1>6, NothingTables
  <2>2. Replied(t, n, {})'
    BY <1>1, <1>6, WorkContinues
  <2>3. req'[t].op = "clear_event"
    BY <1>1 DEF Work
  <2>4. ClearDone(t)'
    BY <1>2, <1>3, <1>6, <2>1, <2>2, <2>3 DEF ClearDone
  <2> QED BY <1>4, <1>6, <2>1, <2>4
<1> QED BY <1>5, <1>6 DEF ClearWork

LEMMA EndWorkStep ==
  ASSUME IInv, NEW t \in Threads, EndWork(t)
  PROVE  HandlersInv' /\ UNCHANGED T!vars
<1> DEFINE id == req[t].id
<1>1. /\ pc[t] = "work" /\ Work(t, "end_event")
      /\ UNCHANGED <<req, committed, clock, grants>>
  BY DEF EndWork, Work, Goto
<1>2. Rows(t) = My(t).events /\ Registered(t)
  BY <1>1, AtHand
<1>3. /\ Rows(t)' = Rows(t) /\ req'[t] = req[t] /\ SameCounts' /\ req'[t].op = "end_event"
  BY <1>1, <1>2 DEF Rows, Registered, SameCounts, Work
<1>4. ASSUME NEW n \in -3..0, Answer(t, n), ClientThere(t)', EndDone(t)'
      PROVE  HandlersInv' /\ UNCHANGED T!vars
  <2>1. Continues(t, "unlock")
    BY <1>1, <1>4, WorkContinues
  <2> QED BY <1>4, <2>1, ProgressStep DEF Served
<1>5. ASSUME NEW i \in DOMAIN My(t).events, First(My(t).events, i, id),
             SetEvent(t, i, EmptySlot), Answer(t, 0)
      PROVE  HandlersInv' /\ UNCHANGED T!vars
  <2>1. ClientThere(t)' /\ Changed(t, i, EmptySlot)'
    BY <1>1, <1>5, SlotType, SlotTables
  <2>2. Replied(t, 0, {})'
    BY <1>1, <1>5, WorkContinues
  <2>3. i \in DOMAIN Rows(t)' /\ First(Rows(t)', i, req'[t].id)
    BY <1>2, <1>3, <1>5
  <2>4. EndDone(t)'
    BY <1>3, <2>1, <2>2, <2>3 DEF EndDone
  <2> QED BY <1>4, <1>5, <2>1, <2>4
<1>6. ASSUME Answer(t, -2), UNCHANGED clients_group, None(My(t).events, id)
      PROVE  HandlersInv' /\ UNCHANGED T!vars
  <2>1. -2 \in -3..0
    OBVIOUS
  <2>2. ClientThere(t)' /\ SameEvents'
    BY <1>1, <1>6, NothingTables
  <2>3. Replied(t, -2, {})'
    BY <1>1, <1>6, <2>1, WorkContinues
  <2>4. EndDone(t)'
    BY <1>2, <1>3, <1>6, <2>2, <2>3 DEF EndDone
  <2> QED BY <1>4, <1>6, <2>1, <2>2, <2>4
<1> QED BY <1>5, <1>6 DEF EndWork

LEMMA AddWorkStep ==
  ASSUME IInv, NEW t \in Threads, AddWork(t)
  PROVE  HandlersInv' /\ UNCHANGED T!vars
<1>1. /\ pc[t] = "work" /\ Work(t, "add_new_event") /\ Answer(t, 0)
      /\ clock < MaxClock /\ clock' = clock + 1 /\ grants' = grants
      /\ req[t].op = "add_new_event" /\ UNCHANGED <<req, committed>>
  BY DEF AddWork, Work, Goto
<1>2. /\ Rows(t) = My(t).events /\ My(t).events \in Seq(T!Slot) /\ Registered(t)
      /\ NewHash(t) = HashMade(t) /\ NewHash(t) \in T!HashEvent /\ req[t].ev \in Messages
  BY <1>1, AtHand, AtWork, RowTypes, NewHashType DEF LocksInv, LocalsOK
<1>3. /\ Rows(t)' = Rows(t) /\ req'[t] = req[t] /\ HashMade(t)' = HashMade(t)
      /\ clock = committed.clock /\ grants = committed.grants
  BY <1>1, <1>2 DEF Rows, Registered, SameCounts, HashMade
<1> DEFINE new == [hash_event |-> NewHash(t), json |-> req[t].ev,
                   count_restart |-> 0, busy |-> TRUE, process |-> FALSE]
<1>4. new \in T!Slot
  BY <1>2 DEF T!Slot
<1>5. PICK slot \in T!Slot : slot = new
  BY <1>4
<1>6. /\ Continues(t, "unlock") /\ Replied(t, 0, {})'
  BY <1>1, WorkContinues
<1>7. \/ \E i \in DOMAIN My(t).events : Vacant(My(t).events, i) /\ SetEvent(t, i, slot)
      \/ AllBusy(My(t).events) /\ SetMine(t, "events", Append(My(t).events, slot))
  BY <1>5 DEF AddWork
<1>8. slot = [hash_event |-> HashMade(t)', json |-> req'[t].ev,
              count_restart |-> 0, busy |-> TRUE, process |-> FALSE]
  BY <1>2, <1>3, <1>5
<1> HIDE DEF new
<1>9. ASSUME ClientThere(t)',
             \/ \E i \in DOMAIN Rows(t)' : Vacant(Rows(t)', i) /\ Changed(t, i, slot)'
             \/ /\ AllBusy(Rows(t)')
                /\ Tables'.events = [committed'.events EXCEPT ![req'[t].group] = Append(@, slot)]
      PROVE  HandlersInv' /\ UNCHANGED T!vars
  <2>1. \/ \E i \in DOMAIN Rows(t)' :
              /\ Vacant(Rows(t)', i)
              /\ Changed(t, i, [hash_event |-> HashMade(t), json |-> req[t].ev,
                                count_restart |-> 0, busy |-> TRUE, process |-> FALSE])'
        \/ /\ AllBusy(Rows(t)')
           /\ Tables'.events = [committed'.events EXCEPT ![req'[t].group] = Append(@, slot)]
    BY <1>8, <1>9 DEF Changed
  <2>2. AddDone(t)'
    BY <1>1, <1>3, <1>6, <1>8, <2>1 DEF AddDone
  <2> QED BY <1>6, <1>9, <2>2, ProgressStep DEF Served
<1>10. ASSUME NEW i \in DOMAIN My(t).events, Vacant(My(t).events, i), SetEvent(t, i, slot)
       PROVE  HandlersInv' /\ UNCHANGED T!vars
  <2>1. ClientThere(t)' /\ Changed(t, i, slot)'
    BY <1>1, <1>10, SlotTables
  <2> QED BY <1>2, <1>3, <1>9, <1>10, <2>1
<1>11. ASSUME AllBusy(My(t).events), SetMine(t, "events", Append(My(t).events, slot))
       PROVE  HandlersInv' /\ UNCHANGED T!vars
  <2>1. Append(My(t).events, slot) \in Seq(T!Slot)
    BY <1>2
  <2>2. ClientThere(t)' /\ Tables'.events = [committed.events EXCEPT ![req[t].group] =
                                                  Append(My(t).events, slot)]
    BY <1>1, <1>11, <2>1, EventsTables
  <2>3. My(t).events = committed.events[req[t].group]
    BY <1>2 DEF Rows
  <2>4. Tables'.events = [committed'.events EXCEPT ![req'[t].group] = Append(@, slot)]
    BY <1>1, <2>2, <2>3
  <2> QED BY <1>2, <1>3, <1>9, <1>11, <2>2, <2>4
<1> QED BY <1>7, <1>10, <1>11

LEMMA GetWorkStep ==
  ASSUME IInv, NEW t \in Threads, GetWork(t)
  PROVE  HandlersInv' /\ UNCHANGED T!vars
<1>1. /\ pc[t] = "work" /\ Work(t, "get_events_json") /\ req[t].op = "get_events_json"
      /\ UNCHANGED <<clients_group, clock, grants, req, answer, committed>>
      /\ respon' = WaitingIn(My(t).events)
  BY DEF GetWork, Work, Goto
<1>2. /\ LocksInv /\ Rows(t) = My(t).events /\ Registered(t)
  BY <1>1, AtHand
<1>3. Continues(t, "copy") /\ pc'[t] = "copy"
  BY <1>1, <1>2 DEF Work, Goto, Continues, Places, LocksInv, LocalsOK
<1>4. ClientThere(t)' /\ SameEvents' /\ SameCounts' /\ Rows(t)' = Rows(t)
  BY <1>1, NothingTables
<1>5. Registered(t)'
  BY <1>1, <1>2, <1>4 DEF Registered, Replied, Rows
<1> QED BY <1>3, <1>5, ProgressStep

LEMMA CopyResponStep ==
  ASSUME IInv, NEW t \in Threads, CopyRespon(t)
  PROVE  HandlersInv' /\ UNCHANGED T!vars
<1>1. /\ pc[t] = "copy" /\ UNCHANGED <<clients_group, clock, grants, req, committed>>
      /\ answer' = [answer EXCEPT ![t].body = respon]
  BY DEF CopyRespon, Goto
<1>2. /\ LocksInv /\ Registered(t)
      /\ answer \in [Threads -> [status : -3..0, body : SUBSET T!HashEvent]]
  BY <1>1, Running DEF Progress, LocksInv, LocalsOK
<1>3. Continues(t, "unlock")
  BY <1>1, <1>2 DEF CopyRespon, Goto, Continues, Places
<1>4. /\ req[t].op = "get_events_json" /\ respon = WaitingIn(Rows(t))
      /\ answer[t] = [status |-> 0, body |-> {}]
  BY <1>1, <1>2 DEF Registered, Replied, Rows
<1>5. answer'[t] = [status |-> 0, body |-> respon]
  <2>1. \A b \in [status : -3..0, body : SUBSET T!HashEvent] :
           [b EXCEPT !.body = respon] = [status |-> b.status, body |-> respon]
    OBVIOUS
  <2>2. answer'[t] = [answer[t] EXCEPT !.body = respon]
    BY <1>1, <1>2
  <2> QED BY <1>2, <1>4, <2>1, <2>2
<1>6. SameTables
  BY <1>1, UnchangedTables
<1>7. ClientThere(t)'
  BY <1>1, <1>2, <1>6, StageKept DEF Registered
<1>8. GetDone(t)'
  BY <1>1, <1>2, <1>4, <1>5, <1>6
     DEF GetDone, Registered, SameTables, SameEvents, SameCounts, Replied, Rows
<1> QED BY <1>3, <1>7, <1>8, ProgressStep DEF Served

-----------------------------------------------------------------------------
\* From the request to the group, and out again

LEMMA EnterStep ==
  ASSUME IInv, NEW t \in Threads, Enter(t)
  PROVE  HandlersInv' /\ UNCHANGED T!vars
<1> USE ThreadsAssumption
<1>1. /\ pc[t] = "idle" /\ pc' = [pc EXCEPT ![t] = "find"] /\ gate' = t /\ committed' = Tables
      /\ UNCHANGED <<clients_group, clock, seen, status, grants, answer>>
      /\ gate \in {NoThread, t}
  BY DEF Enter, Goto, Passes
<1>2. PICK r \in Requests : req' = [req EXCEPT ![t] = r]
  BY DEF Enter
<1>3. /\ gate = NoThread /\ Replied(t, 0, {})
      /\ \A u \in Threads : pc[u] = "idle" /\ Replied(u, 0, {})
  <2>1. gate # t
    BY <1>1 DEF IInv, HandlersInv
  <2>2. \A u \in Threads : pc[u] = "idle"
    BY <1>1, <2>1 DEF IInv, LocksInv, OwnersInv
  <2> QED BY <1>1, <2>1, <2>2 DEF IInv, HandlersInv
<1>4. /\ pc'[t] = "find" /\ req'[t] = r
      /\ \A u \in Threads : u # t => pc'[u] = "idle"
  BY <1>1, <1>2, <1>3 DEF IInv, LocksInv, LocalsOK
<1>5. RequestOK(t)'
  <2>1. \/ r.op = "get_events_json" /\ r.group \in Groups
        \/ r.op \in Changers /\ r.group \in Groups /\ r.id \in seen \cup {UnknownId}
        \/ r.op = "add_new_event" /\ T!NextHop(r.ev.list_servers, r.group)
    BY DEF Requests, Changers
  <2> QED BY <1>1, <1>4, <2>1 DEF RequestOK, T!NextHop
<1>6. Tables' = Tables
  BY <1>1, UnchangedTables
<1>7. Untouched(t)'
  BY <1>1, <1>3, <1>4, <1>6 DEF Untouched, Replied
<1>8. Progress(t)'
  BY <1>4, <1>5, <1>7 DEF Progress
<1>9. HandlersInv'
  BY <1>1, <1>3, <1>4, <1>8 DEF HandlersInv, Replied
<1>10. UNCHANGED T!vars
  BY <1>1, <1>3, <1>6 DEF T!vars, Visible
<1> QED BY <1>9, <1>10

\* Where Found goes, and with what answer.
LEMMA FoundGoes ==
  ASSUME IInv, NEW t \in Threads, NEW i, Found(t, i), pc[t] # "idle", Replied(t, 0, {}),
         UNCHANGED <<gate, req, seen, status, committed>>
  PROVE  \/ i = 0 /\ req[t].op \in Changers /\ Continues(t, "leave") /\ Replied(t, -1, {})'
         \/ i = 0 /\ req[t].op \notin Changers /\ Continues(t, "create") /\ answer' = answer
         \/ /\ i # 0 /\ req[t].op = "add_new_event" /\ ~req[t].ev.respon_id
            /\ Continues(t, "leave") /\ Replied(t, -1, {})'
         \/ /\ i # 0 /\ (req[t].op = "add_new_event" => req[t].ev.respon_id)
            /\ Continues(t, "lock_client") \/ Continues(t, "lock_event")
            /\ answer' = answer
<1>1. answer \in [Threads -> [status : -3..0, body : SUBSET T!HashEvent]]
  BY DEF IInv, LocksInv, LocalsOK
<1>2. ASSUME answer' = [answer EXCEPT ![t].status = -1]
      PROVE  Replied(t, -1, {})' /\ \A u \in Threads : u # t => answer'[u] = answer[u]
  <2>1. \A b \in [status : -3..0, body : SUBSET T!HashEvent] :
           [b EXCEPT !.status = -1] = [status |-> -1, body |-> b.body]
    OBVIOUS
  <2>2. /\ answer' = [answer EXCEPT ![t] = [answer[t] EXCEPT !.status = -1]]
        /\ answer[t].body = {} /\ answer[t] \in [status : -3..0, body : SUBSET T!HashEvent]
    BY <1>1, <1>2 DEF Replied
  <2>3. [answer[t] EXCEPT !.status = -1] = [status |-> -1, body |-> {}]
    BY <2>1, <2>2
  <2>4. answer'[t] = [status |-> -1, body |-> {}]
    BY <1>1, <2>2, <2>3
  <2>5. \A u \in Threads : u # t => answer'[u] = answer[u]
    BY <1>1, <2>2
  <2> QED BY <2>4, <2>5 DEF Replied
<1> QED BY <1>2 DEF Found, Continues, Places

LEMMA find_groupStep ==
  ASSUME IInv, NEW t \in Threads, find_group(t)
  PROVE  HandlersInv' /\ UNCHANGED T!vars
<1> DEFINE g == req[t].group
<1>1. /\ pc[t] = "find"
      /\ UNCHANGED <<gate, clients_group, clock, seen, status, grants, req, committed>>
  BY DEF find_group
<1>2. LocksInv /\ Untouched(t) /\ clients_group \in Seq(Group)
  BY <1>1, Running DEF Progress, LocksInv, TypeOK
<1>3. PICK i \in 0..Len(clients_group) : IndexOf(g, i) /\ Found(t, i)
  BY DEF find_group
<1>4. /\ i = 0 => g \notin GroupNames
      /\ i # 0 => g \in GroupNames
  BY <1>2, <1>3 DEF IndexOf, GroupNames
<1>5. /\ Tables' = Tables /\ Tables = committed /\ Replied(t, 0, {})
      /\ GroupNames' = committed.clients_group /\ GroupNames = committed.clients_group
      /\ SameClients' /\ SameEvents' /\ SameCounts'
  <2>1. Tables' = Tables /\ Tables = committed /\ Replied(t, 0, {})
    BY <1>1, <1>2, UnchangedTables DEF Untouched
  <2> QED BY <1>1, <2>1, TablesAre, NewTablesAre DEF SameClients, SameEvents, SameCounts
<1>6. CASE i = 0 /\ req[t].op \in Changers /\ Continues(t, "leave") /\ Replied(t, -1, {})'
  <2>1. Refused(t)'
    BY <1>1, <1>4, <1>5, <1>6 DEF Refused
  <2> QED BY <1>6, <2>1, ProgressStep
<1>7. CASE i = 0 /\ req[t].op \notin Changers /\ Continues(t, "create") /\ answer' = answer
  <2>1. Untouched(t)'
    BY <1>1, <1>5, <1>7 DEF Untouched, Replied
  <2> QED BY <1>7, <2>1, ProgressStep
<1>8. CASE /\ i # 0 /\ req[t].op = "add_new_event" /\ ~req[t].ev.respon_id
           /\ Continues(t, "leave") /\ Replied(t, -1, {})'
  <2>1. GroupNames' = committed'.clients_group \cup {req'[t].group}
    BY <1>1, <1>4, <1>5, <1>8
  <2>2. Refused(t)'
    BY <1>1, <1>5, <1>8, <2>1 DEF Refused
  <2> QED BY <1>8, <2>2, ProgressStep
<1>9. CASE /\ i # 0 /\ (req[t].op = "add_new_event" => req[t].ev.respon_id)
           /\ Continues(t, "lock_client") \/ Continues(t, "lock_event")
           /\ answer' = answer
  <2>1. GroupThere(t)'
    BY <1>1, <1>4, <1>5, <1>9 DEF GroupThere
  <2>2. Grouped(t)'
    BY <1>5, <1>9, <2>1 DEF Grouped, Replied
  <2> QED BY <1>9, <2>2, ProgressStep
<1>10. pc[t] # "idle"
  BY <1>1
<1> QED BY <1>1, <1>3, <1>5, <1>6, <1>7, <1>8, <1>9, <1>10, FoundGoes

\* The new group shows in nothing but its name.
LEMMA CreateGroupStep ==
  ASSUME IInv, NEW t \in Threads, CreateGroup(t)
  PROVE  HandlersInv' /\ UNCHANGED T!vars
<1> DEFINE g == req[t].group
           m == Len(clients_group)
<1>1. /\ pc[t] = "create" /\ Found(t, m + 1)
      /\ UNCHANGED <<gate, clock, seen, status, grants, req, committed>>
  BY DEF CreateGroup
<1>2. LocksInv /\ Untouched(t) /\ clients_group \in Seq(Group) /\ m \in Nat
  BY <1>1, Running DEF Progress, LocksInv, TypeOK
<1>3. LocksInv'
  BY <1>2, CreateGroupInv
<1>4. PICK new : new = clients_group'
  OBVIOUS
<1>5. /\ new \in Seq(Group) /\ Distinct(new) /\ Distinct(clients_group) /\ Len(new) = m + 1
      /\ new[m + 1].group = g
      /\ new[m + 1].clients = << >> /\ new[m + 1].events = EmptyTable(EmptySlot)
      /\ \A i \in DOMAIN clients_group : /\ new[i].group = clients_group[i].group
                                         /\ new[i].clients = clients_group[i].clients
                                         /\ new[i].events = clients_group[i].events
  <2>1. Distinct(new)
    BY <1>3, <1>4 DEF LocksInv, NoDuplicateRows, Distinct
  <2>2. /\ new \in Seq(Group) /\ Len(new) = m + 1 /\ new[m + 1] = NewRow(t)
        /\ \A i \in DOMAIN clients_group : /\ new[i].group = clients_group[i].group
                                           /\ new[i].clients = clients_group[i].clients
                                           /\ new[i].events = clients_group[i].events
    BY <1>2, <1>4, CreatedRows
  <2>3. /\ NewRow(t).group = g /\ NewRow(t).clients = << >>
        /\ NewRow(t).events = EmptyTable(EmptySlot)
    BY DEF NewRow
  <2> QED BY <1>2, <2>1, <2>2, <2>3, RowsDistinct
<1>6. /\ NamesIn(new) = NamesIn(clients_group) \cup {g}
      /\ ClientTable(new) = ClientTable(clients_group)
      /\ EventTable(new) = EventTable(clients_group)
  BY <1>2, <1>5, RowAdded
<1>7. /\ GroupNames' = GroupNames \cup {g}
      /\ Tables'.clients = Tables.clients /\ Tables'.events = Tables.events
  BY <1>4, <1>6, TablesAre, NewTablesAre
<1>8. /\ GroupNames' = committed'.clients_group \cup {req'[t].group}
      /\ SameClients' /\ SameEvents' /\ SameCounts' /\ Replied(t, 0, {})
      /\ req[t].op \notin Changers
  <2>1. Tables = committed /\ Replied(t, 0, {}) /\ req[t].op \notin Changers
    BY <1>1, <1>2 DEF Untouched
  <2> QED BY <1>1, <1>7, <2>1, TablesAre DEF SameClients, SameEvents, SameCounts
<1>9. CASE /\ req[t].op = "add_new_event" /\ ~req[t].ev.respon_id
           /\ Continues(t, "leave") /\ Replied(t, -1, {})'
  <2>1. Refused(t)'
    BY <1>1, <1>8, <1>9 DEF Refused
  <2> QED BY <1>9, <2>1, ProgressStep
<1>10. CASE /\ req[t].op = "add_new_event" => req[t].ev.respon_id
            /\ Continues(t, "lock_client") \/ Continues(t, "lock_event")
            /\ answer' = answer
  <2>1. GroupThere(t)'
    BY <1>1, <1>8, <1>10 DEF GroupThere
  <2>2. Grouped(t)'
    BY <1>8, <1>10, <2>1 DEF Grouped, Replied
  <2> QED BY <1>10, <2>2, ProgressStep
<1>11. m + 1 # 0 /\ pc[t] # "idle"
  BY <1>1, <1>2
<1> QED BY <1>1, <1>8, <1>9, <1>10, <1>11, FoundGoes

-----------------------------------------------------------------------------
\* A handler leaves: what it has done is one step of Tasker.

\* What Tasker sees of a step in which thread t leaves.
Leaving(t) ==
  /\ Visible.clients_group = committed.clients_group /\ Visible.clients = committed.clients
  /\ Visible.events = committed.events
  /\ Visible.clock = committed.clock /\ Visible.grants = committed.grants
  /\ Visible'.clients_group = GroupNames /\ Visible'.clients = Tables.clients
  /\ Visible'.events = Tables.events
  /\ Visible'.clock = clock /\ Visible'.grants = grants
  /\ seen' = seen \cup answer[t].body /\ status' = answer[t].status

LEMMA LeavingSeen ==
  ASSUME IInv, NEW t \in Threads, Leave(t)
  PROVE  Leaving(t)
<1>1. /\ pc[t] = "leave" /\ gate' = NoThread /\ UNCHANGED <<clients_group, clock, grants>>
      /\ seen' = seen \cup answer[t].body /\ status' = answer[t].status
  BY DEF Leave, Goto
<1>2. gate = t /\ t # NoThread
  BY <1>1, Running
<1>3. Visible = committed
  BY <1>2 DEF Visible
<1>4. Visible' = Tables
  BY <1>1, UnchangedTables DEF Visible
<1> QED BY <1>1, <1>3, <1>4, TablesAre DEF Leaving

\* Every handler but a refused one has made or found its group and registered its worker.
LEMMA LeavingClient ==
  ASSUME NEW t \in Threads, Leaving(t), ClientThere(t)
  PROVE  /\ T!Create(req[t].group) /\ T!Register(req[t].worker, req[t].group)
         /\ req[t].op \in Changers => /\ req[t].group \in Visible.clients_group
                                      /\ Visible'.clients_group = Visible.clients_group
BY DEF Leaving, ClientThere, GroupThere, T!Create, T!Register

LEMMA GetServed ==
  ASSUME NEW t \in Threads, Leaving(t), ClientThere(t), GetDone(t)
  PROVE  T!get_events_json(req[t].worker, req[t].group)
<1>1. T!Create(req[t].group) /\ T!Register(req[t].worker, req[t].group)
  BY LeavingClient
<1>2. T!Reply(0) /\ seen' = seen \cup WaitingIn(Visible.events[req[t].group])
  BY DEF Leaving, GetDone, Replied, T!Reply, Rows
<1>3. UNCHANGED <<Visible.events, Visible.clock, Visible.grants>>
  BY DEF Leaving, GetDone, SameEvents, SameCounts
<1> QED BY <1>1, <1>2, <1>3 DEF T!get_events_json, T!Waiting, WaitingIn

LEMMA StartServed ==
  ASSUME NEW t \in Threads, Leaving(t), ClientThere(t), StartDone(t)
  PROVE  T!start_event(req[t].worker, req[t].group, req[t].id)
<1> DEFINE g == req[t].group
           id == req[t].id
           rows == Visible.events[g]
<1>1. /\ g \in Visible.clients_group /\ Visible'.clients_group = Visible.clients_group
      /\ T!Register(req[t].worker, g)
  BY LeavingClient DEF StartDone, Changers
<1>2. seen' = seen /\ Visible'.clock = Visible.clock
  <2>1. PICK n : Replied(t, n, {})
    BY DEF StartDone
  <2>2. clock = committed.clock
    BY DEF StartDone
  <2> QED BY <2>1, <2>2 DEF Leaving, Replied
<1>3. Rows(t) = rows
  BY DEF Leaving, Rows
<1>4. ASSUME NEW i \in DOMAIN rows, First(rows, i, id), ~rows[i].process,
             Changed(t, i, [rows[i] EXCEPT !.process = TRUE]),
             grants = [committed.grants EXCEPT ![id] = @ + 1], Replied(t, 0, {})
      PROVE  T!start_event(req[t].worker, g, id)
  <2>1. T!Finds(g, id, i)
    BY <1>4 DEF First, T!Finds
  <2>2. T!SetSlot(g, i, [rows[i] EXCEPT !.process = TRUE]) /\ T!Reply(0)
    BY <1>4 DEF Leaving, Changed, Replied, T!SetSlot, T!Reply
  <2>3. Visible'.grants = [Visible.grants EXCEPT ![id] = @ + 1]
    BY <1>4 DEF Leaving
  <2> QED BY <1>1, <1>2, <1>4, <2>1, <2>2, <2>3 DEF T!start_event
<1>5. ASSUME SameEvents, SameCounts,
             \/ /\ Replied(t, -2, {})
                /\ \E i \in DOMAIN rows : First(rows, i, id) /\ rows[i].process
             \/ Replied(t, -3, {}) /\ None(rows, id)
      PROVE  T!start_event(req[t].worker, g, id)
  <2>1. UNCHANGED <<Visible.events, Visible.grants>>
    BY <1>5 DEF Leaving, SameEvents, SameCounts
  <2>2. \A i \in DOMAIN rows : First(rows, i, id) => T!Finds(g, id, i)
    BY DEF First, T!Finds
  <2>3. None(rows, id) => T!FindsNone(g, id)
    BY DEF None, T!FindsNone
  <2>4. \A n : Replied(t, n, {}) => T!Reply(n)
    BY DEF Leaving, Replied, T!Reply
  <2> QED BY <1>1, <1>2, <1>5, <2>1, <2>2, <2>3, <2>4 DEF T!start_event
<1> QED BY <1>3, <1>4, <1>5 DEF StartDone

LEMMA ClearServed ==
  ASSUME NEW t \in Threads, Leaving(t), ClientThere(t), ClearDone(t)
  PROVE  T!clear_event(req[t].worker, req[t].group, req[t].id)
<1> DEFINE g == req[t].group
           id == req[t].id
           rows == Visible.events[g]
<1>1. /\ g \in Visible.clients_group /\ Visible'.clients_group = Visible.clients_group
      /\ T!Register(req[t].worker, g)
  BY LeavingClient DEF ClearDone, Changers
<1>2. seen' = seen /\ Visible'.grants = Visible.grants
  <2>1. PICK n : Replied(t, n, {})
    BY DEF ClearDone
  <2>2. grants = committed.grants
    BY DEF ClearDone
  <2> QED BY <2>1, <2>2 DEF Leaving, Replied
<1>3. Rows(t) = rows
  BY DEF Leaving, Rows
<1>4. ASSUME NEW i \in DOMAIN rows, First(rows, i, id), rows[i].process,
             committed.clock < MaxClock, clock = committed.clock + 1,
             Changed(t, i, [rows[i] EXCEPT !.count_restart = @ + 1,
                                           !.hash_event = HashMade(t),
                                           !.process = FALSE]),
             Replied(t, 0, {})
      PROVE  T!clear_event(req[t].worker, g, id)
  <2>1. T!Finds(g, id, i)
    BY <1>4 DEF First, T!Finds
  <2>2. T!Tick /\ T!NewHash(g) = HashMade(t) /\ T!Reply(0)
    BY <1>4 DEF Leaving, Replied, HashMade, T!Tick, T!NewHash, T!Reply
  <2>3. T!SetSlot(g, i, [rows[i] EXCEPT !.count_restart = @ + 1,
                                        !.hash_event = T!NewHash(g),
                                        !.process = FALSE])
    BY <1>4, <2>2 DEF Leaving, Changed, T!SetSlot
  <2> QED BY <1>1, <1>2, <1>4, <2>1, <2>2, <2>3 DEF T!clear_event
<1>5. ASSUME SameEvents, SameCounts,
             \/ /\ Replied(t, 0, {})
                /\ \E i \in DOMAIN rows : First(rows, i, id) /\ ~rows[i].process
             \/ Replied(t, -2, {}) /\ None(rows, id)
      PROVE  T!clear_event(req[t].worker, g, id)
  <2>1. UNCHANGED <<Visible.events, Visible.clock>>
    BY <1>5 DEF Leaving, SameEvents, SameCounts
  <2>2. \A i \in DOMAIN rows : First(rows, i, id) => T!Finds(g, id, i)
    BY DEF First, T!Finds
  <2>3. None(rows, id) => T!FindsNone(g, id)
    BY DEF None, T!FindsNone
  <2>4. \A n : Replied(t, n, {}) => T!Reply(n)
    BY DEF Leaving, Replied, T!Reply
  <2> QED BY <1>1, <1>2, <1>5, <2>1, <2>2, <2>3, <2>4 DEF T!clear_event
<1> QED BY <1>3, <1>4, <1>5 DEF ClearDone

LEMMA EndServed ==
  ASSUME NEW t \in Threads, Leaving(t), ClientThere(t), EndDone(t)
  PROVE  T!end_event(req[t].worker, req[t].group, req[t].id)
<1> DEFINE g == req[t].group
           id == req[t].id
           rows == Visible.events[g]
<1>1. /\ g \in Visible.clients_group /\ Visible'.clients_group = Visible.clients_group
      /\ T!Register(req[t].worker, g)
  BY LeavingClient DEF EndDone, Changers
<1>2. seen' = seen /\ UNCHANGED <<Visible.clock, Visible.grants>>
  BY DEF Leaving, EndDone, SameCounts, Replied
<1>3. Rows(t) = rows
  BY DEF Leaving, Rows
<1>4. ASSUME NEW i \in DOMAIN rows, First(rows, i, id), Changed(t, i, EmptySlot), Replied(t, 0, {})
      PROVE  T!end_event(req[t].worker, g, id)
  <2>1. T!Finds(g, id, i)
    BY <1>4 DEF First, T!Finds
  <2>2. T!SetSlot(g, i, T!FreeSlot) /\ T!Reply(0)
    BY <1>4 DEF Leaving, Changed, Replied, EmptySlot, T!FreeSlot, T!SetSlot, T!Reply
  <2> QED BY <1>1, <1>2, <1>4, <2>1, <2>2 DEF T!end_event
<1>5. ASSUME SameEvents, Replied(t, -2, {}), None(rows, id)
      PROVE  T!end_event(req[t].worker, g, id)
  <2>1. UNCHANGED Visible.events /\ T!Reply(-2) /\ T!FindsNone(g, id)
    BY <1>5 DEF Leaving, SameEvents, Replied, T!Reply, None, T!FindsNone
  <2> QED BY <1>1, <1>2, <2>1 DEF T!end_event
<1> QED BY <1>3, <1>4, <1>5 DEF EndDone

LEMMA AddServed ==
  ASSUME NEW t \in Threads, Leaving(t), ClientThere(t), AddDone(t), req[t].group \in AllGroups,
         T!NextHop(req[t].ev.list_servers, req[t].group)
  PROVE  T!add_new_event(req[t].worker, req[t].ev)
<1> DEFINE g == req[t].group
           rows == Visible.events[g]
           slot == [hash_event |-> HashMade(t), json |-> req[t].ev,
                    count_restart |-> 0, busy |-> TRUE, process |-> FALSE]
<1>1. T!Create(g) /\ T!Register(req[t].worker, g) /\ req[t].ev.respon_id
  BY LeavingClient DEF AddDone, ClientThere, GroupThere
<1>2. /\ seen' = seen /\ Visible'.grants = Visible.grants
      /\ T!Tick /\ T!NewHash(g) = HashMade(t) /\ T!Reply(0)
  BY DEF Leaving, AddDone, Replied, HashMade, T!Tick, T!NewHash, T!Reply
<1>3. Rows(t) = rows
  BY DEF Leaving, Rows
<1>4. T!AddSlot(g, slot)
  <2> HIDE DEF slot
  <2>1. ASSUME NEW i \in DOMAIN rows, Vacant(rows, i), Changed(t, i, slot)
        PROVE  T!AddSlot(g, slot)
    BY <2>1 DEF Leaving, Changed, Vacant, T!AddSlot, T!FirstFree, T!SetSlot
  <2>2. ASSUME AllBusy(rows), Tables.events = [committed.events EXCEPT ![g] = Append(@, slot)]
        PROVE  T!AddSlot(g, slot)
    BY <2>2 DEF Leaving, AllBusy, T!AddSlot, T!Full
  <2> QED BY <1>3, <2>1, <2>2 DEF AddDone, slot
<1>5. T!AddSlot(g, [hash_event |-> T!NewHash(g), json |-> req[t].ev,
                    count_restart |-> 0, busy |-> TRUE, process |-> FALSE])
  BY <1>2, <1>4
<1>6. g \in T!AllGroups
  BY DEF AllGroups
<1> QED BY <1>1, <1>2, <1>5, <1>6 DEF T!add_new_event

LEMMA RefusedServed ==
  ASSUME NEW t \in Threads, Leaving(t), Refused(t), req[t].group \in AllGroups,
         req[t].op = "add_new_event" => T!NextHop(req[t].ev.list_servers, req[t].group)
  PROVE  /\ req[t].op = "start_event" => T!start_event(req[t].worker, req[t].group, req[t].id)
         /\ req[t].op = "clear_event" => T!clear_event(req[t].worker, req[t].group, req[t].id)
         /\ req[t].op = "end_event" => T!end_event(req[t].worker, req[t].group, req[t].id)
         /\ req[t].op = "add_new_event" => T!add_new_event(req[t].worker, req[t].ev)
<1>1. /\ seen' = seen /\ T!Reply(-1)
      /\ UNCHANGED <<Visible.clients, Visible.events, Visible.clock, Visible.grants>>
  BY DEF Leaving, Refused, SameClients, SameEvents, SameCounts, Replied, T!Reply
<1>2. ASSUME req[t].op \in Changers
      PROVE  T!NoSuchGroup(req[t].group) /\ UNCHANGED Visible.clients_group
  BY <1>1, <1>2 DEF Leaving, Refused, Changers, T!NoSuchGroup
<1>3. ASSUME req[t].op = "add_new_event"
      PROVE  T!Create(req[t].group) /\ ~req[t].ev.respon_id /\ req[t].group \in T!AllGroups
  BY <1>3 DEF Leaving, Refused, Changers, T!Create, AllGroups
<1>4. req[t].op = "start_event" => T!start_event(req[t].worker, req[t].group, req[t].id)
  BY <1>1, <1>2 DEF Changers, T!start_event
<1>5. req[t].op = "clear_event" => T!clear_event(req[t].worker, req[t].group, req[t].id)
  BY <1>1, <1>2 DEF Changers, T!clear_event
<1>6. req[t].op = "end_event" => T!end_event(req[t].worker, req[t].group, req[t].id)
  BY <1>1, <1>2 DEF Changers, T!end_event
<1>7. req[t].op = "add_new_event" => T!add_new_event(req[t].worker, req[t].ev)
  BY <1>1, <1>3 DEF T!add_new_event
<1> QED BY <1>4, <1>5, <1>6, <1>7

LEMMA LeaveStep ==
  ASSUME IInv, NEW t \in Threads, Leave(t)
  PROVE  HandlersInv' /\ T!Next
<1>1. /\ pc[t] = "leave" /\ pc' = [pc EXCEPT ![t] = "idle"] /\ gate' = NoThread
      /\ answer' = [answer EXCEPT ![t] = NoAnswer]
  BY DEF Leave, Goto
<1>2. /\ LocksInv /\ RequestOK(t) /\ (Served(t) \/ Refused(t))
      /\ req[t].group \in AllGroups /\ req[t].worker \in Workers
      /\ req[t].op = "add_new_event" => req[t].ev \in Messages
      /\ \A u \in Threads : u # t => pc[u] = "idle"
      /\ answer \in [Threads -> [status : -3..0, body : SUBSET T!HashEvent]]
      /\ pc \in [Threads -> Places]
  BY <1>1, Running DEF Progress, LocksInv, LocalsOK
<1>3. HandlersInv'
  <2>1. \A u \in Threads : pc'[u] = "idle" /\ answer'[u] = [status |-> 0, body |-> {}]
    BY <1>1, <1>2 DEF IInv, HandlersInv, Replied, NoAnswer
  <2> QED BY <1>1, <2>1, ThreadsAssumption DEF HandlersInv, Replied
<1>4. Leaving(t)
  BY LeavingSeen
<1> DEFINE w == req[t].worker
           g == req[t].group
           id == req[t].id
           m == req[t].ev
<1>5. CASE req[t].op = "get_events_json"
  <2>1. g \in Groups
    BY <1>2, <1>5 DEF RequestOK, Changers
  <2>2. T!get_events_json(w, g)
    BY <1>2, <1>4, <1>5, GetServed
       DEF Served, Refused, Changers, StartDone, ClearDone, EndDone, AddDone
  <2> QED BY <1>2, <1>3, <2>1, <2>2 DEF T!Next
<1>6. CASE req[t].op \in Changers
  <2>1. g \in Groups /\ id \in T!EventIds
    BY <1>2, <1>6 DEF RequestOK, Changers, T!EventIds
  <2>2. T!start_event(w, g, id) \/ T!clear_event(w, g, id) \/ T!end_event(w, g, id)
    <3>1. CASE Refused(t)
      BY <1>2, <1>4, <1>6, <3>1, RefusedServed DEF Changers
    <3>2. CASE Served(t)
      BY <1>4, <1>6, <3>2, StartServed, ClearServed, EndServed
         DEF Served, Changers, GetDone, AddDone
    <3> QED BY <1>2, <3>1, <3>2
  <2> QED BY <1>2, <1>3, <2>1, <2>2 DEF T!Next
<1>7. CASE req[t].op = "add_new_event"
  <2>1. T!NextHop(m.list_servers, g)
    BY <1>2, <1>7 DEF RequestOK, Changers
  <2>2. T!add_new_event(w, m)
    <3>1. CASE Refused(t)
      BY <1>2, <1>4, <1>7, <2>1, <3>1, RefusedServed
    <3>2. CASE Served(t)
      BY <1>2, <1>4, <1>7, <2>1, <3>2, AddServed
         DEF Served, GetDone, StartDone, ClearDone, EndDone
    <3> QED BY <1>2, <3>1, <3>2
  <2> QED BY <1>2, <1>3, <1>7, <2>2 DEF T!Next
<1> QED BY <1>2, <1>3, <1>5, <1>6, <1>7 DEF RequestOK

-----------------------------------------------------------------------------

LEMMA HandlersInit == Init => IInv /\ T!Init
<1> USE ThreadsAssumption
<1> SUFFICES ASSUME Init PROVE IInv /\ T!Init
  OBVIOUS
<1>1. /\ gate = NoThread /\ clients_group = << >> /\ clock = 0 /\ seen = {} /\ status = 0
      /\ grants = [id \in T!HashEvent |-> 0]
      /\ pc = [t \in Threads |-> "idle"] /\ answer = [t \in Threads |-> NoAnswer]
  BY DEF Init
<1>2. LocksInv
  BY InitInv
<1>3. HandlersInv
  BY <1>1 DEF HandlersInv, Replied, NoAnswer
<1>4. clients_group \in Seq(Group) /\ NamesIn(clients_group) = {}
  BY <1>1 DEF NamesIn
<1>5. /\ Visible.clients_group = {}
      /\ Visible.clients = [g \in T!AllGroups |-> {}]
      /\ Visible.events = [g \in T!AllGroups |-> EmptyTable(EmptySlot)]
      /\ Visible.clock = clock /\ Visible.grants = grants
  <2>1. Visible = Tables
    BY <1>1 DEF Visible
  <2>2. ClientTable(clients_group) = [g \in T!AllGroups |-> {}]
    BY <1>4, RowMissing DEF ClientTable, AllGroups
  <2>3. EventTable(clients_group) = [g \in T!AllGroups |-> EmptyTable(EmptySlot)]
    BY <1>4, RowMissing DEF EventTable, AllGroups
  <2> QED BY <1>4, <2>1, <2>2, <2>3, TablesAre
<1>6. EmptyTable(EmptySlot) = [i \in 1..InitialSlots |-> T!FreeSlot]
  BY DEF EmptyTable, EmptySlot, T!FreeSlot
<1>7. T!Init
  BY <1>1, <1>5, <1>6 DEF T!Init
<1> QED BY <1>2, <1>3, <1>7 DEF IInv

LEMMA HandlersStutter ==
  ASSUME IInv, UNCHANGED vars
  PROVE  HandlersInv' /\ UNCHANGED T!vars
<1>1. Tables' = Tables /\ SameTables
  BY UnchangedTables DEF vars
<1>2. UNCHANGED <<gate, respon, clock, seen, status, grants, pc, req, index, answer, committed>>
  BY DEF vars, locals
<1>3. UNCHANGED T!vars
  BY <1>1, <1>2 DEF T!vars, Visible
<1>4. ASSUME NEW t \in Threads, pc[t] # "idle"
      PROVE  Progress(t)'
  <2>1. Progress(t)
    BY <1>4 DEF IInv, HandlersInv
  <2>2. RequestOK(t)'
    BY <1>2, <2>1 DEF Progress, RequestOK, T!NextHop
  <2>3. Untouched(t) => Untouched(t)'
    BY <1>1, <1>2 DEF Untouched, Replied
  <2>4. /\ Grouped(t) => Grouped(t)'
        /\ ClientThere(t) => ClientThere(t)'
        /\ Served(t) => Served(t)'
    BY <1>1, <1>2, StageKept
  <2>5. Registered(t) => Registered(t)'
    BY <1>1, <1>2, <2>4 DEF Registered, SameTables, SameEvents, SameCounts, Replied
  <2>6. Refused(t) => Refused(t)'
    BY <1>1, <1>2 DEF Refused, SameTables, SameClients, SameEvents, SameCounts, Replied
  <2> QED BY <1>2, <2>1, <2>2, <2>3, <2>4, <2>5, <2>6 DEF Progress
<1>5. HandlersInv'
  BY <1>2, <1>4 DEF IInv, HandlersInv, Replied
<1> QED BY <1>3, <1>5

LEMMA HandlersNext == ASSUME IInv, [Next]_vars PROVE IInv' /\ [T!Next]_T!vars
<1>1. LocksInv'
  BY NextInv DEF IInv
<1>2. ASSUME NEW t \in Threads, Enter(t) \/ Step(t)
      PROVE  HandlersInv' /\ (T!Next \/ UNCHANGED T!vars)
  <2>1. CASE Leave(t)
    BY <2>1, LeaveStep
  <2>2. CASE Enter(t) \/ find_group(t) \/ CreateGroup(t)
    BY <2>2, EnterStep, find_groupStep, CreateGroupStep
  <2>3. CASE LockClient(t) \/ LockEvent(t) \/ check_client(t) \/ get_new_client(t)
    BY <2>3, LockClientStep, LockEventStep, check_clientStep, get_new_clientStep
  <2>4. CASE StartWork(t) \/ ClearWork(t) \/ EndWork(t) \/ AddWork(t)
    BY <2>4, StartWorkStep, ClearWorkStep, EndWorkStep, AddWorkStep
  <2>5. CASE GetWork(t) \/ CopyRespon(t) \/ Unlock(t)
    BY <2>5, GetWorkStep, CopyResponStep, UnlockStep
  <2> QED BY <1>2, <2>1, <2>2, <2>3, <2>4, <2>5 DEF Step
<1>3. UNCHANGED vars => HandlersInv' /\ UNCHANGED T!vars
  BY HandlersStutter
<1>4. HandlersInv' /\ (T!Next \/ UNCHANGED T!vars)
  BY <1>2, <1>3 DEF Next
<1> QED BY <1>1, <1>4 DEF IInv

\* How far every running handler has got: what the tables, the answer it builds
\* and the request it serves have to do with the tables it found under mt.
THEOREM ThreadsInvariant == Spec => []IInv
<1>1. Init => IInv
  BY HandlersInit
<1>2. IInv /\ [Next]_vars => IInv'
  BY HandlersNext
<1> QED BY <1>1, <1>2, PTL DEF Spec

\* The threads implement Tasker: whatever locks, look-ups and copies a handler
\* goes through, others see it as one step, taken when it gives mt back.
THEOREM ThreadsImplementTasker == Spec => ImplementsTasker
<1>1. Init => T!Init
  BY HandlersInit
<1>2. IInv /\ [Next]_vars => [T!Next]_T!vars
  BY HandlersNext
<1> QED BY <1>1, <1>2, ThreadsInvariant, PTL DEF Spec, ImplementsTasker, T!Spec
=============================================================================
