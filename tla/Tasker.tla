------------------------------- MODULE Tasker -------------------------------
(***************************************************************************)
(* server::tasker_manager and its group_clients (tasker_manager.h:203-306, *)
(* tasker_manager.cpp:96-456) as the HTTP handlers of controller.cpp use   *)
(* them: per group a growing table of event slots and the workers that     *)
(* ever addressed the group.                                               *)
(*                                                                         *)
(* Every handler holds tasker_manager::mt from its first access to the     *)
(* tables to its last, so here each is one step; TaskerThreads shows that  *)
(* the threads of the server implement these steps.                        *)
(*                                                                         *)
(* hash_event is sha256 of a text made of the group, the time, the CPU     *)
(* clock and two counters.  It is abstracted to the group and a clock that *)
(* advances from one generated hash to the next: each is generated by a    *)
(* request of its own, which takes the process more CPU time than one tick *)
(* of clock().                                                             *)
(***************************************************************************)
EXTENDS Integers, Sequences

CONSTANTS
  Workers,       \* values of hash_worker
  Groups,        \* group names a URL can carry (never empty: "<string>")
  NoGroup,       \* the empty group name ""
  NameServer,    \* tasker_manager::name_server
  Messages,      \* event bodies: the parts of ev.json that steer the server
  InitialSlots,  \* slots of a new group (100 in the code)
  MaxClock,      \* bound on the hashes generated in a run
  NoHash,        \* the empty hash_event of a free slot
  UnknownId,     \* an event_id that no hash equals
  NoJson         \* json of a free slot

AllGroups == Groups \cup {NoGroup}

HashEvent == [group : AllGroups, clock : 1..MaxClock]

ASSUME TaskerAssumption ==
  /\ NoGroup \notin Groups
  /\ NameServer \in Groups
  /\ \A m \in Messages : m.list_servers \in Seq(Groups) /\ m.respon_id \in BOOLEAN
  /\ InitialSlots \in Nat
  /\ MaxClock \in Nat
  /\ NoHash \notin HashEvent
  /\ UnknownId \notin HashEvent \cup {NoHash}
  /\ NoJson \notin Messages

VARIABLES
  clients_group,  \* names of the groups that exist
  clients,        \* clients[g]: workers in the clients vector of group g
  events,         \* events[g]: the slots of group g
  clock,          \* clock of the last generated hash
  seen,           \* hashes that some get_events response carried
  status,         \* the number the latest response carried
  grants          \* history: how often start_event answered 0, by event_id

vars == <<clients_group, clients, events, clock, seen, status, grants>>

Slot == [hash_event : HashEvent \cup {NoHash}, json : Messages \cup {NoJson},
         count_restart : Nat, busy : BOOLEAN, process : BOOLEAN]

\* init_event(), and the initialisers of struct event.
FreeSlot == [hash_event |-> NoHash, json |-> NoJson,
             count_restart |-> 0, busy |-> FALSE, process |-> FALSE]

\* What a group that does not exist yet starts with: group_clients().
Init ==
  /\ clients_group = {}
  /\ clients = [g \in AllGroups |-> {}]
  /\ events = [g \in AllGroups |-> [i \in 1..InitialSlots |-> FreeSlot]]
  /\ clock = 0
  /\ seen = {}
  /\ status = 0
  /\ grants = [id \in HashEvent |-> 0]

-----------------------------------------------------------------------------
\* Mutant: a slot is free when its event is not being processed.
FirstFreeIdle(g, i) ==
  /\ i \in DOMAIN events[g]
  /\ ~events[g][i].process
  /\ \A j \in 1..(i-1) : events[g][j].process

\* The loops over events: the first slot with the given hash, or none.

Finds(g, id, i) ==
  /\ i \in DOMAIN events[g]
  /\ events[g][i].hash_event = id
  /\ \A j \in 1..(i-1) : events[g][j].hash_event # id

FindsNone(g, id) == \A i \in DOMAIN events[g] : events[g][i].hash_event # id

FirstFree(g, i) ==
  /\ i \in DOMAIN events[g]
  /\ ~events[g][i].busy
  /\ \A j \in 1..(i-1) : events[g][j].busy

Full(g) == \A i \in DOMAIN events[g] : events[g][i].busy

SetSlot(g, i, slot) == events' = [events EXCEPT ![g] = [@ EXCEPT ![i] = slot]]

\* Mutant: a full table starts over at its first slot.
AddSlotWraps(g, slot) ==
  \/ \E i \in DOMAIN events[g] : FirstFree(g, i) /\ SetSlot(g, i, slot)
  \/ Full(g) /\ 1 \in DOMAIN events[g] /\ SetSlot(g, 1, slot)

\* The first free slot is used; a table that has none grows.
AddSlot(g, slot) ==
  \/ \E i \in DOMAIN events[g] : FirstFree(g, i) /\ SetSlot(g, i, slot)
  \/ Full(g) /\ events' = [events EXCEPT ![g] = Append(@, slot)]

\* check_client() and get_new_client(): rows of clients are never freed, so
\* the vector is the set of its workers.
Register(w, g) == clients' = [clients EXCEPT ![g] = @ \cup {w}]

Create(g) == clients_group' = clients_group \cup {g}

\* generate_hash_event(): the clock has moved on since the last one.
Tick == clock < MaxClock /\ clock' = clock + 1

\* hash_event: SHA-256 of server_hash, group, time, index, CPU clock and
\* count_restart, written one behind the other without separators.  Assumed: two
\* hashes never come from equal texts.  The code does not rule that out, for the
\* digits of index, clock and count_restart may be divided in several ways.
NewHash(g) == [group |-> g, clock |-> clock']

Waiting(slot) == slot.busy /\ ~slot.process

Reply(n) == status' = n

\* g is the destination of an event: the server after the last one in its list
\* that has this server's name, that server itself when it ends the list, and
\* the empty name when the list does not mention this server.
NextHop(list, g) ==
  \/ /\ \A i \in DOMAIN list : list[i] # NameServer
     /\ g = NoGroup
  \/ \E i \in DOMAIN list :
        /\ list[i] = NameServer
        /\ \A j \in (i+1)..Len(list) : list[j] # NameServer
        /\ g = IF i = Len(list) THEN list[i] ELSE list[i + 1]

-----------------------------------------------------------------------------
\* The handlers

\* Answers the waiting events of the group, which it creates if need be.
get_events_json(w, g) ==
  /\ Create(g)
  /\ Register(w, g)
  /\ seen' = seen \cup {events[g][i].hash_event :
                          i \in {k \in DOMAIN events[g] : Waiting(events[g][k])}}
  /\ Reply(0)
  /\ UNCHANGED <<events, clock, grants>>

NoSuchGroup(g) ==
  /\ g \notin clients_group
  /\ Reply(-1)
  /\ UNCHANGED <<clients, events, clock, grants>>

start_event(w, g, id) ==
  /\ \/ NoSuchGroup(g)
     \/ /\ g \in clients_group
        /\ Register(w, g)
        /\ \/ \E i \in DOMAIN events[g] :
                 /\ Finds(g, id, i)
                 /\ ~events[g][i].process
                 /\ SetSlot(g, i, [events[g][i] EXCEPT !.process = TRUE])
                 /\ grants' = [grants EXCEPT ![id] = @ + 1]
                 /\ Reply(0)
           \/ \E i \in DOMAIN events[g] :
                 /\ Finds(g, id, i)
                 /\ events[g][i].process
                 /\ Reply(-2)
                 /\ UNCHANGED <<events, grants>>
           \/ /\ FindsNone(g, id)
              /\ Reply(-3)
              /\ UNCHANGED <<events, grants>>
        /\ UNCHANGED clock
  /\ UNCHANGED <<clients_group, seen>>

\* Mutant: the event waits again under the hash it had.
clear_event_same_hash(w, g, id) ==
  /\ \/ NoSuchGroup(g)
     \/ /\ g \in clients_group
        /\ Register(w, g)
        /\ \/ \E i \in DOMAIN events[g] :
                 /\ Finds(g, id, i)
                 /\ SetSlot(g, i, [events[g][i] EXCEPT !.process = FALSE])
                 /\ Reply(0)
           \/ FindsNone(g, id) /\ Reply(-2) /\ UNCHANGED events
        /\ UNCHANGED <<clock, grants>>
  /\ UNCHANGED <<clients_group, seen>>

\* Gives a started event back to the group, under a new hash.
clear_event(w, g, id) ==
  /\ \/ NoSuchGroup(g)
     \/ /\ g \in clients_group
        /\ Register(w, g)
        /\ \/ \E i \in DOMAIN events[g] :
                 /\ Finds(g, id, i)
                 /\ events[g][i].process
                 /\ Tick
                 /\ SetSlot(g, i, [events[g][i] EXCEPT !.count_restart = @ + 1,
                                                       !.hash_event = NewHash(g),
                                                       !.process = FALSE])
                 /\ Reply(0)
           \/ \E i \in DOMAIN events[g] :
                 /\ Finds(g, id, i)
                 /\ ~events[g][i].process
                 /\ Reply(0)
                 /\ UNCHANGED <<events, clock>>
           \/ /\ FindsNone(g, id)
              /\ Reply(-2)
              /\ UNCHANGED <<events, clock>>
        /\ UNCHANGED grants
  /\ UNCHANGED <<clients_group, seen>>

\* Mutant: the slot is freed without init_event().
end_event_keeps_hash(w, g, id) ==
  /\ \/ NoSuchGroup(g)
     \/ /\ g \in clients_group
        /\ Register(w, g)
        /\ \/ \E i \in DOMAIN events[g] :
                 /\ Finds(g, id, i)
                 /\ SetSlot(g, i, [events[g][i] EXCEPT !.busy = FALSE])
                 /\ Reply(0)
           \/ FindsNone(g, id) /\ Reply(-2) /\ UNCHANGED events
        /\ UNCHANGED <<clock, grants>>
  /\ UNCHANGED <<clients_group, seen>>

\* Frees the slot, whether the event was started or not and by whomever.
end_event(w, g, id) ==
  /\ \/ NoSuchGroup(g)
     \/ /\ g \in clients_group
        /\ Register(w, g)
        /\ \/ \E i \in DOMAIN events[g] :
                 /\ Finds(g, id, i)
                 /\ SetSlot(g, i, FreeSlot)
                 /\ Reply(0)
           \/ /\ FindsNone(g, id)
              /\ Reply(-2)
              /\ UNCHANGED events
        /\ UNCHANGED <<clock, grants>>
  /\ UNCHANGED <<clients_group, seen>>

\* The group in the URL is not used: the event goes to NextHop.  Without a
\* "$respon_id" it is refused, after its group was created.
add_new_event(w, m) ==
  /\ \E g \in AllGroups :
        /\ NextHop(m.list_servers, g)
        /\ Create(g)
        /\ \/ /\ ~m.respon_id
              /\ Reply(-1)
              /\ UNCHANGED <<clients, events, clock>>
           \/ /\ m.respon_id
              /\ Register(w, g)
              /\ Tick
              /\ AddSlot(g, [hash_event |-> NewHash(g), json |-> m,
                             count_restart |-> 0, busy |-> TRUE, process |-> FALSE])
              /\ Reply(0)
  /\ UNCHANGED <<seen, grants>>

\* Callers name any event they have ever been told of, or one nobody has.
EventIds == seen \cup {UnknownId}

Next ==
  \E w \in Workers :
     \/ \E m \in Messages : add_new_event(w, m)
     \/ \E g \in Groups :
           \/ get_events_json(w, g)
           \/ \E id \in EventIds :
                 \/ start_event(w, g, id)
                 \/ clear_event(w, g, id)
                 \/ end_event(w, g, id)

Spec == Init /\ [][Next]_vars

-----------------------------------------------------------------------------
(* Properties *)

TypeOK ==
  /\ clients_group \subseteq AllGroups
  /\ clients \in [AllGroups -> SUBSET Workers]
  /\ events \in [AllGroups -> Seq(Slot)]
  /\ clock \in 0..MaxClock
  /\ seen \subseteq HashEvent
  /\ status \in -3..0
  /\ grants \in [HashEvent -> Nat]

\* No two events of the server answer to the same hash, in whatever slots and
\* groups they are: a late request for one can never hit another.
UniqueHashes ==
  \A g, h \in AllGroups : \A i \in DOMAIN events[g], j \in DOMAIN events[h] :
     /\ events[g][i].busy
     /\ events[h][j].busy
     /\ events[g][i].hash_event = events[h][j].hash_event
     => g = h /\ i = j

\* start_event answers 0 at most once for an event_id, although any number of
\* workers ask for it, repeat requests, clear the event and start it again.
OneGrantPerId == \A id \in HashEvent : grants[id] <= 1

\* An event whose list of servers does not mention this one is accepted and
\* then stays waiting for ever: no request can name its group.
MisroutedStays ==
  [][\A i \in DOMAIN events[NoGroup] :
        events[NoGroup][i].busy => events'[NoGroup][i] = events[NoGroup][i]]_vars

\* The board that the slots show.
TicketsOf(g, process) ==
  {[id |-> events[g][i].hash_event, event |-> events[g][i].json] :
     i \in {k \in DOMAIN events[g] :
              events[g][k].busy /\ events[g][k].process = process}}

Board == INSTANCE EventBoard WITH
           Groups  <- AllGroups,
           Ids     <- HashEvent,
           Events  <- Messages,
           waiting <- [g \in AllGroups |-> TicketsOf(g, FALSE)],
           taken   <- [g \in AllGroups |-> TicketsOf(g, TRUE)],
           used    <- [group : AllGroups, clock : 1..clock]

\* The tasker keeps the board's promise: no sequence of requests loses,
\* copies, alters or moves an event, or lets a used hash take it again.
ImplementsBoard == Board!Spec

-----------------------------------------------------------------------------
(* The inductive invariant the proofs use *)

Issued == {id \in HashEvent : id.clock <= clock}

BusyHasHash ==
  \A g \in AllGroups : \A i \in DOMAIN events[g] :
     events[g][i].busy => /\ events[g][i].hash_event \in Issued
                          /\ events[g][i].hash_event.group = g
                          /\ events[g][i].json \in Messages

FreeIsClean ==
  \A g \in AllGroups : \A i \in DOMAIN events[g] :
     ~events[g][i].busy => events[g][i] = FreeSlot

\* What makes a second grant impossible: a waiting event's hash is new.
WaitingNotGranted ==
  \A g \in AllGroups : \A i \in DOMAIN events[g] :
     Waiting(events[g][i]) => grants[events[g][i].hash_event] = 0

GrantsIssued == \A id \in HashEvent : grants[id] > 0 => id \in Issued

SeenIssued == seen \subseteq Issued

\* The invariant that every handler preserves.
IInv ==
  /\ TypeOK
  /\ BusyHasHash
  /\ FreeIsClean
  /\ UniqueHashes
  /\ WaitingNotGranted
  /\ GrantsIssued
  /\ SeenIssued
  /\ OneGrantPerId
=============================================================================
