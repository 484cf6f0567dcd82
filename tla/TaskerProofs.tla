---------------------------- MODULE TaskerProofs ----------------------------
(***************************************************************************)
(* Proofs about the tasker for any workers, groups, messages, initial      *)
(* table size and bound on the clock: IInv is inductive, hence hashes are  *)
(* unique and an event_id is granted once; the tasker implements           *)
(* EventBoard; and an event without a next hop never leaves its slot.      *)
(***************************************************************************)
EXTENDS Tasker, TLAPS

LEMMA FreeSlotType == FreeSlot \in Slot
BY DEF FreeSlot, Slot

\* Every handler that touches the tables of a group puts one slot value s at
\* one index i, which is in the table or just past its end.
Puts(g, i, s) ==
  /\ events' \in [AllGroups -> Seq(Slot)]
  /\ i \in DOMAIN events'[g] /\ events'[g][i] = s
  /\ \A h \in AllGroups : \A j \in DOMAIN events'[h] :
        <<h, j>> # <<g, i>> => j \in DOMAIN events[h] /\ events'[h][j] = events[h][j]
  /\ \A h \in AllGroups : DOMAIN events[h] \subseteq DOMAIN events'[h]

LEMMA SetSlotPuts ==
  ASSUME events \in [AllGroups -> Seq(Slot)], NEW g \in AllGroups,
         NEW i \in DOMAIN events[g], NEW s \in Slot, SetSlot(g, i, s)
  PROVE  Puts(g, i, s)
<1> DEFINE tab == [events[g] EXCEPT ![i] = s]
<1>1. events[g] \in Seq(Slot)
  OBVIOUS
<1>2. /\ tab \in Seq(Slot) /\ DOMAIN tab = DOMAIN events[g]
      /\ tab[i] = s
      /\ \A j \in DOMAIN tab : j # i => tab[j] = events[g][j]
  BY <1>1
<1>3. events' = [events EXCEPT ![g] = tab]
  BY DEF SetSlot
<1> HIDE DEF tab
<1>4. /\ events' \in [AllGroups -> Seq(Slot)]
      /\ events'[g] = tab
      /\ \A h \in AllGroups \ {g} : events'[h] = events[h]
  BY <1>2, <1>3
<1> QED BY <1>2, <1>4 DEF Puts

LEMMA AppendPuts ==
  ASSUME events \in [AllGroups -> Seq(Slot)], NEW g \in AllGroups, NEW s \in Slot,
         events' = [events EXCEPT ![g] = Append(@, s)]
  PROVE  Puts(g, Len(events[g]) + 1, s)
<1> DEFINE tab == Append(events[g], s)
           n == Len(events[g]) + 1
<1>1. events[g] \in Seq(Slot)
  OBVIOUS
<1>2. /\ tab \in Seq(Slot) /\ DOMAIN tab = 1..n /\ DOMAIN events[g] = 1..(n - 1)
      /\ n \in Nat /\ n > 0 /\ tab[n] = s
      /\ \A j \in 1..(n - 1) : tab[j] = events[g][j]
  BY <1>1
<1>3. events' = [events EXCEPT ![g] = tab]
  OBVIOUS
<1> HIDE DEF tab, n
<1>4. /\ events' \in [AllGroups -> Seq(Slot)]
      /\ events'[g] = tab
      /\ \A h \in AllGroups \ {g} : events'[h] = events[h]
  BY <1>2, <1>3
<1>5. \A j \in 1..n : j # n => j \in 1..(n - 1)
  BY <1>2
<1>6. n \in 1..n /\ 1..(n - 1) \subseteq 1..n
  BY <1>2
<1>7. Puts(g, n, s)
  BY <1>2, <1>4, <1>5, <1>6 DEF Puts
<1> QED BY <1>7 DEF n

\* A put slot keeps the slots sound when it is free, or holds an event under a
\* hash that no other slot of the group has.
GoodSlot(g, i, s) ==
  \/ s = FreeSlot
  \/ /\ s.busy
     /\ s.hash_event \in Issued'
     /\ s.hash_event.group = g
     /\ s.json \in Messages
     /\ Waiting(s) => grants'[s.hash_event] = 0
     /\ \A j \in DOMAIN events[g] \ {i} :
           events[g][j].busy => events[g][j].hash_event # s.hash_event

LEMMA PutKeepsSlots ==
  ASSUME IInv, NEW g \in AllGroups, NEW i, NEW s \in Slot,
         Puts(g, i, s), GoodSlot(g, i, s),
         Issued \subseteq Issued',
         \A id \in HashEvent : grants'[id] = grants[id] \/ (s.busy /\ id = s.hash_event)
  PROVE  BusyHasHash' /\ FreeIsClean' /\ UniqueHashes' /\ WaitingNotGranted'
<1> DEFINE Old(h, j) == /\ j \in DOMAIN events[h]
                        /\ events'[h][j] = events[h][j]
<1>1. \A h \in AllGroups : \A j \in DOMAIN events'[h] : (h = g /\ j = i) \/ Old(h, j)
  BY DEF Puts
<1>2. events'[g][i] = s
  BY DEF Puts
<1>3. ~FreeSlot.busy
  BY DEF FreeSlot
<1>4. BusyHasHash'
  <2> SUFFICES ASSUME NEW h \in AllGroups, NEW j \in DOMAIN events'[h], events'[h][j].busy
               PROVE  /\ events'[h][j].hash_event \in Issued'
                      /\ events'[h][j].hash_event.group = h
                      /\ events'[h][j].json \in Messages
    BY DEF BusyHasHash
  <2>1. CASE h = g /\ j = i
    BY <2>1, <1>2, <1>3 DEF GoodSlot
  <2>2. CASE Old(h, j)
    BY <2>2 DEF IInv, BusyHasHash
  <2> QED BY <1>1, <2>1, <2>2
<1>5. FreeIsClean'
  <2> SUFFICES ASSUME NEW h \in AllGroups, NEW j \in DOMAIN events'[h], ~events'[h][j].busy
               PROVE  events'[h][j] = FreeSlot
    BY DEF FreeIsClean
  <2>1. CASE h = g /\ j = i
    BY <2>1, <1>2 DEF GoodSlot
  <2>2. CASE Old(h, j)
    BY <2>2 DEF IInv, FreeIsClean
  <2> QED BY <1>1, <2>1, <2>2
\* No old busy slot other than (g, i) has the hash of s.
<1>6. ASSUME NEW h \in AllGroups, NEW j \in DOMAIN events'[h], ~(h = g /\ j = i),
             events'[h][j].busy, s.busy
      PROVE  events'[h][j].hash_event # s.hash_event
  <2>1. Old(h, j) /\ events[h][j].hash_event.group = h
    BY <1>1, <1>6 DEF IInv, BusyHasHash
  <2>2. s.hash_event.group = g
    BY <1>3, <1>6 DEF GoodSlot
  <2>3. CASE h # g
    BY <2>1, <2>2, <2>3
  <2>4. CASE h = g
    BY <1>3, <1>6, <2>1, <2>4 DEF GoodSlot
  <2> QED BY <2>3, <2>4
<1>7. UniqueHashes'
  <2> SUFFICES ASSUME NEW h \in AllGroups, NEW k \in AllGroups,
                      NEW j \in DOMAIN events'[h], NEW l \in DOMAIN events'[k],
                      events'[h][j].busy, events'[k][l].busy,
                      events'[h][j].hash_event = events'[k][l].hash_event
               PROVE  h = k /\ j = l
    BY DEF UniqueHashes
  <2>1. CASE (h = g /\ j = i) \/ (k = g /\ l = i)
    BY <2>1, <1>2, <1>6
  <2>2. CASE Old(h, j) /\ Old(k, l)
    BY <2>2 DEF IInv, UniqueHashes
  <2> QED BY <1>1, <2>1, <2>2
<1>8. WaitingNotGranted'
  <2> SUFFICES ASSUME NEW h \in AllGroups, NEW j \in DOMAIN events'[h],
                      Waiting(events'[h][j])
               PROVE  grants'[events'[h][j].hash_event] = 0
    BY DEF WaitingNotGranted
  <2>1. CASE h = g /\ j = i
    BY <2>1, <1>2, <1>3 DEF GoodSlot, Waiting
  <2>2. CASE ~(h = g /\ j = i)
    <3>1. Old(h, j)
      BY <1>1, <2>2
    <3>2. events[h][j].hash_event \in HashEvent /\ grants[events[h][j].hash_event] = 0
      BY <3>1 DEF IInv, BusyHasHash, WaitingNotGranted, Waiting, Issued
    <3>3. ~(s.busy /\ events[h][j].hash_event = s.hash_event)
      BY <3>1, <2>2, <1>6 DEF Waiting
    <3> QED BY <3>1, <3>2, <3>3
  <2> QED BY <2>1, <2>2
<1> QED BY <1>4, <1>5, <1>7, <1>8

\* Without a change of the tables, the slots stay sound if the hashes and
\* grants they speak of do.
LEMMA SameSlots ==
  ASSUME IInv, events' = events, grants' = grants, clock' = clock
  PROVE  BusyHasHash' /\ FreeIsClean' /\ UniqueHashes' /\ WaitingNotGranted' /\ GrantsIssued'
BY DEF IInv, BusyHasHash, FreeIsClean, UniqueHashes, WaitingNotGranted, GrantsIssued,
       Waiting, Issued

-----------------------------------------------------------------------------
(* Each handler preserves IInv *)

\* A new hash is no slot's and was granted to nobody.
LEMMA NewHashIsNew ==
  ASSUME IInv, NEW g \in AllGroups, Tick
  PROVE  /\ NewHash(g) \in HashEvent
         /\ NewHash(g) \in Issued' /\ NewHash(g) \notin Issued
         /\ NewHash(g).group = g
         /\ Issued \subseteq Issued'
         /\ clock' \in 0..MaxClock
         /\ grants[NewHash(g)] = 0
<1>1. clock \in Nat /\ MaxClock \in Nat /\ clock' = clock + 1 /\ clock' \in 1..MaxClock
  BY TaskerAssumption DEF IInv, TypeOK, Tick
<1>2. NewHash(g) \in HashEvent /\ NewHash(g).group = g /\ NewHash(g).clock = clock'
  BY <1>1 DEF NewHash, HashEvent
<1>3. NewHash(g) \in Issued' /\ NewHash(g) \notin Issued
  BY <1>1, <1>2 DEF Issued
<1>4. \A id \in HashEvent : id.clock \in Nat
  BY DEF HashEvent
<1>5. Issued \subseteq Issued'
  BY <1>1, <1>4 DEF Issued
<1>6. grants[NewHash(g)] = 0
  <2>1. grants[NewHash(g)] \in Nat /\ ~(grants[NewHash(g)] > 0)
    BY <1>2, <1>3 DEF IInv, TypeOK, GrantsIssued
  <2> QED BY <2>1
<1> QED BY <1>1, <1>2, <1>3, <1>5, <1>6

LEMMA SlotAt ==
  ASSUME IInv, NEW g \in AllGroups, NEW i \in DOMAIN events[g]
  PROVE  events[g][i] \in Slot
BY DEF IInv, TypeOK

\* A slot with a hash of HashEvent holds an event: a free slot's is empty.
LEMMA FoundIsBusy ==
  ASSUME IInv, NEW g \in AllGroups, NEW i \in DOMAIN events[g],
         events[g][i].hash_event \in HashEvent
  PROVE  events[g][i].busy
<1>1. FreeSlot.hash_event \notin HashEvent
  BY TaskerAssumption DEF FreeSlot
<1> QED BY <1>1 DEF IInv, FreeIsClean

\* The ids that requests carry are known hashes or no hash at all.
LEMMA FoundId ==
  ASSUME IInv, NEW g \in AllGroups, NEW id \in EventIds, NEW i \in DOMAIN events[g],
         Finds(g, id, i)
  PROVE  /\ id \in HashEvent
         /\ events[g][i].hash_event = id
         /\ events[g][i].busy
<1>1. events[g][i].hash_event = id
  BY DEF Finds
<1>2. events[g][i].hash_event \in HashEvent \cup {NoHash}
  BY SlotAt DEF Slot
<1>3. id \in HashEvent \cup {UnknownId}
  BY DEF EventIds, IInv, TypeOK
<1>4. id \in HashEvent
  BY <1>1, <1>2, <1>3, TaskerAssumption
<1> QED BY <1>1, <1>4, FoundIsBusy

LEMMA RegisterType ==
  ASSUME clients \in [AllGroups -> SUBSET Workers],
         NEW w \in Workers, NEW g \in AllGroups, Register(w, g)
  PROVE  clients' \in [AllGroups -> SUBSET Workers]
BY DEF Register

LEMMA GetInv ==
  ASSUME IInv, NEW w \in Workers, NEW g \in Groups, get_events_json(w, g)
  PROVE  IInv'
<1>1. g \in AllGroups
  BY DEF AllGroups
<1>2. seen' \subseteq Issued
  <2>1. \A i \in DOMAIN events[g] : Waiting(events[g][i]) => events[g][i].hash_event \in Issued
    BY <1>1 DEF IInv, BusyHasHash, Waiting
  <2> QED BY <2>1 DEF get_events_json, IInv, SeenIssued
<1>3. events' = events /\ clock' = clock /\ grants' = grants /\ Issued' = Issued
  BY DEF get_events_json, Issued
<1>4. TypeOK'
  BY <1>1, <1>2, <1>3, RegisterType
     DEF get_events_json, IInv, TypeOK, Create, Reply, Issued
<1> QED BY <1>2, <1>3, <1>4, SameSlots DEF IInv, SeenIssued, OneGrantPerId

\* Handlers that find no event, or leave the one they found alone.
LEMMA NothingDone ==
  ASSUME IInv, events' = events, clock' = clock, grants' = grants, seen' = seen,
         clients_group' = clients_group,
         clients' = clients \/ \E w \in Workers, g \in AllGroups : Register(w, g),
         status' \in -3..0
  PROVE  IInv'
<1>1. clients' \in [AllGroups -> SUBSET Workers]
  BY RegisterType DEF IInv, TypeOK
<1>2. TypeOK'
  BY <1>1 DEF IInv, TypeOK
<1>3. SeenIssued' /\ OneGrantPerId'
  BY DEF IInv, SeenIssued, OneGrantPerId, Issued
<1> QED BY <1>2, <1>3, SameSlots DEF IInv

\* start_event: the hash was not granted before, for the event was waiting.
LEMMA StartInv ==
  ASSUME IInv, NEW w \in Workers, NEW g \in Groups, NEW id \in EventIds,
         start_event(w, g, id)
  PROVE  IInv'
<1>1. g \in AllGroups
  BY DEF AllGroups
<1>2. CASE UNCHANGED <<events, grants>>
  <2>1. /\ clock' = clock /\ seen' = seen /\ clients_group' = clients_group
        /\ clients' = clients \/ Register(w, g)
    BY DEF start_event, NoSuchGroup
  <2>2. status' = 0 \/ status' = -1 \/ status' = -2 \/ status' = -3
    BY DEF start_event, NoSuchGroup, Reply
  <2>3. status' \in -3..0
    BY <2>2
  <2> QED BY <1>1, <1>2, <2>1, <2>3, NothingDone
<1>3. ASSUME NEW i \in DOMAIN events[g],
             Register(w, g), Finds(g, id, i), ~events[g][i].process,
             SetSlot(g, i, [events[g][i] EXCEPT !.process = TRUE]),
             grants' = [grants EXCEPT ![id] = @ + 1], Reply(0)
      PROVE  IInv'
  <2> DEFINE s == [events[g][i] EXCEPT !.process = TRUE]
  <2>1. clock' = clock /\ seen' = seen /\ clients_group' = clients_group
    BY DEF start_event, NoSuchGroup
  <2>2. Issued' = Issued
    BY <2>1 DEF Issued
  <2>3. events[g][i] \in Slot /\ id \in HashEvent /\ events[g][i].busy
        /\ events[g][i].hash_event = id
    BY <1>1, <1>3, SlotAt, FoundId
  <2>4. s \in Slot /\ s.busy /\ s.hash_event = id /\ s.process /\ s.json = events[g][i].json
    BY <2>3 DEF Slot
  <2>5. grants[id] = 0
    BY <1>1, <1>3, <2>3 DEF IInv, WaitingNotGranted, Waiting
  <2>6. /\ grants' \in [HashEvent -> Nat] /\ grants'[id] = 1
        /\ \A h \in HashEvent \ {id} : grants'[h] = grants[h]
    BY <1>3, <2>3, <2>5 DEF IInv, TypeOK
  <2> HIDE DEF s
  <2>7. Puts(g, i, s)
    BY <1>1, <1>3, <2>4, SetSlotPuts DEF IInv, TypeOK, s
  <2>8. /\ id \in Issued /\ id.group = g /\ s.json \in Messages
        /\ \A j \in DOMAIN events[g] \ {i} :
              events[g][j].busy => events[g][j].hash_event # id
    BY <1>1, <2>3, <2>4 DEF IInv, BusyHasHash, UniqueHashes
  <2>9. GoodSlot(g, i, s)
    BY <2>2, <2>4, <2>8 DEF GoodSlot, Waiting
  <2>10. BusyHasHash' /\ FreeIsClean' /\ UniqueHashes' /\ WaitingNotGranted'
    BY <1>1, <2>2, <2>4, <2>6, <2>7, <2>9, PutKeepsSlots
  <2>11. clients' \in [AllGroups -> SUBSET Workers]
    BY <1>1, <1>3, RegisterType DEF IInv, TypeOK
  <2>12. TypeOK'
    BY <1>3, <2>1, <2>6, <2>7, <2>11 DEF IInv, TypeOK, Puts, Reply
  <2>13. GrantsIssued' /\ SeenIssued' /\ OneGrantPerId'
    BY <2>1, <2>2, <2>6, <2>8 DEF IInv, GrantsIssued, SeenIssued, OneGrantPerId
  <2> QED BY <2>10, <2>12, <2>13 DEF IInv
<1>4. \/ UNCHANGED <<events, grants>>
      \/ \E i \in DOMAIN events[g] :
            /\ Register(w, g) /\ Finds(g, id, i) /\ ~events[g][i].process
            /\ SetSlot(g, i, [events[g][i] EXCEPT !.process = TRUE])
            /\ grants' = [grants EXCEPT ![id] = @ + 1]
            /\ Reply(0)
  BY DEF start_event, NoSuchGroup
<1> QED BY <1>2, <1>3, <1>4

\* clear_event: the event waits again, under a hash nobody was granted.
LEMMA ClearInv ==
  ASSUME IInv, NEW w \in Workers, NEW g \in Groups, NEW id \in EventIds,
         clear_event(w, g, id)
  PROVE  IInv'
<1>1. g \in AllGroups
  BY DEF AllGroups
<1>2. CASE UNCHANGED <<events, clock>>
  <2>1. /\ grants' = grants /\ seen' = seen /\ clients_group' = clients_group
        /\ clients' = clients \/ Register(w, g)
    BY DEF clear_event, NoSuchGroup
  <2>2. status' = 0 \/ status' = -1 \/ status' = -2
    BY DEF clear_event, NoSuchGroup, Reply
  <2>3. status' \in -3..0
    BY <2>2
  <2> QED BY <1>1, <1>2, <2>1, <2>3, NothingDone
<1> DEFINE s(i) == [events[g][i] EXCEPT !.count_restart = @ + 1,
                                        !.hash_event = NewHash(g),
                                        !.process = FALSE]
<1>3. ASSUME NEW i \in DOMAIN events[g],
             Register(w, g), Finds(g, id, i), Tick, SetSlot(g, i, s(i)), Reply(0)
      PROVE  IInv'
  <2>1. grants' = grants /\ seen' = seen /\ clients_group' = clients_group
    BY DEF clear_event, NoSuchGroup
  <2>2. events[g][i] \in Slot /\ events[g][i].busy
    BY <1>1, <1>3, SlotAt, FoundId
  <2>3. /\ NewHash(g) \in HashEvent /\ NewHash(g) \in Issued' /\ NewHash(g) \notin Issued
        /\ NewHash(g).group = g /\ Issued \subseteq Issued' /\ clock' \in 0..MaxClock
        /\ grants[NewHash(g)] = 0
    BY <1>1, <1>3, NewHashIsNew
  <2>4. s(i) \in Slot /\ s(i).busy /\ s(i).hash_event = NewHash(g)
        /\ s(i).json = events[g][i].json
    <3> DEFINE n == events[g][i].count_restart + 1
    <3>1. n \in Nat
      BY <2>2 DEF Slot
    <3>2. s(i) = [events[g][i] EXCEPT !.count_restart = n, !.hash_event = NewHash(g),
                                      !.process = FALSE]
      OBVIOUS
    <3> HIDE DEF s, n
    <3> QED BY <2>2, <2>3, <3>1, <3>2 DEF Slot
  <2> HIDE DEF s
  <2>5. Puts(g, i, s(i))
    BY <1>1, <1>3, <2>4, SetSlotPuts DEF IInv, TypeOK
  <2>6. /\ s(i).json \in Messages
        /\ \A j \in DOMAIN events[g] \ {i} :
              events[g][j].busy => events[g][j].hash_event # NewHash(g)
    BY <1>1, <2>2, <2>3, <2>4 DEF IInv, BusyHasHash
  <2>7. GoodSlot(g, i, s(i))
    BY <2>1, <2>3, <2>4, <2>6 DEF GoodSlot
  <2>8. BusyHasHash' /\ FreeIsClean' /\ UniqueHashes' /\ WaitingNotGranted'
    BY <1>1, <2>1, <2>3, <2>4, <2>5, <2>7, PutKeepsSlots
  <2>9. clients' \in [AllGroups -> SUBSET Workers]
    BY <1>1, <1>3, RegisterType DEF IInv, TypeOK
  <2>10. TypeOK'
    BY <1>3, <2>1, <2>3, <2>5, <2>9 DEF IInv, TypeOK, Puts, Reply
  <2>11. GrantsIssued' /\ SeenIssued' /\ OneGrantPerId'
    BY <2>1, <2>3 DEF IInv, GrantsIssued, SeenIssued, OneGrantPerId
  <2> QED BY <2>8, <2>10, <2>11 DEF IInv
<1>4. \/ UNCHANGED <<events, clock>>
      \/ \E i \in DOMAIN events[g] :
            Register(w, g) /\ Finds(g, id, i) /\ Tick /\ SetSlot(g, i, s(i)) /\ Reply(0)
  BY DEF clear_event, NoSuchGroup
<1> QED BY <1>2, <1>3, <1>4

\* end_event: a free slot is always sound.
LEMMA EndInv ==
  ASSUME IInv, NEW w \in Workers, NEW g \in Groups, NEW id \in EventIds,
         end_event(w, g, id)
  PROVE  IInv'
<1>1. g \in AllGroups
  BY DEF AllGroups
<1>2. clock' = clock /\ grants' = grants /\ seen' = seen /\ clients_group' = clients_group
  BY DEF end_event, NoSuchGroup
<1>3. CASE events' = events
  <2>1. clients' = clients \/ Register(w, g)
    BY DEF end_event, NoSuchGroup
  <2>2. status' = 0 \/ status' = -1 \/ status' = -2
    BY DEF end_event, NoSuchGroup, Reply
  <2>3. status' \in -3..0
    BY <2>2
  <2> QED BY <1>1, <1>2, <1>3, <2>1, <2>3, NothingDone
<1>4. ASSUME NEW i \in DOMAIN events[g], Register(w, g), SetSlot(g, i, FreeSlot), Reply(0)
      PROVE  IInv'
  <2>1. Issued' = Issued
    BY <1>2 DEF Issued
  <2>2. Puts(g, i, FreeSlot)
    BY <1>1, <1>4, FreeSlotType, SetSlotPuts DEF IInv, TypeOK
  <2>3. BusyHasHash' /\ FreeIsClean' /\ UniqueHashes' /\ WaitingNotGranted'
    BY <1>1, <1>2, <2>1, <2>2, FreeSlotType, PutKeepsSlots DEF GoodSlot
  <2>4. clients' \in [AllGroups -> SUBSET Workers]
    BY <1>1, <1>4, RegisterType DEF IInv, TypeOK
  <2>5. TypeOK'
    BY <1>2, <1>4, <2>2, <2>4 DEF IInv, TypeOK, Puts, Reply
  <2>6. GrantsIssued' /\ SeenIssued' /\ OneGrantPerId'
    BY <1>2, <2>1 DEF IInv, GrantsIssued, SeenIssued, OneGrantPerId
  <2> QED BY <2>3, <2>5, <2>6 DEF IInv
<1>5. \/ events' = events
      \/ \E i \in DOMAIN events[g] : Register(w, g) /\ SetSlot(g, i, FreeSlot) /\ Reply(0)
  BY DEF end_event, NoSuchGroup
<1> QED BY <1>3, <1>4, <1>5

\* add_new_event: a new event waits under a new hash, in a slot that was free
\* or past the end of the table.
LEMMA AddInv ==
  ASSUME IInv, NEW w \in Workers, NEW m \in Messages, add_new_event(w, m)
  PROVE  IInv'
<1>1. PICK g \in AllGroups :
        /\ Create(g)
        /\ \/ Reply(-1) /\ UNCHANGED <<clients, events, clock>>
           \/ /\ Register(w, g)
              /\ Tick
              /\ AddSlot(g, [hash_event |-> NewHash(g), json |-> m,
                             count_restart |-> 0, busy |-> TRUE, process |-> FALSE])
              /\ Reply(0)
  BY DEF add_new_event
<1>2. seen' = seen /\ grants' = grants /\ clients_group' \subseteq AllGroups
  BY <1>1 DEF add_new_event, Create, IInv, TypeOK
<1>3. CASE Reply(-1) /\ UNCHANGED <<clients, events, clock>>
  <2>1. TypeOK'
    BY <1>2, <1>3 DEF IInv, TypeOK, Reply
  <2>2. SeenIssued' /\ OneGrantPerId'
    BY <1>2, <1>3 DEF IInv, SeenIssued, OneGrantPerId, Issued
  <2> QED BY <1>2, <1>3, <2>1, <2>2, SameSlots DEF IInv
<1> DEFINE s == [hash_event |-> NewHash(g), json |-> m,
                 count_restart |-> 0, busy |-> TRUE, process |-> FALSE]
<1>4. CASE Register(w, g) /\ Tick /\ AddSlot(g, s) /\ Reply(0)
  <2>1. /\ NewHash(g) \in HashEvent /\ NewHash(g) \in Issued' /\ NewHash(g) \notin Issued
        /\ NewHash(g).group = g /\ Issued \subseteq Issued' /\ clock' \in 0..MaxClock
        /\ grants[NewHash(g)] = 0
    BY <1>4, NewHashIsNew
  <2>2. s \in Slot /\ s.busy /\ s.hash_event = NewHash(g) /\ s.json = m
    BY <2>1 DEF Slot
  <2> HIDE DEF s
  <2>3. \E i : Puts(g, i, s)
    <3>1. events \in [AllGroups -> Seq(Slot)]
      BY DEF IInv, TypeOK
    <3> QED BY <1>4, <2>2, <3>1, SetSlotPuts, AppendPuts DEF AddSlot
  <2>4. PICK i : Puts(g, i, s)
    BY <2>3
  <2>5. \A j \in DOMAIN events[g] : events[g][j].busy => events[g][j].hash_event # NewHash(g)
    BY <2>1 DEF IInv, BusyHasHash
  <2>6. GoodSlot(g, i, s)
    BY <1>2, <2>1, <2>2, <2>5 DEF GoodSlot
  <2>7. BusyHasHash' /\ FreeIsClean' /\ UniqueHashes' /\ WaitingNotGranted'
    BY <1>2, <2>1, <2>2, <2>4, <2>6, PutKeepsSlots
  <2>8. clients' \in [AllGroups -> SUBSET Workers]
    BY <1>4, RegisterType DEF IInv, TypeOK
  <2>9. TypeOK'
    BY <1>2, <1>4, <2>1, <2>4, <2>8 DEF IInv, TypeOK, Puts, Reply
  <2>10. GrantsIssued' /\ SeenIssued' /\ OneGrantPerId'
    BY <1>2, <2>1 DEF IInv, GrantsIssued, SeenIssued, OneGrantPerId
  <2> QED BY <2>7, <2>9, <2>10 DEF IInv
<1> QED BY <1>1, <1>3, <1>4

LEMMA InitInv == Init => IInv
<1> SUFFICES ASSUME Init PROVE IInv
  OBVIOUS
<1> DEFINE tab == [i \in 1..InitialSlots |-> FreeSlot]
<1>1. tab \in Seq(Slot)
  BY FreeSlotType, TaskerAssumption
<1>2. \A g \in AllGroups : events[g] = tab
  BY DEF Init
<1>3. \A g \in AllGroups : \A i \in DOMAIN events[g] : events[g][i] = FreeSlot
  BY <1>2
<1>4. ~FreeSlot.busy
  BY DEF FreeSlot
<1>5. TypeOK
  <2> HIDE DEF tab
  <2> QED BY <1>1, TaskerAssumption DEF Init, TypeOK, tab
<1>6. BusyHasHash /\ FreeIsClean /\ UniqueHashes /\ WaitingNotGranted
  BY <1>3, <1>4 DEF BusyHasHash, FreeIsClean, UniqueHashes, WaitingNotGranted, Waiting
<1>7. GrantsIssued /\ SeenIssued /\ OneGrantPerId
  BY DEF Init, GrantsIssued, SeenIssued, OneGrantPerId
<1> QED BY <1>5, <1>6, <1>7 DEF IInv

LEMMA NextInv == IInv /\ [Next]_vars => IInv'
<1> SUFFICES ASSUME IInv, [Next]_vars PROVE IInv'
  OBVIOUS
<1>1. CASE UNCHANGED vars
  <2>1. TypeOK' /\ SeenIssued' /\ OneGrantPerId'
    BY <1>1 DEF vars, IInv, TypeOK, SeenIssued, OneGrantPerId, Issued
  <2>2. BusyHasHash' /\ FreeIsClean' /\ UniqueHashes' /\ WaitingNotGranted' /\ GrantsIssued'
    BY <1>1, SameSlots DEF vars
  <2> QED BY <2>1, <2>2 DEF IInv
<1>2. CASE Next
  BY <1>2, GetInv, StartInv, ClearInv, EndInv, AddInv DEF Next
<1> QED BY <1>1, <1>2

-----------------------------------------------------------------------------

\* In every reachable state of the tasker its tables are well typed and sound.
THEOREM TaskerInvariant == Spec => []IInv
BY InitInv, NextInv, PTL DEF Spec

\* The tables are well typed, no two events of the server share a hash, and an
\* event_id is granted at most once, whatever requests come in what order.
THEOREM TaskerSafe == Spec => [](TypeOK /\ UniqueHashes /\ OneGrantPerId)
<1>1. IInv => TypeOK /\ UniqueHashes /\ OneGrantPerId
  BY DEF IInv
<1> QED BY <1>1, TaskerInvariant, PTL

-----------------------------------------------------------------------------
(* The tasker implements EventBoard: every handler posts, takes, gives back *)
(* or finishes one ticket, or leaves the board alone.                      *)

ticket(s) == [id |-> s.hash_event, event |-> s.json]

Shows(s, p) == s.busy /\ s.process = p

\* The ticket a slot shows on side p of the board, if any.
OnBoard(s, p) == IF Shows(s, p) THEN {ticket(s)} ELSE {}

OldOnBoard(g, i, p) == IF i \in DOMAIN events[g] THEN OnBoard(events[g][i], p) ELSE {}

LEMMA TicketsMember ==
  ASSUME NEW g, NEW p, NEW x
  PROVE  x \in TicketsOf(g, p) <=>
            \E k \in DOMAIN events[g] : Shows(events[g][k], p) /\ x = ticket(events[g][k])
BY DEF TicketsOf, Shows, ticket

LEMMA TicketsMemberNext ==
  ASSUME NEW CONSTANT g, NEW CONSTANT p, NEW CONSTANT x
  PROVE  x \in TicketsOf(g, p)' <=>
            \E k \in DOMAIN events'[g] : Shows(events'[g][k], p) /\ x = ticket(events'[g][k])
BY DEF TicketsOf, Shows, ticket

\* Putting a slot replaces the ticket that the old slot showed by the one the
\* new slot shows, and touches no other: no two slots show the same ticket.
LEMMA PutChangesBoard ==
  ASSUME IInv, NEW CONSTANT g \in AllGroups, NEW CONSTANT i, NEW s, Puts(g, i, s),
         NEW CONSTANT p \in BOOLEAN
  PROVE  /\ TicketsOf(g, p)' = (TicketsOf(g, p) \ OldOnBoard(g, i, p)) \cup OnBoard(s, p)
         /\ OldOnBoard(g, i, p) \subseteq TicketsOf(g, p)
         /\ \A h \in AllGroups \ {g} : TicketsOf(h, p)' = TicketsOf(h, p)
<1>1. /\ i \in DOMAIN events'[g] /\ events'[g][i] = s
      /\ \A k \in DOMAIN events[g] : k \in DOMAIN events'[g]
      /\ \A k \in DOMAIN events'[g] \ {i} :
            k \in DOMAIN events[g] /\ events'[g][k] = events[g][k]
  BY DEF Puts
<1>2. \A k \in DOMAIN events[g] \ {i} :
         Shows(events[g][k], p) => ticket(events[g][k]) \notin OldOnBoard(g, i, p)
  <2> SUFFICES ASSUME NEW k \in DOMAIN events[g] \ {i}, Shows(events[g][k], p),
                      ticket(events[g][k]) \in OldOnBoard(g, i, p)
               PROVE  FALSE
    OBVIOUS
  <2>1. /\ i \in DOMAIN events[g] /\ events[g][i].busy /\ events[g][k].busy
        /\ ticket(events[g][k]) = ticket(events[g][i])
    BY DEF OldOnBoard, OnBoard, Shows
  <2>2. events[g][k].hash_event = events[g][i].hash_event
    BY <2>1 DEF ticket
  <2> QED BY <2>1, <2>2 DEF IInv, UniqueHashes
<1>3. ASSUME NEW CONSTANT x
      PROVE  x \in TicketsOf(g, p)' <=>
                x \in (TicketsOf(g, p) \ OldOnBoard(g, i, p)) \cup OnBoard(s, p)
  <2>1. x \in TicketsOf(g, p)' <=>
           \E k \in DOMAIN events'[g] : Shows(events'[g][k], p) /\ x = ticket(events'[g][k])
    BY TicketsMemberNext
  <2>2. x \in TicketsOf(g, p) <=>
           \E k \in DOMAIN events[g] : Shows(events[g][k], p) /\ x = ticket(events[g][k])
    BY TicketsMember
  <2>3. x \in OnBoard(s, p) <=> Shows(s, p) /\ x = ticket(s)
    BY DEF OnBoard
  <2>4. i \in DOMAIN events[g] /\ Shows(events[g][i], p) =>
           ticket(events[g][i]) \in OldOnBoard(g, i, p)
    BY DEF OldOnBoard, OnBoard
  <2> QED BY <1>1, <1>2, <2>1, <2>2, <2>3, <2>4
<1>4. OldOnBoard(g, i, p) \subseteq TicketsOf(g, p)
  BY TicketsMember DEF OldOnBoard, OnBoard
<1>5. ASSUME NEW CONSTANT h \in AllGroups \ {g}
      PROVE  TicketsOf(h, p)' = TicketsOf(h, p)
  <2>1. DOMAIN events'[h] = DOMAIN events[h]
        /\ \A k \in DOMAIN events[h] : events'[h][k] = events[h][k]
    BY DEF Puts
  <2> QED BY <2>1 DEF TicketsOf
<1> QED BY <1>3, <1>4, <1>5

-----------------------------------------------------------------------------
(* What the board sees of the tables *)

waits == [g \in AllGroups |-> TicketsOf(g, FALSE)]
takes == [g \in AllGroups |-> TicketsOf(g, TRUE)]
usedIds == [group : AllGroups, clock : 1..clock]

LEMMA BoardChange ==
  ASSUME IInv, NEW CONSTANT g \in AllGroups, NEW CONSTANT i, NEW s, Puts(g, i, s)
  PROVE  /\ waits'[g] = (waits[g] \ OldOnBoard(g, i, FALSE)) \cup OnBoard(s, FALSE)
         /\ takes'[g] = (takes[g] \ OldOnBoard(g, i, TRUE)) \cup OnBoard(s, TRUE)
         /\ \A h \in AllGroups \ {g} : waits'[h] = waits[h] /\ takes'[h] = takes[h]
         /\ OldOnBoard(g, i, FALSE) \subseteq waits[g]
         /\ OldOnBoard(g, i, TRUE) \subseteq takes[g]
BY PutChangesBoard DEF waits, takes

LEMMA BoardExcept ==
  ASSUME NEW g \in AllGroups,
         \A h \in AllGroups \ {g} : waits'[h] = waits[h] /\ takes'[h] = takes[h]
  PROVE  /\ waits' = [waits EXCEPT ![g] = waits'[g]]
         /\ takes' = [takes EXCEPT ![g] = takes'[g]]
BY DEF waits, takes

LEMMA SameBoard ==
  ASSUME events' = events, clock' = clock
  PROVE  waits' = waits /\ takes' = takes /\ usedIds' = usedIds
BY DEF waits, takes, usedIds, TicketsOf

\* A tick makes room for one more identifier, which was not used before.
LEMMA TickUses ==
  ASSUME IInv, NEW g \in AllGroups, Tick
  PROVE  /\ NewHash(g) \in HashEvent
         /\ NewHash(g) \notin usedIds
         /\ usedIds \cup {NewHash(g)} \subseteq usedIds'
<1>1. clock \in Nat /\ clock' = clock + 1
  BY DEF IInv, TypeOK, Tick
<1> QED BY <1>1, NewHashIsNew DEF usedIds, NewHash

LEMMA BoardInit == Init => Board!Init
<1> SUFFICES ASSUME Init PROVE Board!Init
  OBVIOUS
<1>1. \A g \in AllGroups : \A i \in DOMAIN events[g] : ~events[g][i].busy
  BY DEF Init, FreeSlot
<1>2. \A g \in AllGroups : TicketsOf(g, FALSE) = {} /\ TicketsOf(g, TRUE) = {}
  BY <1>1 DEF TicketsOf
<1>3. [group : AllGroups, clock : 1..clock] = {}
  <2>1. 1..clock = {}
    BY DEF Init
  <2> QED BY <2>1
<1> QED BY <1>2, <1>3 DEF Board!Init

LEMMA StartBoard ==
  ASSUME IInv, NEW w \in Workers, NEW g \in Groups, NEW id \in EventIds,
         start_event(w, g, id)
  PROVE  [Board!Next]_(Board!vars)
<1>1. g \in AllGroups
  BY DEF AllGroups
<1>2. CASE events' = events
  BY <1>2, SameBoard DEF start_event, NoSuchGroup, waits, takes, usedIds, Board!vars
<1>3. ASSUME NEW CONSTANT i \in DOMAIN events[g], Finds(g, id, i), ~events[g][i].process,
             SetSlot(g, i, [events[g][i] EXCEPT !.process = TRUE])
      PROVE  Board!Next
  <2> DEFINE s == [events[g][i] EXCEPT !.process = TRUE]
             tk == ticket(events[g][i])
  <2>1. events[g][i] \in Slot /\ events[g][i].busy
    BY <1>1, <1>3, SlotAt, FoundId
  <2>2. s \in Slot /\ s.busy /\ s.process /\ ticket(s) = tk
    BY <2>1 DEF Slot, ticket
  <2> HIDE DEF s
  <2>3. Puts(g, i, s)
    BY <1>1, <1>3, <2>2, SetSlotPuts DEF IInv, TypeOK, s
  <2>4. /\ OldOnBoard(g, i, FALSE) = {tk} /\ OldOnBoard(g, i, TRUE) = {}
        /\ OnBoard(s, FALSE) = {} /\ OnBoard(s, TRUE) = {tk}
    BY <1>3, <2>1, <2>2 DEF OldOnBoard, OnBoard, Shows
  <2> HIDE DEF tk
  <2>5. /\ waits' = [waits EXCEPT ![g] = @ \ {tk}]
        /\ takes' = [takes EXCEPT ![g] = @ \cup {tk}]
        /\ tk \in waits[g]
    <3> DEFINE W == waits[g] \ {tk}
               T == takes[g] \cup {tk}
    <3>1. /\ W = (waits[g] \ OldOnBoard(g, i, FALSE)) \cup OnBoard(s, FALSE)
          /\ T = (takes[g] \ OldOnBoard(g, i, TRUE)) \cup OnBoard(s, TRUE)
      BY <2>4
    <3> HIDE DEF W, T
    <3>2. /\ waits'[g] = W /\ takes'[g] = T
          /\ \A h \in AllGroups \ {g} : waits'[h] = waits[h] /\ takes'[h] = takes[h]
          /\ OldOnBoard(g, i, FALSE) \subseteq waits[g]
          /\ OldOnBoard(g, i, TRUE) \subseteq takes[g]
      BY <1>1, <2>3, <3>1, BoardChange
    <3>3. waits' = [waits EXCEPT ![g] = W] /\ takes' = [takes EXCEPT ![g] = T]
      BY <1>1, <3>2, BoardExcept
    <3> QED BY <3>2, <3>3, <2>4 DEF W, T
  <2>6. usedIds' = usedIds
    BY DEF start_event, NoSuchGroup, usedIds
  <2>7. Board!Take(g, tk)
    BY <2>5, <2>6 DEF Board!Take, waits, takes, usedIds
  <2>8. tk \in [h \in AllGroups |-> TicketsOf(h, FALSE)][g]
    BY <2>5 DEF waits
  <2> QED BY <1>1, <2>7, <2>8 DEF Board!Next
<1>4. \/ events' = events
      \/ \E i \in DOMAIN events[g] :
            /\ Finds(g, id, i) /\ ~events[g][i].process
            /\ SetSlot(g, i, [events[g][i] EXCEPT !.process = TRUE])
  BY DEF start_event, NoSuchGroup
<1> QED BY <1>2, <1>3, <1>4

LEMMA ClearBoard ==
  ASSUME IInv, NEW w \in Workers, NEW g \in Groups, NEW id \in EventIds,
         clear_event(w, g, id)
  PROVE  [Board!Next]_(Board!vars)
<1>1. g \in AllGroups
  BY DEF AllGroups
<1>2. CASE events' = events /\ clock' = clock
  BY <1>2, SameBoard DEF waits, takes, usedIds, Board!vars
<1> DEFINE s(i) == [events[g][i] EXCEPT !.count_restart = @ + 1,
                                        !.hash_event = NewHash(g),
                                        !.process = FALSE]
<1>3. ASSUME NEW CONSTANT i \in DOMAIN events[g], Finds(g, id, i), events[g][i].process,
             Tick, SetSlot(g, i, s(i))
      PROVE  Board!Next
  <2> DEFINE tk == ticket(events[g][i])
             new == [tk EXCEPT !.id = NewHash(g)]
  <2>1. events[g][i] \in Slot /\ events[g][i].busy
    BY <1>1, <1>3, SlotAt, FoundId
  <2>2. /\ NewHash(g) \in HashEvent /\ NewHash(g) \notin usedIds
        /\ usedIds \cup {NewHash(g)} \subseteq usedIds'
    BY <1>1, <1>3, TickUses
  <2>3. s(i) \in Slot /\ s(i).busy /\ ~s(i).process /\ ticket(s(i)) = new
    <3> DEFINE n == events[g][i].count_restart + 1
    <3>1. n \in Nat
      BY <2>1 DEF Slot
    <3>2. s(i) = [events[g][i] EXCEPT !.count_restart = n, !.hash_event = NewHash(g),
                                      !.process = FALSE]
      OBVIOUS
    <3> HIDE DEF s, n
    <3>3. /\ s(i) \in Slot /\ s(i).busy /\ ~s(i).process
          /\ s(i).hash_event = NewHash(g) /\ s(i).json = events[g][i].json
      BY <2>1, <2>2, <3>1, <3>2 DEF Slot
    <3> QED BY <3>3 DEF ticket
  <2> HIDE DEF s
  <2>4. Puts(g, i, s(i))
    BY <1>1, <1>3, <2>3, SetSlotPuts DEF IInv, TypeOK
  <2>5. /\ OldOnBoard(g, i, FALSE) = {} /\ OldOnBoard(g, i, TRUE) = {tk}
        /\ OnBoard(s(i), FALSE) = {new} /\ OnBoard(s(i), TRUE) = {}
    BY <1>3, <2>1, <2>3 DEF OldOnBoard, OnBoard, Shows
  <2> HIDE DEF tk
  <2>6. /\ waits' = [waits EXCEPT ![g] = @ \cup {new}]
        /\ takes' = [takes EXCEPT ![g] = @ \ {tk}]
        /\ tk \in takes[g]
    <3> HIDE DEF new
    <3> DEFINE W == waits[g] \cup {new}
               T == takes[g] \ {tk}
    <3>1. /\ W = (waits[g] \ OldOnBoard(g, i, FALSE)) \cup OnBoard(s(i), FALSE)
          /\ T = (takes[g] \ OldOnBoard(g, i, TRUE)) \cup OnBoard(s(i), TRUE)
      BY <2>5
    <3> HIDE DEF W, T
    <3>2. /\ waits'[g] = W /\ takes'[g] = T
          /\ \A h \in AllGroups \ {g} : waits'[h] = waits[h] /\ takes'[h] = takes[h]
          /\ OldOnBoard(g, i, FALSE) \subseteq waits[g]
          /\ OldOnBoard(g, i, TRUE) \subseteq takes[g]
      BY <1>1, <2>4, <3>1, BoardChange
    <3>3. waits' = [waits EXCEPT ![g] = W] /\ takes' = [takes EXCEPT ![g] = T]
      BY <1>1, <3>2, BoardExcept
    <3> QED BY <3>2, <3>3, <2>5 DEF W, T
  <2>7. Board!GiveBack(g, tk, NewHash(g))
    BY <2>2, <2>6 DEF Board!GiveBack, Board!Use, waits, takes, usedIds
  <2>8. /\ tk \in [h \in AllGroups |-> TicketsOf(h, TRUE)][g]
        /\ NewHash(g) \in HashEvent \ [group : AllGroups, clock : 1..clock]
    BY <2>2, <2>6 DEF takes, usedIds
  <2> QED BY <1>1, <2>7, <2>8 DEF Board!Next
<1>4. \/ events' = events /\ clock' = clock
      \/ \E i \in DOMAIN events[g] :
            Finds(g, id, i) /\ events[g][i].process /\ Tick /\ SetSlot(g, i, s(i))
  BY DEF clear_event, NoSuchGroup
<1> QED BY <1>2, <1>3, <1>4

LEMMA EndBoard ==
  ASSUME IInv, NEW w \in Workers, NEW g \in Groups, NEW id \in EventIds,
         end_event(w, g, id)
  PROVE  [Board!Next]_(Board!vars)
<1>1. g \in AllGroups /\ clock' = clock
  BY DEF AllGroups, end_event, NoSuchGroup
<1>2. CASE events' = events
  BY <1>1, <1>2, SameBoard DEF waits, takes, usedIds, Board!vars
<1>3. ASSUME NEW CONSTANT i \in DOMAIN events[g], Finds(g, id, i), SetSlot(g, i, FreeSlot)
      PROVE  Board!Next
  <2> DEFINE tk == ticket(events[g][i])
  <2>1. events[g][i] \in Slot /\ events[g][i].busy /\ ~FreeSlot.busy
    BY <1>1, <1>3, SlotAt, FoundId DEF FreeSlot
  <2>2. Puts(g, i, FreeSlot)
    BY <1>1, <1>3, FreeSlotType, SetSlotPuts DEF IInv, TypeOK
  <2>3. events[g][i].process \in BOOLEAN
    BY <2>1 DEF Slot
  <2>4. /\ OldOnBoard(g, i, FALSE) \cup OldOnBoard(g, i, TRUE) = {tk}
        /\ OnBoard(FreeSlot, FALSE) = {} /\ OnBoard(FreeSlot, TRUE) = {}
    BY <1>3, <2>1, <2>3 DEF OldOnBoard, OnBoard, Shows
  <2>5. /\ tk \notin OldOnBoard(g, i, TRUE) => tk \notin takes[g]
        /\ tk \notin OldOnBoard(g, i, FALSE) => tk \notin waits[g]
    <3>1. \A p \in BOOLEAN : tk \in TicketsOf(g, p) => events[g][i].process = p
      <4> SUFFICES ASSUME NEW p \in BOOLEAN, tk \in TicketsOf(g, p)
                   PROVE  events[g][i].process = p
        OBVIOUS
      <4>1. PICK k \in DOMAIN events[g] :
              Shows(events[g][k], p) /\ tk = ticket(events[g][k])
        BY TicketsMember
      <4>2. events[g][k].busy /\ events[g][k].hash_event = events[g][i].hash_event
        BY <4>1 DEF ticket, Shows
      <4>3. k = i
        BY <1>1, <2>1, <4>2 DEF IInv, UniqueHashes
      <4> QED BY <4>1, <4>3 DEF Shows
    <3> QED BY <1>1, <2>1, <3>1 DEF OldOnBoard, OnBoard, Shows, waits, takes
  <2> HIDE DEF tk
  <2>6. /\ waits' = [waits EXCEPT ![g] = @ \ {tk}]
        /\ takes' = [takes EXCEPT ![g] = @ \ {tk}]
        /\ tk \in waits[g] \cup takes[g]
    <3> DEFINE W == waits[g] \ {tk}
               T == takes[g] \ {tk}
    <3>1. /\ W = (waits[g] \ OldOnBoard(g, i, FALSE)) \cup OnBoard(FreeSlot, FALSE)
          /\ T = (takes[g] \ OldOnBoard(g, i, TRUE)) \cup OnBoard(FreeSlot, TRUE)
      BY <2>4, <2>5
    <3> HIDE DEF W, T
    <3>2. /\ waits'[g] = W /\ takes'[g] = T
          /\ \A h \in AllGroups \ {g} : waits'[h] = waits[h] /\ takes'[h] = takes[h]
          /\ OldOnBoard(g, i, FALSE) \subseteq waits[g]
          /\ OldOnBoard(g, i, TRUE) \subseteq takes[g]
      BY <1>1, <2>2, <3>1, BoardChange
    <3>3. waits' = [waits EXCEPT ![g] = W] /\ takes' = [takes EXCEPT ![g] = T]
      BY <1>1, <3>2, BoardExcept
    <3> QED BY <3>2, <3>3, <2>4 DEF W, T
  <2>7. Board!Finish(g, tk)
    BY <1>1, <2>6 DEF Board!Finish, waits, takes
  <2>8. tk \in [h \in AllGroups |-> TicketsOf(h, FALSE)][g]
               \cup [h \in AllGroups |-> TicketsOf(h, TRUE)][g]
    BY <2>6 DEF waits, takes
  <2> QED BY <1>1, <2>7, <2>8 DEF Board!Next
<1>4. \/ events' = events
      \/ \E i \in DOMAIN events[g] : Finds(g, id, i) /\ SetSlot(g, i, FreeSlot)
  BY DEF end_event, NoSuchGroup
<1> QED BY <1>2, <1>3, <1>4

\* A new event goes to a free slot or past the end of the table: in both cases
\* where nothing was shown.
LEMMA AddSlotPuts ==
  ASSUME IInv, NEW CONSTANT g \in AllGroups, NEW s \in Slot, AddSlot(g, s)
  PROVE  \E i : /\ Puts(g, i, s)
                /\ i \in DOMAIN events[g] => ~events[g][i].busy
<1>1. events \in [AllGroups -> Seq(Slot)]
  BY DEF IInv, TypeOK
<1>2. CASE \E i \in DOMAIN events[g] : FirstFree(g, i) /\ SetSlot(g, i, s)
  BY <1>1, <1>2, SetSlotPuts DEF FirstFree
<1>3. CASE events' = [events EXCEPT ![g] = Append(@, s)]
  <2>1. Puts(g, Len(events[g]) + 1, s)
    BY <1>1, <1>3, AppendPuts
  <2>2. Len(events[g]) + 1 \notin DOMAIN events[g]
    BY <1>1
  <2> QED BY <2>1, <2>2
<1> QED BY <1>2, <1>3 DEF AddSlot

LEMMA AddBoard ==
  ASSUME IInv, NEW w \in Workers, NEW m \in Messages, add_new_event(w, m)
  PROVE  [Board!Next]_(Board!vars)
<1>1. CASE events' = events /\ clock' = clock
  BY <1>1, SameBoard DEF waits, takes, usedIds, Board!vars
<1>2. ASSUME NEW CONSTANT g \in AllGroups, Tick,
             AddSlot(g, [hash_event |-> NewHash(g), json |-> m,
                         count_restart |-> 0, busy |-> TRUE, process |-> FALSE])
      PROVE  Board!Next
  <2> DEFINE s == [hash_event |-> NewHash(g), json |-> m,
                   count_restart |-> 0, busy |-> TRUE, process |-> FALSE]
             tk == [id |-> NewHash(g), event |-> m]
  <2>1. /\ NewHash(g) \in HashEvent /\ NewHash(g) \notin usedIds
        /\ usedIds \cup {NewHash(g)} \subseteq usedIds'
    BY <1>2, TickUses
  <2>2. s \in Slot /\ s.busy /\ ~s.process /\ ticket(s) = tk
    BY <2>1 DEF Slot, ticket
  <2> HIDE DEF s
  <2>3. PICK i : Puts(g, i, s) /\ (i \in DOMAIN events[g] => ~events[g][i].busy)
    BY <1>2, <2>2, AddSlotPuts DEF s
  <2>4. /\ OldOnBoard(g, i, FALSE) = {} /\ OldOnBoard(g, i, TRUE) = {}
        /\ OnBoard(s, FALSE) = {tk} /\ OnBoard(s, TRUE) = {}
    BY <2>2, <2>3 DEF OldOnBoard, OnBoard, Shows
  <2> HIDE DEF tk
  <2>5. waits' = [waits EXCEPT ![g] = @ \cup {tk}] /\ takes' = takes
    <3> DEFINE W == waits[g] \cup {tk}
    <3>1. /\ W = (waits[g] \ OldOnBoard(g, i, FALSE)) \cup OnBoard(s, FALSE)
          /\ takes[g] = (takes[g] \ OldOnBoard(g, i, TRUE)) \cup OnBoard(s, TRUE)
      BY <2>4
    <3> HIDE DEF W
    <3>2. /\ waits'[g] = W /\ takes'[g] = takes[g]
          /\ \A h \in AllGroups \ {g} : waits'[h] = waits[h] /\ takes'[h] = takes[h]
      BY <2>3, <3>1, BoardChange
    <3>3. waits' = [waits EXCEPT ![g] = W] /\ takes' = [takes EXCEPT ![g] = takes[g]]
      BY <3>2, BoardExcept
    <3>4. takes = [takes EXCEPT ![g] = takes[g]]
      BY DEF takes
    <3> QED BY <3>3, <3>4 DEF W
  <2>6. Board!Post(g, NewHash(g), m)
    BY <2>1, <2>5 DEF Board!Post, Board!Use, waits, takes, usedIds, tk
  <2>7. NewHash(g) \in HashEvent \ [group : AllGroups, clock : 1..clock]
    BY <2>1 DEF usedIds
  <2> QED BY <2>6, <2>7 DEF Board!Next
<1>3. \/ events' = events /\ clock' = clock
      \/ \E g \in AllGroups :
            /\ Tick
            /\ AddSlot(g, [hash_event |-> NewHash(g), json |-> m,
                           count_restart |-> 0, busy |-> TRUE, process |-> FALSE])
  BY DEF add_new_event
<1> QED BY <1>1, <1>2, <1>3

\* The tasker implements the board: whatever requests come in what order, no
\* event is lost, copied, altered, moved, or taken twice under one hash.
THEOREM TaskerImplementsBoard == Spec => ImplementsBoard
<1>1. IInv /\ [Next]_vars => [Board!Next]_(Board!vars)
  <2> SUFFICES ASSUME IInv, [Next]_vars PROVE [Board!Next]_(Board!vars)
    OBVIOUS
  <2>1. CASE events' = events /\ clock' = clock
    BY <2>1, SameBoard DEF waits, takes, usedIds, Board!vars
  <2>2. CASE Next
    <3>1. ASSUME NEW w \in Workers, NEW g \in Groups, get_events_json(w, g)
          PROVE  events' = events /\ clock' = clock
      BY <3>1 DEF get_events_json
    <3> QED BY <2>1, <2>2, <3>1, StartBoard, ClearBoard, EndBoard, AddBoard DEF Next
  <2> QED BY <2>1, <2>2 DEF vars
<1> QED BY <1>1, BoardInit, TaskerInvariant, PTL DEF Spec, ImplementsBoard, Board!Spec

\* An event that the server has no next hop for stays in its slot for ever.
THEOREM TaskerKeepsMisrouted == Spec => MisroutedStays
<1> DEFINE Stays == \A i \in DOMAIN events[NoGroup] :
                       events[NoGroup][i].busy => events'[NoGroup][i] = events[NoGroup][i]
<1>1. IInv /\ [Next]_vars => [Stays]_vars
  <2> SUFFICES ASSUME IInv, [Next]_vars PROVE Stays
    OBVIOUS
  <2>1. NoGroup \in AllGroups /\ events \in [AllGroups -> Seq(Slot)]
    BY DEF AllGroups, IInv, TypeOK
  <2>2. CASE events' = events
    BY <2>2
  <2>3. ASSUME NEW g \in Groups, NEW i, NEW s, SetSlot(g, i, s)
        PROVE  Stays
    <3>1. g \in AllGroups /\ g # NoGroup
      BY TaskerAssumption DEF AllGroups
    <3>2. events'[NoGroup] = events[NoGroup]
      BY <2>1, <2>3, <3>1 DEF SetSlot
    <3> QED BY <3>2
  <2>4. ASSUME NEW g \in AllGroups, NEW s, AddSlot(g, s)
        PROVE  Stays
    <3>1. CASE \E i \in DOMAIN events[g] : FirstFree(g, i) /\ SetSlot(g, i, s)
      <4>1. PICK i \in DOMAIN events[g] :
               ~events[g][i].busy /\ events' = [events EXCEPT ![g] = [@ EXCEPT ![i] = s]]
        BY <3>1 DEF FirstFree, SetSlot
      <4>2. \A j \in DOMAIN events[NoGroup] \ {i} : events'[NoGroup][j] = events[NoGroup][j]
        BY <2>1, <4>1
      <4>3. g # NoGroup => events'[NoGroup] = events[NoGroup]
        BY <2>1, <4>1
      <4> QED BY <4>1, <4>2, <4>3
    <3>2. CASE events' = [events EXCEPT ![g] = Append(@, s)]
      <4>1. events'[NoGroup] = IF g = NoGroup THEN Append(events[NoGroup], s)
                               ELSE events[NoGroup]
        BY <2>1, <3>2
      <4>2. events[NoGroup] \in Seq(Slot)
        BY <2>1
      <4>3. \A j \in DOMAIN events[NoGroup] :
               Append(events[NoGroup], s)[j] = events[NoGroup][j]
        BY <4>2
      <4> QED BY <4>1, <4>3
    <3> QED BY <2>4, <3>1, <3>2 DEF AddSlot
  <2>5. ASSUME NEW w \in Workers, NEW m \in Messages, add_new_event(w, m)
        PROVE  Stays
    BY <2>2, <2>4, <2>5 DEF add_new_event
  <2>6. ASSUME NEW w \in Workers, NEW g \in Groups, NEW id \in EventIds,
               start_event(w, g, id) \/ clear_event(w, g, id) \/ end_event(w, g, id)
        PROVE  events' = events \/ \E i, s : SetSlot(g, i, s)
    BY <2>6 DEF start_event, clear_event, end_event, NoSuchGroup
  <2>7. ASSUME NEW w \in Workers, NEW g \in Groups, get_events_json(w, g)
        PROVE  events' = events
    BY <2>7 DEF get_events_json
  <2>8. CASE Next
    BY <2>2, <2>3, <2>5, <2>6, <2>7, <2>8 DEF Next
  <2> QED BY <2>2, <2>8 DEF vars
<1> QED BY <1>1, TaskerInvariant, PTL DEF Spec, MisroutedStays

=============================================================================
